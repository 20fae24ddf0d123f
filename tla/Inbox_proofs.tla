---------------------------- MODULE Inbox_proofs ----------------------------
(***************************************************************************)
(* Proofs about Inbox, for any roster and readers, any number of events    *)
(* and of remounts.                                                        *)
(***************************************************************************)
EXTENDS Inbox, FiniteSetTheorems, WellFoundedInduction, TLAPS

-----------------------------------------------------------------------------
(* The inductive invariant.                                                *)

Messages(h) == {n \in DOMAIN log : Targets(log[n], h)}
Reports(h)  == {n \in DOMAIN log : log[n].kind = "inbox_read" /\ log[n].from = h}

\* A report names an event before it, one that was in the log when it was read.
ReportsLookBack ==
    /\ \A h \in Handles : pending[h] \subseteq DOMAIN log
    /\ \A h \in Handles : \A n \in Reports(h) : log[n].up_to < n

\* The projection of a handle lists the messages before the cursor, in the order
\* of the log.
Projected(h) ==
    /\ \A i \in DOMAIN inbox[h].matched :
          /\ inbox[h].matched[i] \in Messages(h)
          /\ inbox[h].matched[i] <= cursor
    /\ \A i, j \in DOMAIN inbox[h].matched :
          i < j => inbox[h].matched[i] < inbox[h].matched[j]
    /\ \A n \in Messages(h) :
          n <= cursor => \E i \in DOMAIN inbox[h].matched : inbox[h].matched[i] = n

\* Its watermark is the highest up_to of the reports before the cursor, and
\* read_idx divides the messages up to it from those beyond it.
Marked(h) ==
    /\ \A n \in Reports(h) : n <= cursor => log[n].up_to <= inbox[h].watermark
    /\ \/ inbox[h].watermark = 0
       \/ \E n \in Reports(h) : n <= cursor /\ log[n].up_to = inbox[h].watermark
    /\ \A i \in DOMAIN inbox[h].matched :
          i <= inbox[h].read_idx <=> inbox[h].matched[i] <= inbox[h].watermark

InboxInv ==
    /\ InboxTypeOK /\ Len(log) <= MaxEvents
    /\ ReportsLookBack
    /\ \A h \in Handles : Projected(h) /\ Marked(h)

\* What a read has reported or is about to report was shown, with every message
\* before it.
ReportsWereShown ==
    \A h \in Handles :
        /\ \A up_to \in pending[h] : \A n \in Messages(h) : n <= up_to => n \in shown[h]
        /\ \A r \in Reports(h) : \A n \in Messages(h) : n <= log[r].up_to => n \in shown[h]

-----------------------------------------------------------------------------
(* Maxima.                                                                 *)

\* A non-empty set of naturals has a least member.
LEMMA LeastNatural ==
    ASSUME NEW T \in SUBSET Nat, T # {}
    PROVE  \E m \in T : \A k \in T : m <= k
<1>1. PICK m \in T : \A k \in T : ~(<<k, m>> \in OpToRel(<, Nat))
  BY NatLessThanWellFounded, WFMin
<1>2. ASSUME NEW k \in T PROVE m <= k
  <2>1. ~(k < m)
    BY <1>1 DEF OpToRel
  <2> QED
    BY <2>1
<1> QED
  BY <1>2

\* A set of naturals with a bound has a greatest member, and Max is it.
LEMMA MaxOfBounded ==
    ASSUME NEW S \in SUBSET Nat, S # {}, NEW b \in Nat, \A x \in S : x <= b
    PROVE  Max(S) \in S /\ \A x \in S : x <= Max(S)
<1> DEFINE T == {b - x : x \in S}
<1>1. T \in SUBSET Nat
  OBVIOUS
<1>2. PICK m \in T : \A y \in T : m <= y
  <2>1. T # {}
    OBVIOUS
  <2> QED
    BY <1>1, <2>1, LeastNatural
<1>3. PICK x \in S : m = b - x
  OBVIOUS
<1>4. ASSUME NEW y \in S PROVE x >= y
  <2>1. b - y \in T
    OBVIOUS
  <2> QED
    BY <1>2, <1>3, <2>1
<1>5. Max(S) \in S /\ \A y \in S : Max(S) >= y
  BY <1>4 DEF Max
<1> QED
  BY <1>5

\* What Max is, when its value is known.
LEMMA MaxIs ==
    ASSUME NEW S \in SUBSET Nat, NEW m \in S, \A x \in S : x <= m
    PROVE  Max(S) = m
<1>1. Max(S) \in S /\ \A x \in S : x <= Max(S)
  BY MaxOfBounded
<1>2. Max(S) \in Nat /\ m \in Nat /\ Max(S) <= m /\ m <= Max(S)
  BY <1>1
<1> QED
  BY <1>2

-----------------------------------------------------------------------------
(* What the operators return.                                              *)

\* The last message a read printed is in the log, and nothing it printed is
\* beyond it.
LEMMA LastPrinted ==
    ASSUME InboxTypeOK, NEW handle \in Handles, NEW since, NEW sender,
           Printed(handle, since, sender) # {}
    PROVE  LET last == Max(Printed(handle, since, sender))
           IN  /\ last \in Printed(handle, since, sender)
               /\ \A n \in Printed(handle, since, sender) : n <= last
<1>1. /\ Printed(handle, since, sender) \in SUBSET Nat
      /\ Len(log) \in Nat
      /\ \A n \in Printed(handle, since, sender) : n <= Len(log)
  BY DEF Printed, InboxTypeOK
<1> QED
  BY <1>1, MaxOfBounded

BoxType == [matched : Seq(Ids), read_idx : Nat, watermark : 0 .. MaxEvents]

\* An inbox whose read_idx divides its messages at the watermark has it divide
\* them at the new one.
LEMMA HandleInboxReadDivides ==
    ASSUME NEW box \in BoxType, box.read_idx <= Len(box.matched), NEW up_to \in Ids,
           \A i, j \in DOMAIN box.matched : i < j => box.matched[i] < box.matched[j],
           \A i \in DOMAIN box.matched :
              i <= box.read_idx <=> box.matched[i] <= box.watermark
    PROVE  LET new == HandleInboxRead(box, up_to)
           IN  /\ new \in BoxType
               /\ new.matched = box.matched
               /\ new.read_idx <= Len(new.matched)
               /\ new.watermark = IF up_to <= box.watermark THEN box.watermark ELSE up_to
               /\ \A i \in DOMAIN new.matched :
                     i <= new.read_idx <=> new.matched[i] <= new.watermark
<1>1. CASE up_to <= box.watermark
  BY <1>1 DEF HandleInboxRead, BoxType
<1>2. CASE ~(up_to <= box.watermark)
  <2> DEFINE S == {i \in (box.read_idx + 1) .. Len(box.matched) :
                      \A j \in (box.read_idx + 1) .. i : box.matched[j] <= up_to}
             U == {box.read_idx} \cup S
             r == Max(U)
  <2>1. /\ Len(box.matched) \in Nat /\ box.read_idx \in Nat
        /\ box.matched \in Seq(Ids) /\ box.watermark \in Nat
        /\ up_to \in Nat /\ up_to \in 0 .. MaxEvents
        /\ DOMAIN box.matched = 1 .. Len(box.matched)
        /\ \A i \in 1 .. Len(box.matched) : box.matched[i] \in Nat
    BY InboxAssumption DEF BoxType, Ids
  <2>2. r \in U /\ \A x \in U : x <= r
    <3>1. U \in SUBSET Nat /\ U # {} /\ \A x \in U : x <= Len(box.matched)
      BY <2>1
    <3> HIDE DEF U
    <3> QED
      BY <2>1, <3>1, MaxOfBounded
  <2>3. HandleInboxRead(box, up_to) = [box EXCEPT !.watermark = up_to, !.read_idx = r]
    BY <1>2 DEF HandleInboxRead
  <2> HIDE DEF r
  <2>4. r \in Nat /\ box.read_idx <= r /\ r <= Len(box.matched)
    BY <2>1, <2>2
  <2>5. \A j \in (box.read_idx + 1) .. r : box.matched[j] <= up_to
    BY <2>1, <2>2
  <2>6. r + 1 <= Len(box.matched) => box.matched[r + 1] > up_to
    <3> SUFFICES ASSUME r + 1 <= Len(box.matched), ~(box.matched[r + 1] > up_to)
                 PROVE  FALSE
      OBVIOUS
    <3>1. box.matched[r + 1] <= up_to
      BY <2>1, <2>4
    <3>2. \A j \in (box.read_idx + 1) .. (r + 1) : j \in (box.read_idx + 1) .. r \/ j = r + 1
      BY <2>1, <2>4
    <3>3. r + 1 \in S
      BY <2>1, <2>4, <2>5, <3>1, <3>2
    <3> QED
      BY <2>2, <2>4, <3>3
  <2>7. ASSUME NEW i \in DOMAIN box.matched
        PROVE  i <= r <=> box.matched[i] <= up_to
    <3>1. CASE i <= box.read_idx
      <4>1. box.matched[i] <= box.watermark
        BY <3>1
      <4> QED
        BY <1>2, <2>1, <2>4, <3>1, <4>1
    <3>2. CASE box.read_idx < i /\ i <= r
      BY <2>1, <2>4, <2>5, <3>2
    <3>3. CASE r < i
      <4>1. r + 1 \in DOMAIN box.matched /\ box.matched[r + 1] > up_to
        BY <2>1, <2>4, <2>6, <3>3
      <4>2. box.matched[r + 1] <= box.matched[i]
        <5>1. r + 1 = i \/ r + 1 < i
          BY <2>1, <2>4, <3>3
        <5>2. r + 1 < i => box.matched[r + 1] < box.matched[i]
          BY <4>1
        <5> QED
          BY <2>1, <4>1, <5>1, <5>2
      <4> QED
        BY <2>1, <2>4, <3>3, <4>1, <4>2
    <3> QED
      BY <2>1, <2>4, <3>1, <3>2, <3>3
  <2>8. HandleInboxRead(box, up_to) \in BoxType
    BY <2>1, <2>3, <2>4 DEF BoxType
  <2> QED
    BY <1>2, <2>1, <2>3, <2>4, <2>7, <2>8 DEF BoxType
<1> QED
  BY <1>1, <1>2

\* An appended element comes last and moves nothing.
LEMMA Appended ==
    ASSUME NEW S, NEW seq \in Seq(S), NEW elt \in S
    PROVE  /\ Append(seq, elt) \in Seq(S) /\ Len(seq) \in Nat
           /\ DOMAIN seq = 1 .. Len(seq)
           /\ DOMAIN Append(seq, elt) = 1 .. (Len(seq) + 1)
           /\ Len(Append(seq, elt)) = Len(seq) + 1
           /\ \A i \in DOMAIN seq : Append(seq, elt)[i] = seq[i]
           /\ Append(seq, elt)[Len(seq) + 1] = elt
OBVIOUS

-----------------------------------------------------------------------------
(* InboxInv is inductive.                                                  *)

LEMMA InitInbox == InboxInit => InboxInv /\ ReportsWereShown
<1> SUFFICES ASSUME InboxInit PROVE InboxInv /\ ReportsWereShown
  OBVIOUS
<1>1. InboxTypeOK /\ Len(log) <= MaxEvents
  BY InboxAssumption DEF InboxInit, InboxTypeOK, EmptyInbox
<1>2. \A h \in Handles : Messages(h) = {} /\ Reports(h) = {}
  BY DEF InboxInit, Messages, Reports
<1>3. ReportsLookBack /\ ReportsWereShown
  BY <1>2 DEF InboxInit, ReportsLookBack, ReportsWereShown
<1>4. \A h \in Handles : Projected(h) /\ Marked(h)
  BY <1>2 DEF InboxInit, Projected, Marked, EmptyInbox
<1> QED
  BY <1>1, <1>3, <1>4 DEF InboxInv

\* A step that appends an event changes nothing before it.
LEMMA AppendKeeps ==
    ASSUME InboxTypeOK, NEW event \in Event, log' = Append(log, event)
    PROVE  /\ log' \in Seq(Event)
           /\ Len(log') = Len(log) + 1
           /\ DOMAIN log = 1 .. Len(log)
           /\ DOMAIN log' = DOMAIN log \cup {Len(log) + 1}
           /\ \A n \in DOMAIN log : log'[n] = log[n]
           /\ log'[Len(log) + 1] = event
<1>1. log \in Seq(Event) /\ Len(log) \in Nat /\ DOMAIN log = 1 .. Len(log)
  BY DEF InboxTypeOK
<1>2. DOMAIN log' = 1 .. (Len(log) + 1)
  BY <1>1
<1> QED
  BY <1>1, <1>2

\* An appended event is beyond the cursor, so the projections stay exact.
LEMMA AppendKeepsProjection ==
    ASSUME InboxInv, NEW event \in Event, log' = Append(log, event),
           UNCHANGED <<cursor, inbox>>
    PROVE  \A h \in Handles : Projected(h)' /\ Marked(h)'
<1> SUFFICES ASSUME NEW h \in Handles PROVE Projected(h)' /\ Marked(h)'
  OBVIOUS
<1>1. InboxTypeOK /\ Projected(h) /\ Marked(h)
  BY DEF InboxInv
<1>2. /\ Len(log) \in Nat /\ cursor \in Nat /\ cursor <= Len(log)
      /\ DOMAIN log' = DOMAIN log \cup {Len(log) + 1}
      /\ \A n \in DOMAIN log : log'[n] = log[n]
  BY <1>1, AppendKeeps DEF InboxTypeOK
<1>3. \A n \in DOMAIN log' : n <= cursor => n \in DOMAIN log
  BY <1>2
<1>4. /\ Messages(h) \subseteq Messages(h)'
      /\ \A n \in Messages(h)' : n <= cursor => n \in Messages(h)
  BY <1>2, <1>3 DEF Messages, Targets
<1>5. /\ \A n \in Reports(h) : n \in Reports(h)' /\ log'[n].up_to = log[n].up_to
      /\ \A n \in Reports(h)' : n <= cursor => n \in Reports(h) /\ log'[n].up_to = log[n].up_to
  BY <1>2, <1>3 DEF Reports
<1>6. Projected(h)'
  BY <1>1, <1>4 DEF Projected
<1>7. Marked(h)'
  BY <1>1, <1>5 DEF Marked
<1> QED
  BY <1>6, <1>7

LEMMA PostKeeps ==
    ASSUME InboxInv, NEW handle \in Handles, NEW to \in Handles \cup {All}, Post(handle, to)
    PROVE  InboxInv'
<1> DEFINE event == [kind |-> "message", from |-> handle, to |-> to]
<1>1. InboxTypeOK /\ ReportsLookBack
  BY DEF InboxInv
<1>2. event \in Event /\ log' = Append(log, event) /\ Len(log) < MaxEvents
  BY DEF Post, Event
<1>3. UNCHANGED <<pending, shown, cursor, inbox, remounts>>
  BY DEF Post
<1>4. event.kind # "inbox_read"
  OBVIOUS
<1> HIDE DEF event
<1>5. InboxTypeOK' /\ Len(log)' <= MaxEvents
  BY <1>1, <1>2, <1>3, AppendKeeps, InboxAssumption DEF InboxTypeOK
<1>6. ReportsLookBack'
  <2>1. \A h \in Handles : \A n \in Reports(h)' : n \in Reports(h) /\ log'[n].up_to = log[n].up_to
    BY <1>1, <1>2, <1>4, AppendKeeps DEF Reports
  <2> QED
    BY <1>1, <1>2, <1>3, <2>1, AppendKeeps DEF ReportsLookBack
<1> QED
  BY <1>2, <1>3, <1>5, <1>6, AppendKeepsProjection DEF InboxInv

LEMMA ReadKeeps ==
    ASSUME InboxInv, NEW handle \in Handles, NEW since, NEW sender, Read(handle, since, sender)
    PROVE  InboxInv'
<1> DEFINE printed == Printed(handle, since, sender)
           last    == Max(printed)
<1>1. InboxTypeOK /\ ReportsLookBack /\ Len(log) <= MaxEvents
  BY DEF InboxInv
<1>2. last \in printed /\ printed \subseteq DOMAIN log
  <2>1. printed # {}
    BY DEF Read
  <2>2. last \in printed
    BY <1>1, <2>1, LastPrinted
  <2> QED
    BY <2>2 DEF Printed
<1>3. /\ shown' = [shown EXCEPT ![handle] = @ \cup printed]
      /\ pending' = [pending EXCEPT ![handle] = IF sender = All THEN @ \cup {last} ELSE @]
      /\ UNCHANGED <<log, cursor, inbox, remounts>>
  BY DEF Read
<1> HIDE DEF printed, last
<1>4. DOMAIN log \subseteq Ids
  BY <1>1, InboxAssumption DEF InboxTypeOK, Ids
<1>5. InboxTypeOK'
  BY <1>1, <1>2, <1>3, <1>4 DEF InboxTypeOK
<1>6. ReportsLookBack'
  BY <1>1, <1>2, <1>3 DEF ReportsLookBack, Reports, InboxTypeOK
<1>7. ASSUME NEW h \in Handles PROVE Projected(h)' /\ Marked(h)'
  BY <1>3 DEF InboxInv, Projected, Marked, Messages, Reports
<1> QED
  BY <1>1, <1>3, <1>5, <1>6, <1>7 DEF InboxInv

LEMMA AppendInboxReadKeeps ==
    ASSUME InboxInv, NEW handle \in Handles, NEW up_to, AppendInboxRead(handle, up_to)
    PROVE  InboxInv'
<1> DEFINE event == [kind |-> "inbox_read", from |-> handle, up_to |-> up_to]
<1>1. InboxTypeOK /\ ReportsLookBack
  BY DEF InboxInv
<1>2. up_to \in Ids /\ up_to \in DOMAIN log
  BY <1>1 DEF AppendInboxRead, InboxTypeOK, ReportsLookBack
<1>3. event \in Event /\ log' = Append(log, event) /\ Len(log) < MaxEvents
  BY <1>2 DEF AppendInboxRead, Event
<1>4. /\ pending' = [pending EXCEPT ![handle] = @ \ {up_to}]
      /\ UNCHANGED <<shown, cursor, inbox, remounts>>
  BY DEF AppendInboxRead
<1>5. event.up_to = up_to
  OBVIOUS
<1> HIDE DEF event
<1>6. InboxTypeOK' /\ Len(log)' <= MaxEvents
  BY <1>1, <1>3, <1>4, AppendKeeps, InboxAssumption DEF InboxTypeOK
<1>7. ReportsLookBack'
  <2>1. up_to < Len(log) + 1
    BY <1>1, <1>2 DEF InboxTypeOK
  <2>2. ASSUME NEW h \in Handles, NEW n \in Reports(h)'
        PROVE  log'[n].up_to < n
    <3>1. CASE n \in DOMAIN log
      <4>1. n \in Reports(h) /\ log'[n] = log[n]
        BY <1>1, <1>3, <3>1, AppendKeeps DEF Reports
      <4> QED
        BY <1>1, <4>1 DEF ReportsLookBack
    <3>2. CASE n = Len(log) + 1
      BY <1>1, <1>3, <1>5, <2>1, <3>2, AppendKeeps
    <3> QED
      BY <1>1, <1>3, <3>1, <3>2, AppendKeeps DEF Reports
  <2>3. \A h \in Handles : pending'[h] \subseteq pending[h]
    BY <1>1, <1>4 DEF InboxTypeOK
  <2>4. DOMAIN log \subseteq DOMAIN log'
    BY <1>1, <1>3, AppendKeeps
  <2> QED
    BY <1>1, <2>2, <2>3, <2>4 DEF ReportsLookBack
<1> QED
  BY <1>3, <1>4, <1>6, <1>7, AppendKeepsProjection DEF InboxInv

LEMMA InboxReadLostKeeps ==
    ASSUME InboxInv, NEW handle \in Handles, NEW up_to, InboxReadLost(handle, up_to)
    PROVE  InboxInv'
<1>1. /\ pending' = [pending EXCEPT ![handle] = @ \ {up_to}]
      /\ UNCHANGED <<log, shown, cursor, inbox, remounts>>
  BY DEF InboxReadLost
<1>2. InboxTypeOK' /\ Len(log)' <= MaxEvents
  BY <1>1 DEF InboxInv, InboxTypeOK
<1>3. ReportsLookBack'
  BY <1>1 DEF InboxInv, InboxTypeOK, ReportsLookBack, Reports
<1>4. ASSUME NEW h \in Handles PROVE Projected(h)' /\ Marked(h)'
  BY <1>1 DEF InboxInv, Projected, Marked, Messages, Reports
<1> QED
  BY <1>2, <1>3, <1>4 DEF InboxInv

LEMMA RemountKeeps ==
    ASSUME InboxInv, Remount
    PROVE  InboxInv'
<1>1. /\ remounts < MaxRemounts /\ remounts' = remounts + 1
      /\ cursor' = 0
      /\ inbox' = [h \in Handles |-> EmptyInbox]
      /\ UNCHANGED <<log, pending, shown>>
  BY DEF Remount
<1>2. InboxTypeOK' /\ Len(log)' <= MaxEvents
  BY <1>1, InboxAssumption DEF InboxInv, InboxTypeOK, EmptyInbox
<1>3. ReportsLookBack'
  BY <1>1 DEF InboxInv, ReportsLookBack, Reports
<1>4. ASSUME NEW h \in Handles PROVE Projected(h)' /\ Marked(h)'
  <2>1. inbox'[h] = EmptyInbox
    BY <1>1
  <2>2. \A n \in DOMAIN log' : ~(n <= cursor')
    BY <1>1 DEF InboxInv, InboxTypeOK
  <2> QED
    BY <2>1, <2>2 DEF Projected, Marked, Messages, Reports, EmptyInbox
<1> QED
  BY <1>2, <1>3, <1>4 DEF InboxInv

\* The bus projects a message: it is beyond every watermark, which a report
\* before it set.
LEMMA TickMessageKeeps ==
    ASSUME InboxInv, Tick, log[cursor + 1].kind = "message"
    PROVE  InboxInv'
<1> DEFINE id    == cursor + 1
           event == log[id]
<1>1. InboxTypeOK /\ ReportsLookBack /\ Len(log) <= MaxEvents
  BY DEF InboxInv
<1>2. /\ id \in DOMAIN log /\ id \in Ids /\ cursor \in Nat
      /\ DOMAIN log = 1 .. Len(log) /\ Len(log) \in Nat
  BY <1>1, InboxAssumption DEF Tick, InboxTypeOK, Ids
<1>3. /\ cursor' = id
      /\ inbox' = ProjectMessage(event, id)
      /\ UNCHANGED <<log, pending, shown, remounts>>
  BY DEF Tick
<1>4. event.kind = "message" /\ \A h \in Handles : id \notin Reports(h)
  BY DEF Reports
<1> HIDE DEF id, event
<1>5. ReportsLookBack'
  BY <1>1, <1>3 DEF ReportsLookBack, Reports
<1>6. ASSUME NEW h \in Handles
      PROVE  /\ inbox'[h] \in BoxType
             /\ inbox'[h].read_idx <= Len(inbox'[h].matched)
             /\ Projected(h)' /\ Marked(h)'
  <2> DEFINE box == inbox[h]
  <2>1. /\ box \in BoxType /\ box.read_idx <= Len(box.matched)
        /\ Projected(h) /\ Marked(h)
    BY <1>1 DEF InboxInv, InboxTypeOK, BoxType
  <2>2. Messages(h)' = Messages(h) /\ Reports(h)' = Reports(h)
    BY <1>3 DEF Messages, Reports
  <2>3. box.watermark < id
    <3>1. CASE box.watermark = 0
      BY <1>2, <3>1 DEF Ids
    <3>2. CASE \E n \in Reports(h) : n <= cursor /\ log[n].up_to = box.watermark
      <4>1. PICK n \in Reports(h) : n <= cursor /\ log[n].up_to = box.watermark
        BY <3>2
      <4>2. box.watermark < n /\ n \in Nat /\ box.watermark \in Nat
        BY <1>1, <1>2, <2>1, <4>1 DEF ReportsLookBack, Reports, BoxType
      <4> QED
        BY <1>2, <4>1, <4>2 DEF id
    <3> QED
      BY <2>1, <3>1, <3>2 DEF Marked
  <2>4. \A n \in DOMAIN log : n <= id => n <= cursor \/ n = id
    BY <1>2 DEF id
  <2>5. /\ \A n \in Reports(h)' : n <= cursor' => log'[n].up_to <= box.watermark
        /\ \/ box.watermark = 0
           \/ \E n \in Reports(h)' : n <= cursor' /\ log'[n].up_to = box.watermark
    <3>1. \A n \in Reports(h) : n <= id <=> n <= cursor
      BY <1>2, <1>4, <2>4 DEF id, Reports
    <3> QED
      BY <1>3, <2>1, <2>2, <3>1 DEF Marked
  <2>6. CASE ~Targets(event, h)
    <3>1. inbox'[h] = box
      BY <1>3, <2>6 DEF ProjectMessage
    <3>2. id \notin Messages(h)
      BY <2>6 DEF Messages, event
    <3>3. \A n \in Messages(h) : n <= id <=> n <= cursor
      BY <1>2, <2>4, <3>2 DEF id, Messages
    <3>4. Projected(h)'
      BY <1>3, <2>1, <2>2, <3>1, <3>3 DEF Projected
    <3>5. Marked(h)'
      BY <1>3, <2>1, <2>5, <3>1 DEF Marked
    <3> QED
      BY <2>1, <3>1, <3>4, <3>5
  <2>7. CASE Targets(event, h)
    <3> DEFINE new == inbox'[h]
    <3>1. new = [box EXCEPT !.matched = Append(@, id)]
      BY <1>3, <2>7 DEF ProjectMessage
    <3>2. /\ new.matched = Append(box.matched, id)
          /\ new.read_idx = box.read_idx /\ new.watermark = box.watermark
          /\ new \in BoxType
      <4>1. box.matched \in Seq(Ids) /\ Append(box.matched, id) \in Seq(Ids)
        BY <1>2, <2>1 DEF BoxType
      <4> HIDE DEF new
      <4> QED
        BY <2>1, <3>1, <4>1 DEF BoxType
    <3>3. /\ box.matched \in Seq(Ids) /\ Len(box.matched) \in Nat
          /\ DOMAIN box.matched = 1 .. Len(box.matched)
          /\ DOMAIN new.matched = 1 .. (Len(box.matched) + 1)
          /\ Len(new.matched) = Len(box.matched) + 1
          /\ \A i \in DOMAIN box.matched : new.matched[i] = box.matched[i]
          /\ new.matched[Len(box.matched) + 1] = id
      <4>1. box.matched \in Seq(Ids)
        BY <2>1 DEF BoxType
      <4> HIDE DEF new, box
      <4> QED
        BY <1>2, <3>2, <4>1, Appended
    <3> HIDE DEF new
    <3>4. \A i \in DOMAIN new.matched : i \in DOMAIN box.matched \/ i = Len(box.matched) + 1
      BY <3>3
    <3>5. id \in Messages(h)
      BY <1>2, <2>7 DEF Messages, event
    <3>6. \A i \in DOMAIN box.matched : box.matched[i] < id
      BY <1>2, <2>1 DEF Projected, Messages, id
    <3>7. Projected(h)'
      <4>1. \A i \in DOMAIN new.matched : new.matched[i] \in Messages(h) /\ new.matched[i] <= id
        <5> TAKE i \in DOMAIN new.matched
        <5>1. CASE i \in DOMAIN box.matched
          <6>1. new.matched[i] = box.matched[i] /\ box.matched[i] \in Messages(h)
            BY <2>1, <3>3, <5>1 DEF Projected
          <6>2. box.matched[i] \in Nat /\ box.matched[i] < id
            <7>1. box.matched[i] < id
              BY <3>6, <5>1
            <7>2. box.matched[i] \in Ids
              <8> HIDE DEF box
              <8> QED
                BY <3>3, <5>1
            <7> QED
              BY <7>1, <7>2 DEF Ids
          <6> QED
            BY <1>2, <6>1, <6>2 DEF Ids
        <5>2. CASE i = Len(box.matched) + 1
          BY <1>2, <3>3, <3>5, <5>2 DEF Ids
        <5> QED
          BY <3>4, <5>1, <5>2
      <4>2. \A i, j \in DOMAIN new.matched : i < j => new.matched[i] < new.matched[j]
        <5> TAKE i, j \in DOMAIN new.matched
        <5> HAVE i < j
        <5>1. i \in DOMAIN box.matched /\ new.matched[i] = box.matched[i]
          BY <3>3
        <5>2. CASE j \in DOMAIN box.matched
          BY <2>1, <3>3, <5>1, <5>2 DEF Projected
        <5>3. CASE j = Len(box.matched) + 1
          BY <3>3, <3>6, <5>1, <5>3
        <5> QED
          BY <3>4, <5>2, <5>3
      <4>3. ASSUME NEW n \in Messages(h), n <= id
            PROVE  \E i \in DOMAIN new.matched : new.matched[i] = n
        <5>1. CASE n = id
          BY <3>3, <5>1
        <5>2. CASE n # id
          <6>1. PICK i \in DOMAIN box.matched : box.matched[i] = n
            BY <2>1, <2>4, <4>3, <5>2 DEF Projected, Messages
          <6> QED
            BY <3>3, <6>1
        <5> QED
          BY <5>1, <5>2
      <4> QED
        BY <1>3, <2>2, <4>1, <4>2, <4>3 DEF Projected, new
    <3>8. Marked(h)'
      <4>1. \A i \in DOMAIN new.matched :
               i <= new.read_idx <=> new.matched[i] <= new.watermark
        <5>1. \A i \in DOMAIN box.matched :
                 i <= new.read_idx <=> new.matched[i] <= new.watermark
          BY <2>1, <3>2, <3>3 DEF Marked
        <5>2. box.read_idx \in Nat /\ box.watermark \in Nat /\ id \in Nat
          BY <1>2, <2>1 DEF BoxType, Ids
        <5>3. ~(Len(box.matched) + 1 <= new.read_idx) /\ ~(id <= new.watermark)
          BY <2>1, <2>3, <3>2, <3>3, <5>2
        <5>4. \A i \in DOMAIN new.matched :
                 i = Len(box.matched) + 1 =>
                    (i <= new.read_idx <=> new.matched[i] <= new.watermark)
          BY <3>3, <5>3
        <5> HIDE DEF box
        <5> QED
          BY ONLY <3>4, <5>1, <5>4
      <4> QED
        BY <1>3, <2>5, <3>2, <4>1 DEF Marked, new
    <3>9. new.read_idx <= Len(new.matched)
      BY <2>1, <3>2, <3>3 DEF BoxType
    <3> QED
      BY <3>2, <3>7, <3>8, <3>9 DEF new
  <2> QED
    BY <2>6, <2>7
<1>7. InboxTypeOK' /\ Len(log)' <= MaxEvents
  <2>1. inbox' \in [Handles -> BoxType]
    BY <1>3, <1>6 DEF ProjectMessage
  <2> QED
    BY <1>1, <1>2, <1>3, <1>6, <2>1 DEF InboxTypeOK, BoxType
<1> QED
  BY <1>5, <1>6, <1>7 DEF InboxInv

\* The bus projects a report: it raises the watermark of its sender, or is stale.
LEMMA TickReportKeeps ==
    ASSUME InboxInv, Tick, log[cursor + 1].kind # "message"
    PROVE  InboxInv'
<1> DEFINE id    == cursor + 1
           event == log[id]
<1>1. InboxTypeOK /\ ReportsLookBack /\ Len(log) <= MaxEvents
  BY DEF InboxInv
<1>2. /\ id \in DOMAIN log /\ cursor \in Nat
      /\ DOMAIN log = 1 .. Len(log) /\ Len(log) \in Nat /\ event \in Event
  BY <1>1 DEF Tick, InboxTypeOK
<1>3. /\ event.kind = "inbox_read" /\ event.from \in Handles /\ event.up_to \in Ids
  BY <1>2 DEF Event
<1>4. /\ cursor' = id
      /\ inbox' = [inbox EXCEPT ![event.from] = HandleInboxRead(@, event.up_to)]
      /\ UNCHANGED <<log, pending, shown, remounts>>
  BY <1>3 DEF Tick
<1>5. /\ \A h \in Handles : id \notin Messages(h)
      /\ \A h \in Handles : id \in Reports(h) <=> h = event.from
  BY <1>2, <1>3 DEF Messages, Reports, Targets
<1>6. \A n \in DOMAIN log : n <= id <=> n <= cursor \/ n = id
  BY <1>2
<1> HIDE DEF id
<1>7. ReportsLookBack'
  BY <1>1, <1>4 DEF ReportsLookBack, Reports
<1>8. ASSUME NEW h \in Handles
      PROVE  /\ inbox'[h] \in BoxType
             /\ inbox'[h].read_idx <= Len(inbox'[h].matched)
             /\ Projected(h)' /\ Marked(h)'
  <2>1. /\ inbox[h] \in BoxType /\ inbox[h].read_idx <= Len(inbox[h].matched)
        /\ Projected(h) /\ Marked(h)
    BY <1>1 DEF InboxInv, InboxTypeOK, BoxType
  <2>2. Messages(h)' = Messages(h) /\ Reports(h)' = Reports(h)
    BY <1>4 DEF Messages, Reports
  <2>3. \A n \in Messages(h) : n <= id <=> n <= cursor
    BY <1>5, <1>6 DEF Messages
  <2>4. inbox'[h].matched = inbox[h].matched => Projected(h)'
    BY <1>2, <1>4, <1>6, <2>1, <2>2, <2>3 DEF Projected, Messages
  <2>5. CASE h # event.from
    <3>1. inbox'[h] = inbox[h]
      BY <1>1, <1>3, <1>4, <2>5 DEF InboxTypeOK
    <3>2. \A n \in Reports(h) : n <= id <=> n <= cursor
      BY <1>5, <1>6, <2>5 DEF Reports
    <3>3. Marked(h)'
      BY <1>4, <2>1, <2>2, <3>1, <3>2 DEF Marked
    <3> QED
      BY <2>1, <2>4, <3>1, <3>3
  <2>6. CASE h = event.from
    <3> DEFINE new == inbox'[h]
    <3>1. new = HandleInboxRead(inbox[h], event.up_to)
      BY <1>1, <1>3, <1>4, <2>6 DEF InboxTypeOK
    <3>2. /\ new \in BoxType
          /\ new.matched = inbox[h].matched
          /\ new.read_idx <= Len(new.matched)
          /\ new.watermark = IF event.up_to <= inbox[h].watermark THEN inbox[h].watermark
                             ELSE event.up_to
          /\ \A i \in DOMAIN new.matched : i <= new.read_idx <=> new.matched[i] <= new.watermark
      BY <1>3, <2>1, <3>1, HandleInboxReadDivides DEF Projected, Marked
    <3> HIDE DEF new
    <3>3. /\ inbox[h].watermark \in Nat /\ event.up_to \in Nat
          /\ \A n \in Reports(h) : log[n].up_to \in Nat
      <4>1. inbox[h].watermark \in Nat /\ event.up_to \in Nat
        BY <1>3, <2>1 DEF BoxType, Ids
      <4>2. ASSUME NEW n \in Reports(h) PROVE log[n].up_to \in Nat
        <5>1. log[n] \in Event /\ log[n].kind = "inbox_read"
          BY <1>1, <4>2 DEF Reports, InboxTypeOK
        <5> QED
          BY <5>1 DEF Event, Ids
      <4> QED
        BY <4>1, <4>2
    <3>4. \A n \in Reports(h) : n <= id => log[n].up_to <= new.watermark
      <4> TAKE n \in Reports(h)
      <4> HAVE n <= id
      <4>1. CASE n = id
        BY <3>2, <3>3, <4>1
      <4>2. CASE n <= cursor
        <5>1. log[n].up_to <= inbox[h].watermark
          BY <2>1, <4>2 DEF Marked
        <5> QED
          BY <3>2, <3>3, <5>1
      <4> QED
        BY <1>6, <4>1, <4>2 DEF Reports
    <3>5. \/ new.watermark = 0
          \/ \E n \in Reports(h) : n <= id /\ log[n].up_to = new.watermark
      <4>1. CASE event.up_to <= inbox[h].watermark
        BY <1>6, <2>1, <3>2, <4>1 DEF Marked, Reports
      <4>2. CASE ~(event.up_to <= inbox[h].watermark)
        BY <1>2, <1>5, <1>6, <2>6, <3>2, <4>2
      <4> QED
        BY <4>1, <4>2
    <3>6. Marked(h)'
      BY <1>4, <2>2, <3>2, <3>4, <3>5 DEF Marked, new
    <3> QED
      BY <2>4, <3>2, <3>6 DEF new
  <2> QED
    BY <2>5, <2>6
<1>9. InboxTypeOK' /\ Len(log)' <= MaxEvents
  <2>1. inbox' \in [Handles -> BoxType]
    BY <1>1, <1>4, <1>8 DEF InboxTypeOK
  <2>2. id \in 0 .. Len(log)
    BY <1>2 DEF id
  <2> QED
    BY <1>1, <1>4, <1>8, <2>1, <2>2 DEF InboxTypeOK, BoxType
<1> QED
  BY <1>7, <1>8, <1>9 DEF InboxInv

LEMMA InboxStep == InboxInv /\ [InboxNext]_inboxVars => InboxInv'
<1> SUFFICES ASSUME InboxInv, [InboxNext]_inboxVars PROVE InboxInv'
  OBVIOUS
<1>1. ASSUME NEW h \in Handles, NEW to \in Handles \cup {All}, Post(h, to) PROVE InboxInv'
  BY <1>1, PostKeeps
<1>2. ASSUME NEW h \in Handles, NEW since, NEW sender, Read(h, since, sender) PROVE InboxInv'
  BY <1>2, ReadKeeps
<1>3. ASSUME NEW h \in Handles, NEW up_to, AppendInboxRead(h, up_to) PROVE InboxInv'
  BY <1>3, AppendInboxReadKeeps
<1>4. ASSUME NEW h \in Handles, NEW up_to, InboxReadLost(h, up_to) PROVE InboxInv'
  BY <1>4, InboxReadLostKeeps
<1>5. CASE Tick
  BY <1>5, TickMessageKeeps, TickReportKeeps
<1>6. CASE Remount
  BY <1>6, RemountKeeps
<1>7. CASE UNCHANGED inboxVars
  <2>1. InboxTypeOK' /\ ReportsLookBack' /\ Len(log)' <= MaxEvents
    BY <1>7 DEF inboxVars, InboxInv, InboxTypeOK, ReportsLookBack, Reports
  <2>2. \A h \in Handles : Projected(h)' /\ Marked(h)'
    BY <1>7 DEF inboxVars, InboxInv, Projected, Marked, Messages, Reports
  <2> QED
    BY <2>1, <2>2 DEF InboxInv
<1> QED
  BY <1>1, <1>2, <1>3, <1>4, <1>5, <1>6, <1>7, InboxAssumption DEF InboxNext

\* The counters, the projections and the log agree in every reachable state.
THEOREM InboxInvariance == InboxSpec => []InboxInv
<1>1. InboxInit => InboxInv
  BY InitInbox
<1>2. InboxInv /\ [InboxNext]_inboxVars => InboxInv'
  BY InboxStep
<1> QED
  BY <1>1, <1>2, PTL DEF InboxSpec

\* Log, pending reports, projections and cursor keep their types; read_idx stays
\* within the messages of its inbox.
THEOREM InboxIsTyped == InboxSpec => []InboxTypeOK
<1>1. InboxInv => InboxTypeOK
  BY DEF InboxInv
<1> QED
  BY <1>1, InboxInvariance, PTL

-----------------------------------------------------------------------------
(* The counters are exact.                                                 *)

\* The messages of an inbox beyond its watermark are the elements of its
\* sequence beyond read_idx, each once.
LEMMA UnreadCounts ==
    ASSUME InboxInv, NEW h \in Handles
    PROVE  Unread(h) = Cardinality({n \in Messages(h) : n <= cursor /\ n > inbox[h].watermark})
<1> DEFINE box == inbox[h]
           I   == (box.read_idx + 1) .. Len(box.matched)
           M   == {n \in Messages(h) : n <= cursor /\ n > box.watermark}
           f   == [i \in I |-> box.matched[i]]
<1>1. /\ box \in BoxType /\ box.read_idx <= Len(box.matched)
      /\ Projected(h) /\ Marked(h)
  BY DEF InboxInv, InboxTypeOK, BoxType
<1>2. /\ box.read_idx \in Nat /\ Len(box.matched) \in Nat /\ box.watermark \in Nat
      /\ DOMAIN box.matched = 1 .. Len(box.matched)
      /\ \A i \in DOMAIN box.matched : box.matched[i] \in Nat
  BY <1>1, InboxAssumption DEF BoxType, Ids
<1>3. \A i \in DOMAIN box.matched : i \in I <=> box.matched[i] > box.watermark
  BY <1>1, <1>2 DEF Marked
<1>4. f \in [I -> M]
  BY <1>1, <1>2, <1>3 DEF Projected
<1>5. \A i, j \in I : i # j => f[i] # f[j]
  <2> TAKE i, j \in I
  <2>1. i \in DOMAIN box.matched /\ j \in DOMAIN box.matched
    BY <1>2
  <2>2. i # j => i < j \/ j < i
    BY <1>2
  <2> QED
    BY <1>1, <1>2, <2>1, <2>2 DEF Projected
<1>6. \A n \in M : \E i \in I : f[i] = n
  <2> TAKE n \in M
  <2>1. PICK i \in DOMAIN box.matched : box.matched[i] = n
    BY <1>1 DEF Projected
  <2> QED
    BY <1>3, <2>1
<1> HIDE DEF I, M, f
<1>7. ExistsBijection(I, M)
  BY <1>4, <1>5, <1>6 DEF ExistsBijection, Bijection, Injection, Surjection, IsInjective
<1>8. IsFiniteSet(I) /\ Cardinality(I) = Len(box.matched) - box.read_idx
  <2>1. box.read_idx + 1 \in Int /\ Len(box.matched) \in Int
    BY <1>2
  <2>2. /\ IsFiniteSet(I)
        /\ Cardinality(I) = IF box.read_idx + 1 > Len(box.matched) THEN 0
                            ELSE Len(box.matched) - (box.read_idx + 1) + 1
    BY <2>1, FS_Interval DEF I
  <2> QED
    BY <1>1, <1>2, <2>2
<1>9. Cardinality(M) = Cardinality(I)
  BY <1>7, <1>8, FS_Bijection
<1> QED
  BY <1>8, <1>9 DEF Unread, M

\* The incremental counters of the bus are the ones a fold of the log it has
\* seen would give: in whatever order reports were appended, or lost, and
\* however often the mission was reopened.
THEOREM UnreadStaysExact == InboxSpec => []UnreadIsExact
<1>1. InboxInv => UnreadIsExact
  <2> SUFFICES ASSUME InboxInv, NEW h \in Handles
               PROVE  LET seen  == SubSeq(log, 1, cursor)
                          reads == {n \in DOMAIN seen : /\ seen[n].kind = "inbox_read"
                                                        /\ seen[n].from = h}
                          mark  == Max({0} \cup {seen[n].up_to : n \in reads})
                      IN  /\ inbox[h].watermark = mark
                          /\ Unread(h) = Cardinality({n \in DOMAIN seen :
                                                         Targets(seen[n], h) /\ n > mark})
    BY DEF UnreadIsExact
  <2> DEFINE seen  == SubSeq(log, 1, cursor)
             reads == {n \in DOMAIN seen : seen[n].kind = "inbox_read" /\ seen[n].from = h}
             marks == {0} \cup {seen[n].up_to : n \in reads}
  <2>1. /\ log \in Seq(Event) /\ Len(log) \in Nat /\ cursor \in 0 .. Len(log)
        /\ inbox[h].watermark \in Nat /\ Marked(h)
        /\ DOMAIN log = 1 .. Len(log)
    BY InboxAssumption DEF InboxInv, InboxTypeOK
  <2>2. /\ DOMAIN seen = {n \in DOMAIN log : n <= cursor}
        /\ \A n \in DOMAIN seen : seen[n] = log[n]
    BY <2>1
  <2> HIDE DEF seen
  <2>3. reads = {n \in Reports(h) : n <= cursor}
    BY <2>2 DEF Reports
  <2>4. marks \in SUBSET Nat
    BY <2>1, <2>2, InboxAssumption DEF Event, Ids
  <2>5. inbox[h].watermark \in marks /\ \A m \in marks : m <= inbox[h].watermark
    BY <2>1, <2>2, <2>3 DEF Marked, Reports
  <2>6. inbox[h].watermark = Max(marks)
    <3> HIDE DEF marks
    <3> QED
      BY <2>4, <2>5, MaxIs
  <2>7. {n \in DOMAIN seen : Targets(seen[n], h) /\ n > inbox[h].watermark}
          = {n \in Messages(h) : n <= cursor /\ n > inbox[h].watermark}
    BY <2>2 DEF Messages
  <2> QED
    BY <2>6, <2>7, UnreadCounts DEF seen
<1> QED
  BY <1>1, InboxInvariance, PTL

-----------------------------------------------------------------------------
(* Read means shown.                                                       *)

\* A read without --since prints every message up to the last one it prints.
LEMMA ShownStep ==
    ASSUME "since" \notin Filters
    PROVE  InboxInv /\ ReportsWereShown /\ [InboxNext]_inboxVars => ReportsWereShown'
<1> SUFFICES ASSUME InboxInv, ReportsWereShown, [InboxNext]_inboxVars
             PROVE  ReportsWereShown'
  OBVIOUS
<1>0. InboxTypeOK /\ ReportsLookBack
  BY DEF InboxInv
<1>1. ASSUME NEW handle \in Handles, NEW to \in Handles \cup {All}, Post(handle, to)
      PROVE  ReportsWereShown'
  <2> DEFINE event == [kind |-> "message", from |-> handle, to |-> to]
  <2>1. /\ event \in Event /\ log' = Append(log, event) /\ event.kind # "inbox_read"
        /\ UNCHANGED <<pending, shown>>
    BY <1>1 DEF Post, Event
  <2> HIDE DEF event
  <2>2. ASSUME NEW h \in Handles
        PROVE  /\ \A n \in Messages(h)' : n \in Messages(h) \/ n = Len(log) + 1
               /\ \A r \in Reports(h)' : r \in Reports(h) /\ log'[r].up_to = log[r].up_to
    BY <1>0, <2>1, AppendKeeps DEF Messages, Reports, Targets
  <2>3. /\ \A h \in Handles : \A up_to \in pending[h] : up_to < Len(log) + 1
        /\ \A h \in Handles : \A r \in Reports(h) : log[r].up_to < Len(log) + 1
    <3>1. DOMAIN log = 1 .. Len(log) /\ Len(log) \in Nat
      BY <1>0 DEF InboxTypeOK
    <3>2. \A h \in Handles : \A r \in Reports(h) : log[r].up_to \in Nat
      BY <1>0 DEF InboxTypeOK, Reports, Event, Ids
    <3> QED
      BY <1>0, <3>1, <3>2 DEF ReportsLookBack, Reports
  <2>4. /\ Len(log) + 1 \in Nat
        /\ \A h \in Handles : \A up_to \in pending[h] : up_to \in Nat
        /\ \A h \in Handles : \A r \in Reports(h) : log[r].up_to \in Nat
    BY <1>0 DEF InboxTypeOK, Reports, Event, Ids
  <2>5. /\ \A h \in Handles : \A up_to \in pending[h] : ~(Len(log) + 1 <= up_to)
        /\ \A h \in Handles : \A r \in Reports(h) : ~(Len(log) + 1 <= log[r].up_to)
    BY <2>3, <2>4
  <2> QED
    BY <2>1, <2>2, <2>5 DEF ReportsWereShown
<1>2. ASSUME NEW handle \in Handles, NEW sender, Read(handle, 0, sender)
      PROVE  ReportsWereShown'
  <2> DEFINE printed == Printed(handle, 0, sender)
             last    == Max(printed)
  <2>1. printed # {}
    BY <1>2 DEF Read
  <2>2. last \in printed /\ \A n \in printed : n <= last
    BY <1>0, <2>1, LastPrinted
  <2>3. /\ shown' = [shown EXCEPT ![handle] = @ \cup printed]
        /\ pending' = [pending EXCEPT ![handle] = IF sender = All THEN @ \cup {last} ELSE @]
        /\ UNCHANGED log
    BY <1>2 DEF Read
  <2>4. sender = All => printed = Messages(handle)
    BY <1>0 DEF Printed, Messages, InboxTypeOK
  <2> HIDE DEF printed, last
  <2>5. \A h \in Handles : Messages(h)' = Messages(h) /\ Reports(h)' = Reports(h)
    BY <2>3 DEF Messages, Reports
  <2>6. ASSUME NEW h \in Handles
        PROVE  /\ shown[h] \subseteq shown'[h]
               /\ \A up_to \in pending'[h] :
                     up_to \in pending[h] \/ Messages(h) \subseteq shown'[h]
    BY <1>0, <2>3, <2>4 DEF InboxTypeOK
  <2> QED
    BY <2>3, <2>5, <2>6 DEF ReportsWereShown
<1>3. ASSUME NEW handle \in Handles, NEW up_to, AppendInboxRead(handle, up_to)
      PROVE  ReportsWereShown'
  <2> DEFINE event == [kind |-> "inbox_read", from |-> handle, up_to |-> up_to]
  <2>1. up_to \in Ids /\ up_to \in pending[handle]
    BY <1>0, <1>3 DEF AppendInboxRead, InboxTypeOK
  <2>2. /\ event \in Event /\ log' = Append(log, event)
        /\ event.kind # "message" /\ event.from = handle /\ event.up_to = up_to
        /\ pending' = [pending EXCEPT ![handle] = @ \ {up_to}]
        /\ UNCHANGED shown
    BY <1>3, <2>1 DEF AppendInboxRead, Event
  <2> HIDE DEF event
  <2>3. ASSUME NEW h \in Handles
        PROVE  /\ \A n \in Messages(h)' : n \in Messages(h)
               /\ \A r \in Reports(h)' :
                     \/ r \in Reports(h) /\ log'[r].up_to = log[r].up_to
                     \/ log'[r].up_to \in pending[h]
               /\ pending'[h] \subseteq pending[h]
    <3>1. \A n \in Messages(h)' : n \in Messages(h)
      BY <1>0, <2>2, AppendKeeps DEF Messages, Targets
    <3>2. \A r \in Reports(h)' :
              \/ r \in Reports(h) /\ log'[r].up_to = log[r].up_to
              \/ log'[r].up_to \in pending[h]
      BY <1>0, <2>1, <2>2, AppendKeeps DEF Reports
    <3>3. pending'[h] \subseteq pending[h]
      BY <1>0, <2>2 DEF InboxTypeOK
    <3> QED
      BY <3>1, <3>2, <3>3
  <2> QED
    BY <2>2, <2>3 DEF ReportsWereShown
<1>4. ASSUME NEW handle \in Handles, NEW up_to, InboxReadLost(handle, up_to)
      PROVE  ReportsWereShown'
  <2>1. /\ pending' = [pending EXCEPT ![handle] = @ \ {up_to}]
        /\ UNCHANGED <<log, shown>>
    BY <1>4 DEF InboxReadLost
  <2>2. \A h \in Handles : /\ Messages(h)' = Messages(h) /\ Reports(h)' = Reports(h)
                           /\ pending'[h] \subseteq pending[h]
    BY <1>0, <2>1 DEF Messages, Reports, InboxTypeOK
  <2> QED
    BY <2>1, <2>2 DEF ReportsWereShown
<1>5. ASSUME UNCHANGED <<log, pending, shown>> PROVE ReportsWereShown'
  BY <1>5 DEF ReportsWereShown, Messages, Reports
<1>6. CASE Tick \/ Remount \/ UNCHANGED inboxVars
  BY <1>5, <1>6 DEF Tick, Remount, inboxVars
<1>7. \A h \in Handles : Sinces(h) = {0}
  BY DEF Sinces
<1> QED
  BY <1>1, <1>2, <1>3, <1>4, <1>6, <1>7, InboxAssumption DEF InboxNext

\* Without --since, a message counts as read only if some `msg read` of its
\* addressee printed it.
THEOREM ReadStaysShown == ASSUME "since" \notin Filters PROVE InboxSpec => []ReadWasShown
<1>1. InboxInit => ReportsWereShown
  BY InitInbox
<1>2. InboxInv /\ ReportsWereShown /\ [InboxNext]_inboxVars => ReportsWereShown'
  BY ShownStep
<1>3. InboxInv /\ ReportsWereShown => ReadWasShown
  <2> SUFFICES ASSUME InboxInv, ReportsWereShown, NEW h \in Handles,
                      NEW i \in 1 .. inbox[h].read_idx
               PROVE  inbox[h].matched[i] \in shown[h]
    BY DEF ReadWasShown
  <2>1. /\ inbox[h] \in BoxType /\ inbox[h].read_idx <= Len(inbox[h].matched)
        /\ Projected(h) /\ Marked(h)
    BY DEF InboxInv, InboxTypeOK, BoxType
  <2>2. i \in DOMAIN inbox[h].matched /\ i <= inbox[h].read_idx
    BY <2>1 DEF BoxType
  <2>3. /\ inbox[h].matched[i] \in Messages(h)
        /\ inbox[h].matched[i] <= inbox[h].watermark
        /\ inbox[h].matched[i] \in Nat \ {0}
    <3>1. inbox[h].matched[i] \in Messages(h) /\ inbox[h].matched[i] <= inbox[h].watermark
      BY <2>1, <2>2 DEF Projected, Marked
    <3>2. inbox[h].matched[i] \in Ids
      BY <2>1, <2>2 DEF BoxType
    <3> QED
      BY <3>1, <3>2 DEF Ids
  <2>4. PICK r \in Reports(h) : log[r].up_to = inbox[h].watermark
    BY <2>1, <2>3 DEF Marked
  <2> QED
    BY <2>3, <2>4 DEF ReportsWereShown
<1> QED
  BY <1>1, <1>2, <1>3, InboxInvariance, PTL DEF InboxSpec
=============================================================================
