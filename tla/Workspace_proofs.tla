-------------------------- MODULE Workspace_proofs --------------------------
(***************************************************************************)
(* Proofs about the parts that MCWorkspace checks in one run: Crew, for    *)
(* any slots, runners and engines, any number of callers and any number of *)
(* operations; Missions, for any number of threads and any bounds;         *)
(* Attention, for any sessions, tabs and windows.                          *)
(***************************************************************************)
EXTENDS Crew, Missions, Attention, FiniteSetTheorems, TLAPS

(***************************************************************************)
(* Crew.                                                                   *)
(***************************************************************************)

-----------------------------------------------------------------------------
(* Ranks: what repack_positions computes.                                  *)

\* Distinct numbers below the size of the set fill the whole interval.
LEMMA Dense ==
    ASSUME NEW D, IsFiniteSet(D),
           NEW f \in [D -> 0 .. Cardinality(D) - 1],
           \A s, t \in D : s # t => f[s] # f[t]
    PROVE  {f[s] : s \in D} = 0 .. Cardinality(D) - 1
<1> DEFINE R == {f[s] : s \in D}
<1>1. f \in Injection(D, R) /\ f \in Surjection(D, R)
  BY DEF Injection, Surjection, IsInjective
<1>2. Cardinality(D) \in Nat
  BY FS_CardinalityType
<1>3. Cardinality(R) = Cardinality(D)
  BY <1>1, FS_Surjection, FS_CardinalityType
<1>4. /\ IsFiniteSet(0 .. Cardinality(D) - 1)
      /\ Cardinality(0 .. Cardinality(D) - 1) = Cardinality(D)
  BY <1>2, FS_Interval
<1>5. R \in SUBSET (0 .. Cardinality(D) - 1)
  OBVIOUS
<1> QED
  BY <1>3, <1>4, <1>5, FS_Subset

\* The number of elements below.
Rank(D, f) == [s \in D |-> Cardinality({t \in D : f[t] < f[s]})]

\* Counting what is below maps distinct positions to 0, 1, 2, ...
LEMMA Ranks ==
    ASSUME NEW D, IsFiniteSet(D), NEW f \in [D -> Nat],
           \A s, t \in D : s # t => f[s] # f[t]
    PROVE  /\ Rank(D, f) \in [D -> 0 .. Cardinality(D) - 1]
           /\ \A s, t \in D : f[s] < f[t] => Rank(D, f)[s] < Rank(D, f)[t]
           /\ \A s, t \in D : s # t => Rank(D, f)[s] # Rank(D, f)[t]
           /\ {Rank(D, f)[s] : s \in D} = 0 .. Cardinality(D) - 1
<1> DEFINE Below(s) == {t \in D : f[t] < f[s]}
           g == Rank(D, f)
<1>1. g = [s \in D |-> Cardinality(Below(s))]
  BY DEF Rank
<1> HIDE DEF g
<1>2. ASSUME NEW s \in D PROVE g[s] \in 0 .. Cardinality(D) - 1
  <2>1. Below(s) \in SUBSET (D \ {s}) /\ IsFiniteSet(D \ {s})
    BY FS_RemoveElement
  <2>2. Cardinality(D \ {s}) = Cardinality(D) - 1 /\ Cardinality(D) \in Nat
    BY FS_RemoveElement, FS_CardinalityType
  <2>3. /\ IsFiniteSet(Below(s))
        /\ Cardinality(Below(s)) <= Cardinality(D) - 1
    BY <2>1, <2>2, FS_Subset
  <2> QED
    BY <1>1, <2>2, <2>3, FS_CardinalityType
<1>3. ASSUME NEW s \in D, NEW t \in D, f[s] < f[t] PROVE g[s] < g[t]
  <2>1. Below(s) \in SUBSET Below(t) /\ s \in Below(t) /\ s \notin Below(s)
    BY <1>3
  <2>2. IsFiniteSet(Below(t))
    BY FS_Subset, Below(t) \in SUBSET D
  <2>3. /\ IsFiniteSet(Below(s))
        /\ Cardinality(Below(s)) <= Cardinality(Below(t))
        /\ Cardinality(Below(s)) # Cardinality(Below(t))
    BY <2>1, <2>2, FS_Subset
  <2> QED
    BY <1>1, <2>2, <2>3, FS_CardinalityType
<1>4. g \in [D -> 0 .. Cardinality(D) - 1]
  BY <1>1, <1>2
<1>5. ASSUME NEW s \in D, NEW t \in D, s # t PROVE g[s] # g[t]
  <2>1. f[s] < f[t] \/ f[t] < f[s]
    BY <1>5
  <2>2. g[s] \in Int /\ g[t] \in Int
    BY <1>2, FS_CardinalityType
  <2> QED
    BY <1>3, <2>1, <2>2
<1>6. {g[s] : s \in D} = 0 .. Cardinality(D) - 1
  BY <1>4, <1>5, Dense
<1> QED
  BY <1>3, <1>4, <1>5, <1>6 DEF g

\* Exactly one element has the lowest of distinct positions.
LEMMA First ==
    ASSUME NEW D, IsFiniteSet(D), D # {}, NEW f \in [D -> Nat],
           \A s, t \in D : s # t => f[s] # f[t]
    PROVE  \E s \in D : {x \in D : \A t \in D : f[x] <= f[t]} = {s}
<1> DEFINE g == Rank(D, f)
<1>1. /\ g \in [D -> 0 .. Cardinality(D) - 1]
      /\ \A s, t \in D : f[s] < f[t] => g[s] < g[t]
      /\ {g[s] : s \in D} = 0 .. Cardinality(D) - 1
  BY Ranks
<1>2. Cardinality(D) \in Nat /\ Cardinality(D) # 0
  BY FS_CardinalityType, FS_EmptySet
<1>3. PICK s \in D : g[s] = 0
  BY <1>1, <1>2
<1>4. \A t \in D : ~(f[t] < f[s])
  BY <1>1, <1>2, <1>3
<1>5. \A t \in D : t # s => f[s] < f[t]
  BY <1>4
<1> QED
  BY <1>5

-----------------------------------------------------------------------------
(* What the operators on rows do to a crew.                                *)

Finite == IsFiniteSet(DOMAIN slots)
Distinct(S) == \A s, t \in DOMAIN S : s # t => S[s].position # S[t].position
Rows(S) == S \in [DOMAIN S -> Row]

\* Repacking numbers the rows 0, 1, 2, ... in their order and changes nothing else.
LEMMA RepackedRows ==
    ASSUME NEW S, IsFiniteSet(DOMAIN S), Rows(S), Distinct(S)
    PROVE  /\ DOMAIN Repacked(S) = DOMAIN S
           /\ Rows(Repacked(S))
           /\ Distinct(Repacked(S))
           /\ Taken(Repacked(S)) = 0 .. Cardinality(DOMAIN S) - 1
           /\ \A s \in DOMAIN S :
                /\ Repacked(S)[s].name = S[s].name
                /\ Repacked(S)[s].runner = S[s].runner
                /\ Repacked(S)[s].lead = S[s].lead
                /\ Repacked(S)[s].engine = S[s].engine
                /\ Repacked(S)[s].model = S[s].model
<1> DEFINE D == DOMAIN S
           f == [s \in D |-> S[s].position]
           g == Rank(D, f)
           P == Repacked(S)
<1>1. f \in [D -> Nat] /\ \A s, t \in D : s # t => f[s] # f[t]
  BY DEF Rows, Row, Distinct
<1>2. /\ g \in [D -> 0 .. Cardinality(D) - 1]
      /\ \A s, t \in D : s # t => g[s] # g[t]
      /\ {g[s] : s \in D} = 0 .. Cardinality(D) - 1
  <2> HIDE DEF f
  <2> QED
    BY <1>1, Ranks
<1>3. \A s \in D : {t \in D : f[t] < f[s]} = {t \in D : S[t].position < S[s].position}
  OBVIOUS
<1>4. P = [s \in D |-> [S[s] EXCEPT !.position = g[s]]]
  BY <1>3 DEF Repacked, Rank
<1>5. \A s \in D : S[s] \in Row
  BY DEF Rows
<1>6. Cardinality(D) \in Nat
  BY FS_CardinalityType
<1> HIDE DEF f, g, P
<1>7. DOMAIN P = D /\ \A s \in D : P[s] \in Row /\ P[s].position = g[s]
  BY <1>2, <1>4, <1>5, <1>6 DEF Row
<1>8. Taken(P) = {g[s] : s \in D}
  BY <1>7 DEF Taken
<1>9. Rows(P) /\ Distinct(P)
  BY <1>2, <1>4, <1>7 DEF Rows, Distinct
<1>10. \A s \in D : /\ P[s].name = S[s].name /\ P[s].runner = S[s].runner
                     /\ P[s].lead = S[s].lead /\ P[s].engine = S[s].engine
                     /\ P[s].model = S[s].model
  BY <1>4, <1>5 DEF Row
<1> QED
  BY <1>2, <1>7, <1>8, <1>9, <1>10 DEF P

\* Rows that differ in who leads, if at all.
SameButLead(S, T) ==
    /\ DOMAIN S = DOMAIN T
    /\ \A s \in DOMAIN S : /\ S[s].name = T[s].name /\ S[s].runner = T[s].runner
                          /\ S[s].engine = T[s].engine /\ S[s].model = T[s].model
                          /\ S[s].position = T[s].position

\* A deletion leaves the other rows as they are.
LEMMA RemainingRows ==
    ASSUME Finite, Rows(slots), Distinct(slots), NEW gone
    PROVE  /\ DOMAIN Remaining(gone) = DOMAIN slots \ gone
           /\ IsFiniteSet(DOMAIN Remaining(gone))
           /\ Rows(Remaining(gone)) /\ Distinct(Remaining(gone))
           /\ \A s \in DOMAIN slots \ gone : Remaining(gone)[s] = slots[s]
<1>1. IsFiniteSet(DOMAIN slots \ gone)
  BY FS_Subset, DOMAIN slots \ gone \in SUBSET DOMAIN slots DEF Finite
<1>2. \A s \in DOMAIN slots : slots[s] \in Row
  BY DEF Rows
<1> QED
  BY <1>1, <1>2 DEF Remaining, Rows, Distinct

\* The first row by position, and only it, gains the lead.
LEMMA PromotedRows ==
    ASSUME NEW S, IsFiniteSet(DOMAIN S), Rows(S), Distinct(S)
    PROVE  /\ Rows(Promoted(S)) /\ Distinct(Promoted(S)) /\ SameButLead(Promoted(S), S)
           /\ DOMAIN S # {} =>
                \E c \in DOMAIN S : /\ Promoted(S)[c].lead
                                    /\ \A s \in DOMAIN S \ {c} : Promoted(S)[s] = S[s]
<1> DEFINE D == DOMAIN S
           P == Promoted(S)
           f == [s \in D |-> S[s].position]
<1>1. \A s \in D : S[s] \in Row
  BY DEF Rows
<1>2. /\ DOMAIN P = D /\ P = [s \in D |-> P[s]]
      /\ \A s \in D : P[s] = IF \A t \in D : S[s].position <= S[t].position
                            THEN [S[s] EXCEPT !.lead = TRUE] ELSE S[s]
  BY DEF Promoted
<1> HIDE DEF P
<1>3. \A s \in D : \/ P[s] = S[s]
                    \/ P[s] = [S[s] EXCEPT !.lead = TRUE]
  BY <1>2
<1>4. \A s \in D : /\ P[s] \in Row
                    /\ P[s].name = S[s].name /\ P[s].runner = S[s].runner
                    /\ P[s].engine = S[s].engine /\ P[s].model = S[s].model
                    /\ P[s].position = S[s].position
  BY <1>1, <1>3 DEF Row
<1>5. SameButLead(P, S) /\ Rows(P) /\ Distinct(P)
  BY <1>2, <1>4 DEF SameButLead, Rows, Distinct
<1>6. ASSUME D # {}
      PROVE  \E c \in D : P[c].lead /\ \A s \in D \ {c} : P[s] = S[s]
  <2>1. f \in [D -> Nat] /\ \A s, t \in D : s # t => f[s] # f[t]
    BY <1>1 DEF Row, Distinct
  <2>2. \A s, t \in D : f[s] <= f[t] <=> S[s].position <= S[t].position
    OBVIOUS
  <2> HIDE DEF f
  <2>3. PICK c \in D : {x \in D : \A t \in D : f[x] <= f[t]} = {c}
    BY <1>6, <2>1, First
  <2>4. P[c] = [S[c] EXCEPT !.lead = TRUE]
    BY <1>2, <2>2, <2>3
  <2>5. P[c].lead
    BY <1>1, <2>4 DEF Row
  <2>6. \A s \in D \ {c} : P[s] = S[s]
    BY <1>2, <2>2, <2>3
  <2> QED
    BY <2>5, <2>6
<1> QED
  BY <1>5, <1>6 DEF P

-----------------------------------------------------------------------------
(* The inductive invariant.                                                *)

\* The engine that an update leaves its slot on, if nothing moved since it read.
Under(c) ==
    LET next == IF c.engine = Omit THEN c.read.engine ELSE c.engine
    IN  IF next = Inherit THEN c.runtime ELSE next

\* A model that an update is about to write was chosen for that engine.
UpdatesKnow ==
    \A e \in Editors : calls[e].op = "update" =>
        calls[e].model \in {Omit, Inherit, Under(calls[e])}

CrewInv ==
    /\ CrewTypeOK /\ UpdatesKnow
    /\ SlotsAreOrdered /\ OneLeadUnlessStale /\ ModelFitsEngine

CallsOK == /\ DOMAIN calls = Editors
           /\ \A e \in Editors : CallTyped(calls[e])
           /\ UpdatesKnow

\* What the type of a call says, operation by operation.
LEMMA CallTypes ==
    ASSUME NEW c, CallTyped(c)
    PROVE  /\ c.op = "delete" => c.slot \in SlotIds /\ c.wasLead \in BOOLEAN
           /\ c.op = "setLead" => c.slot \in SlotIds
           /\ c.op = "update" =>
                /\ c.slot \in SlotIds /\ c.read \in Row /\ c.runtime \in Engines
                /\ c.engine \in Engines \cup {Inherit, Omit} /\ c.name \in Names
                /\ c.model \in Engines \cup {Inherit, Omit}
           /\ c.op = "runner" =>
                c.runner \in Runners /\ c.read \in Engines /\ c.runtime \in Engines
  BY DEF CallTyped, Idle

\* What a call of one editor becomes leaves the other calls as they are.
LEMMA CallSteps ==
    ASSUME NEW e \in Editors, CallsOK,
           NEW c, CallTyped(c), calls' = [calls EXCEPT ![e] = c],
           c.op = "update" => c.model \in {Omit, Inherit, Under(c)}
    PROVE  CallsOK'
<1>1. \A d \in Editors : calls'[d] = IF d = e THEN c ELSE calls[d]
  BY DEF CallsOK
<1>2. DOMAIN calls' = Editors
  BY DEF CallsOK
<1>3. \A d \in Editors : CallTyped(calls'[d])
  BY <1>1 DEF CallsOK
<1>4. \A d \in Editors : calls'[d].op = "update" =>
                            calls'[d].model \in {Omit, Inherit, Under(calls'[d])}
  BY <1>1 DEF CallsOK, UpdatesKnow
<1> QED
  BY <1>2, <1>3, <1>4 DEF CallsOK, UpdatesKnow

\* An operation that returns leaves the calls well-typed.
LEMMA CallReturns ==
    ASSUME NEW e \in Editors, CallsOK, Returned(e)
    PROVE  CallsOK'
<1>1. CallTyped(Idle) /\ Idle.op = "none"
  BY DEF Idle, CallTyped
<1> QED
  BY <1>1, CallSteps DEF Returned

\* The slots of a crew are finitely many rows at distinct positions.
LEMMA SlotFacts ==
    ASSUME CrewTypeOK, SlotsAreOrdered
    PROVE  /\ Finite /\ Rows(slots) /\ Distinct(slots)
           /\ Cardinality(DOMAIN slots) \in Nat
<1>1. Finite
  BY CrewAssumption, FS_Subset DEF CrewTypeOK, CrewAssumption, Finite
<1> QED
  BY <1>1, FS_CardinalityType DEF CrewTypeOK, SlotsAreOrdered, Finite, Rows, Distinct

\* The invariant holds of a crew without slots.
LEMMA CrewInitial == CrewInit => CrewInv
<1> SUFFICES ASSUME CrewInit PROVE CrewInv
  OBVIOUS
<1>1. CrewTypeOK
  <2>1. DOMAIN slots = {} /\ slots \in [DOMAIN slots -> Row]
    BY DEF CrewInit
  <2>2. DOMAIN calls = Editors /\ \A e \in Editors : CallTyped(calls[e])
    BY DEF CrewInit, CallTyped
  <2>3. DOMAIN runtimes = Runners /\ runtimes \in [Runners -> Engines]
    BY DEF CrewInit
  <2>4. crew \in BOOLEAN /\ usedIds = {} /\ staleLead \in BOOLEAN /\ staleEngine = {}
    BY Zenon DEF CrewInit
  <2>5. moves \in 0 .. MaxEdits
    <3>1. 0 \in 0 .. MaxEdits
      BY CrewAssumption DEF CrewAssumption
    <3> QED
      BY <3>1, Zenon DEF CrewInit
  <2> QED
    BY <2>1, <2>2, <2>3, <2>4, <2>5 DEF CrewTypeOK
<1>2. UpdatesKnow
  BY DEF CrewInit, UpdatesKnow, Idle
<1>3. SlotsAreOrdered
  BY FS_EmptySet DEF CrewInit, SlotsAreOrdered, Taken
<1> QED
  BY <1>1, <1>2, <1>3 DEF CrewInv, CrewInit, OneLeadUnlessStale, ModelFitsEngine

-----------------------------------------------------------------------------
(* The steps.                                                              *)

\* A step of the calls alone.
LEMMA OnlyCalls ==
    ASSUME CrewInv, UNCHANGED <<crew, runtimes, slots, usedIds, staleLead, staleEngine>>,
           moves' \in 0 .. MaxEdits, CallsOK'
    PROVE  CrewInv'
<1>1. CrewTypeOK'
  BY DEF CrewInv, CrewTypeOK, CallsOK
<1>2. SlotsAreOrdered'
  BY DEF CrewInv, SlotsAreOrdered, Taken
<1>3. OneLeadUnlessStale' /\ ModelFitsEngine'
  BY DEF CrewInv, OneLeadUnlessStale, ModelFitsEngine, Engine
<1> QED
  BY <1>1, <1>2, <1>3 DEF CrewInv, CallsOK

\* The operations that begin are counted up to the bound.
LEMMA MovesOn ==
    ASSUME CrewInv, Moving PROVE moves' \in 0 .. MaxEdits
  BY CrewAssumption DEF CrewInv, CrewTypeOK, Moving, CrewAssumption

\* An operation that has read what it will decide by.
LEMMA DeleteReadSteps ==
    ASSUME CrewInv, NEW e \in Editors, NEW s \in SlotIds, DeleteReads(e, s)
    PROVE  CrewInv'
<1>1. CallsOK
  BY DEF CrewInv, CrewTypeOK, CallsOK
<1>2. \A t \in DOMAIN slots : slots[t] \in Row /\ slots[t].runner \in DOMAIN runtimes
  BY DEF CrewInv, CrewTypeOK
<1>3. moves' \in 0 .. MaxEdits
  BY MovesOn DEF DeleteReads, Reading
<1> DEFINE c == [op |-> "delete", slot |-> s, wasLead |-> slots[s].lead]
<1>4. CallTyped(c) /\ c.op # "update" /\ calls' = [calls EXCEPT ![e] = c]
  BY <1>2 DEF DeleteReads, CallTyped, Row
<1> HIDE DEF c
<1>5. CallsOK'
  BY <1>1, <1>4, CallSteps
<1> QED
  BY <1>3, <1>5, OnlyCalls DEF DeleteReads

\* slot_set_lead has found its slot.
LEMMA SetLeadReadSteps ==
    ASSUME CrewInv, NEW e \in Editors, NEW s \in SlotIds, SetLeadReads(e, s)
    PROVE  CrewInv'
<1>1. CallsOK
  BY DEF CrewInv, CrewTypeOK, CallsOK
<1>2. moves' \in 0 .. MaxEdits
  BY MovesOn DEF SetLeadReads, Reading
<1> DEFINE c == [op |-> "setLead", slot |-> s]
<1>3. CallTyped(c) /\ c.op # "update" /\ calls' = [calls EXCEPT ![e] = c]
  BY DEF SetLeadReads, CallTyped
<1> HIDE DEF c
<1>4. CallsOK'
  BY <1>1, <1>3, CallSteps
<1> QED
  BY <1>2, <1>4, OnlyCalls DEF SetLeadReads

\* slot_update has read its row, and checked the engine and model it will write.
LEMMA UpdateReadSteps ==
    ASSUME CrewInv, NEW e \in Editors, NEW s \in SlotIds, NEW patch \in Patches, UpdateReads(e, s, patch)
    PROVE  CrewInv'
<1>1. CallsOK
  BY DEF CrewInv, CrewTypeOK, CallsOK
<1>2. \A t \in DOMAIN slots : slots[t] \in Row /\ slots[t].runner \in DOMAIN runtimes
  BY DEF CrewInv, CrewTypeOK
<1>3. \A q \in DOMAIN runtimes : runtimes[q] \in Engines
  BY DEF CrewInv, CrewTypeOK
<1>4. moves' \in 0 .. MaxEdits
  BY MovesOn DEF UpdateReads, Reading
<1> DEFINE was   == slots[s]
           next  == IF patch.engine = Omit THEN was.engine ELSE patch.engine
           under == IF next = Inherit THEN runtimes[was.runner] ELSE next
           model == CASE patch.model = "chosen"  -> under
                      [] patch.model = "cleared" -> Inherit
                      [] patch.model = "kept"    -> Omit
           c == [op |-> "update", slot |-> s, read |-> was,
                 runtime |-> runtimes[was.runner], engine |-> patch.engine,
                 name |-> IF patch.name = Omit THEN was.name ELSE patch.name,
                 model |-> model]
<1>5. /\ patch.name \in Names \cup {Omit}
      /\ patch.engine \in Engines \cup {Inherit, Omit}
      /\ patch.model \in {"chosen", "cleared", "kept"}
  BY CrewAssumption DEF CrewAssumption
<1>6. was \in Row /\ was.runner \in DOMAIN runtimes /\ runtimes[was.runner] \in Engines
  BY <1>2, <1>3 DEF UpdateReads
<1>7. was.engine \in Engines \cup {Inherit} /\ was.name \in Names
  BY <1>6 DEF Row
<1> HIDE DEF was
<1>8. next \in Engines \cup {Inherit} /\ under \in Engines
  BY <1>5, <1>6, <1>7
<1> HIDE DEF next
<1>9. model \in {Omit, Inherit, under}
  BY <1>5
<1> HIDE DEF under, model
<1>10. c.op = "update" /\ CallTyped(c)
  BY <1>5, <1>6, <1>7, <1>8, <1>9 DEF CallTyped
<1>11. Under(c) = under
  BY DEF Under, under, next
<1>12. calls' = [calls EXCEPT ![e] = c]
  BY DEF UpdateReads, was, model, under, next
<1>13. c.model \in {Omit, Inherit, Under(c)}
  BY <1>9, <1>11
<1> HIDE DEF c
<1>14. CallsOK'
  BY <1>1, <1>10, <1>12, <1>13, CallSteps
<1> QED
  BY <1>4, <1>14, OnlyCalls DEF UpdateReads

\* runner_update has read its runner.
LEMMA RunnerReadSteps ==
    ASSUME CrewInv, NEW e \in Editors, NEW r \in Runners, NEW engine \in Engines \cup {Omit}, RunnerReads(e, r, engine)
    PROVE  CrewInv'
<1>1. CallsOK
  BY DEF CrewInv, CrewTypeOK, CallsOK
<1>2. \A q \in DOMAIN runtimes : runtimes[q] \in Engines
  BY DEF CrewInv, CrewTypeOK
<1>3. moves' \in 0 .. MaxEdits
  BY MovesOn DEF RunnerReads, Reading
<1> DEFINE c == [op |-> "runner", runner |-> r, read |-> runtimes[r],
                 runtime |-> IF engine = Omit THEN runtimes[r] ELSE engine]
<1>4. CallTyped(c) /\ c.op # "update" /\ calls' = [calls EXCEPT ![e] = c]
  BY <1>2 DEF RunnerReads, CallTyped
<1> HIDE DEF c
<1>5. CallsOK'
  BY <1>1, <1>4, CallSteps
<1> QED
  BY <1>3, <1>5, OnlyCalls DEF RunnerReads

\* The rows that a deletion leaves: in order, and with one lead if the lead
\* was unique and the deletion knew whether it goes.
LEMMA DeletionRows ==
    ASSUME CrewInv, NEW gone,
           NEW S, S = Remaining(gone) \/ S = Promoted(Remaining(gone)),
           slots' = Repacked(S)
    PROVE  /\ DOMAIN slots' = DOMAIN slots \ gone
           /\ SlotsAreOrdered' /\ slots' \in [DOMAIN slots' -> Row]
           /\ \A s \in DOMAIN slots' :
                /\ slots'[s].runner = slots[s].runner
                /\ slots'[s].engine = slots[s].engine
                /\ slots'[s].model = slots[s].model
           /\ \A l \in DOMAIN slots :
                /\ \A t \in DOMAIN slots : slots[t].lead <=> t = l
                /\ S = IF l \in gone THEN Promoted(Remaining(gone)) ELSE Remaining(gone)
                /\ DOMAIN slots \ gone # {}
                => \E s \in DOMAIN slots' : \A t \in DOMAIN slots' : slots'[t].lead <=> t = s
<1> DEFINE R == Remaining(gone)
<1>1. Finite /\ Rows(slots) /\ Distinct(slots)
  BY SlotFacts DEF CrewInv
<1>2. /\ DOMAIN R = DOMAIN slots \ gone
      /\ IsFiniteSet(DOMAIN R) /\ Rows(R) /\ Distinct(R)
      /\ \A s \in DOMAIN R : R[s] = slots[s]
  BY <1>1, RemainingRows
<1> HIDE DEF R
<1>3. /\ Rows(Promoted(R)) /\ Distinct(Promoted(R)) /\ SameButLead(Promoted(R), R)
      /\ DOMAIN R # {} =>
           \E c \in DOMAIN R : /\ Promoted(R)[c].lead
                               /\ \A s \in DOMAIN R \ {c} : Promoted(R)[s] = R[s]
  BY <1>2, PromotedRows
<1>4. S = R \/ S = Promoted(R)
  BY DEF R
<1>5. DOMAIN S = DOMAIN R /\ Rows(S) /\ Distinct(S) /\ SameButLead(S, R)
  BY <1>2, <1>3, <1>4 DEF SameButLead
<1>6. /\ DOMAIN slots' = DOMAIN S /\ Rows(slots') /\ Distinct(slots')
      /\ Taken(slots') = 0 .. Cardinality(DOMAIN S) - 1
      /\ \A s \in DOMAIN S :
            /\ slots'[s].name = S[s].name /\ slots'[s].runner = S[s].runner
            /\ slots'[s].lead = S[s].lead
            /\ slots'[s].engine = S[s].engine /\ slots'[s].model = S[s].model
  BY <1>2, <1>5, RepackedRows
<1>7. \A s, t \in DOMAIN slots' : s # t => slots'[s].name # slots'[t].name
  BY <1>2, <1>5, <1>6 DEF CrewInv, SlotsAreOrdered, SameButLead
<1>8. SlotsAreOrdered' /\ slots' \in [DOMAIN slots' -> Row]
  BY <1>6, <1>7 DEF SlotsAreOrdered, Rows, Distinct, Taken
<1>9. ASSUME NEW l \in DOMAIN slots, \A t \in DOMAIN slots : slots[t].lead <=> t = l,
             S = IF l \in gone THEN Promoted(R) ELSE R,
             DOMAIN slots \ gone # {}
      PROVE  \E s \in DOMAIN slots' : \A t \in DOMAIN slots' : slots'[t].lead <=> t = s
  <2>1. CASE l \in gone
    <3>1. PICK c \in DOMAIN R : /\ S[c].lead
                               /\ \A s \in DOMAIN R \ {c} : S[s] = slots[s]
      BY <1>2, <1>3, <1>9, <2>1
    <3>2. \A s \in DOMAIN R : S[s].lead <=> s = c
      BY <1>2, <1>9, <2>1, <3>1
    <3> QED
      BY <1>5, <1>6, <3>2
  <2>2. CASE l \notin gone
    <3>1. l \in DOMAIN R /\ \A s \in DOMAIN R : S[s].lead <=> s = l
      BY <1>2, <1>9, <2>2
    <3> QED
      BY <1>5, <1>6, <3>1
  <2> QED
    BY <2>1, <2>2
<1>10. \A s \in DOMAIN slots' :
         /\ slots'[s].runner = slots[s].runner
         /\ slots'[s].engine = slots[s].engine
         /\ slots'[s].model = slots[s].model
  BY <1>2, <1>5, <1>6 DEF SameButLead
<1> QED
  BY <1>2, <1>5, <1>6, <1>8, <1>9, <1>10 DEF R

\* A slot whose engine, runner and model stay keeps a model that fits.
LEMMA StillFits ==
    ASSUME ModelFitsEngine,
           \A s \in DOMAIN slots' \ staleEngine' :
                /\ s \in DOMAIN slots \ staleEngine
                /\ slots'[s].engine = slots[s].engine
                /\ slots'[s].model = slots[s].model
                /\ runtimes'[slots'[s].runner] = runtimes[slots[s].runner]
    PROVE  ModelFitsEngine'
  BY DEF ModelFitsEngine, Engine

\* slot_delete: repacking keeps the order, promotion the lead.
LEMMA DeleteSteps ==
    ASSUME CrewInv, NEW e \in Editors, DeleteCommits(e) PROVE CrewInv'
<1> DEFINE c == calls[e]
           S == IF c.wasLead THEN Promoted(Remaining({c.slot})) ELSE Remaining({c.slot})
<1>1. /\ c.op = "delete" /\ c.slot \in DOMAIN slots /\ slots' = Repacked(S)
      /\ staleLead' = (DOMAIN Remaining({c.slot}) # {}
                         /\ (staleLead \/ c.wasLead # slots[c.slot].lead))
      /\ Returned(e) /\ UNCHANGED <<crew, runtimes, usedIds, moves, staleEngine>>
  BY DEF DeleteCommits
<1>2. S = Remaining({c.slot}) \/ S = Promoted(Remaining({c.slot}))
  OBVIOUS
<1>3. CallsOK'
  BY <1>1, CallReturns DEF CrewInv, CrewTypeOK, CallsOK
<1>4. DOMAIN Remaining({c.slot}) = DOMAIN slots \ {c.slot}
  BY DEF Remaining
<1>5. c.wasLead \in BOOLEAN
  BY <1>1, CallTypes DEF CrewInv, CrewTypeOK
<1> HIDE DEF c
<1>6. /\ DOMAIN slots' = DOMAIN slots \ {c.slot}
      /\ SlotsAreOrdered' /\ slots' \in [DOMAIN slots' -> Row]
      /\ \A s \in DOMAIN slots' : /\ slots'[s].runner = slots[s].runner
                                 /\ slots'[s].engine = slots[s].engine
                                 /\ slots'[s].model = slots[s].model
      /\ \A l \in DOMAIN slots :
           /\ \A t \in DOMAIN slots : slots[t].lead <=> t = l
           /\ S = IF l \in {c.slot} THEN Promoted(Remaining({c.slot})) ELSE Remaining({c.slot})
           /\ DOMAIN slots \ {c.slot} # {}
           => \E s \in DOMAIN slots' : \A t \in DOMAIN slots' : slots'[t].lead <=> t = s
  <2> HIDE DEF S
  <2> QED
    BY <1>1, <1>2, DeletionRows DEF CrewInv
<1>7. CrewTypeOK'
  BY <1>1, <1>3, <1>6 DEF CrewInv, CrewTypeOK, CallsOK
<1>8. OneLeadUnlessStale'
  <2> SUFFICES ASSUME ~staleLead', DOMAIN slots' # {}
               PROVE  \E s \in DOMAIN slots' : \A t \in DOMAIN slots' : slots'[t].lead <=> t = s
    <3>1. \A s \in DOMAIN slots' : slots'[s].lead \in BOOLEAN
      BY <1>7 DEF CrewTypeOK, Row
    <3> QED
      BY <3>1 DEF OneLeadUnlessStale
  <2>1. ~staleLead /\ c.wasLead = slots[c.slot].lead
    BY <1>1, <1>4, <1>6
  <2>2. PICK l \in DOMAIN slots : \A t \in DOMAIN slots : slots[t].lead <=> t = l
    BY <1>1, <2>1 DEF CrewInv, OneLeadUnlessStale
  <2>3. c.wasLead <=> l \in {c.slot}
    BY <1>1, <2>1, <2>2
  <2>4. S = IF l \in {c.slot} THEN Promoted(Remaining({c.slot})) ELSE Remaining({c.slot})
    BY <2>3
  <2> HIDE DEF S
  <2> QED
    BY <1>6, <2>2, <2>4
<1>9. ModelFitsEngine'
  <2> HIDE DEF S
  <2> QED
    BY <1>1, <1>6, StillFits DEF CrewInv
<1> QED
  BY <1>3, <1>6, <1>7, <1>8, <1>9 DEF CrewInv, CallsOK

\* runner_delete removes the slots of a runner, and promotes.
LEMMA DeleteRunnerSteps ==
    ASSUME CrewInv, NEW r \in Runners, DeleteRunner(r) PROVE CrewInv'
<1> DEFINE gone == {s \in DOMAIN slots : slots[s].runner = r}
           S == IF \E s \in gone : slots[s].lead THEN Promoted(Remaining(gone)) ELSE Remaining(gone)
<1>1. /\ r \in DOMAIN runtimes /\ slots' = Repacked(S)
      /\ runtimes' = [q \in DOMAIN runtimes \ {r} |-> runtimes[q]]
      /\ staleLead' = (staleLead /\ DOMAIN Remaining(gone) # {})
      /\ Moving /\ UNCHANGED <<crew, usedIds, calls, staleEngine>>
  BY DEF DeleteRunner
<1>2. S = Remaining(gone) \/ S = Promoted(Remaining(gone))
  OBVIOUS
<1>3. DOMAIN Remaining(gone) = DOMAIN slots \ gone
  BY DEF Remaining
<1>4. /\ DOMAIN slots' = DOMAIN slots \ gone
      /\ SlotsAreOrdered' /\ slots' \in [DOMAIN slots' -> Row]
      /\ \A s \in DOMAIN slots' : /\ slots'[s].runner = slots[s].runner
                                 /\ slots'[s].engine = slots[s].engine
                                 /\ slots'[s].model = slots[s].model
      /\ \A l \in DOMAIN slots :
           /\ \A t \in DOMAIN slots : slots[t].lead <=> t = l
           /\ S = IF l \in gone THEN Promoted(Remaining(gone)) ELSE Remaining(gone)
           /\ DOMAIN slots \ gone # {}
           => \E s \in DOMAIN slots' : \A t \in DOMAIN slots' : slots'[t].lead <=> t = s
  <2> HIDE DEF S, gone
  <2> QED
    BY <1>1, <1>2, DeletionRows DEF CrewInv
<1>5. \A s \in DOMAIN slots' : /\ slots'[s].runner \in DOMAIN runtimes'
                              /\ runtimes'[slots'[s].runner] = runtimes[slots[s].runner]
  BY <1>1, <1>4 DEF CrewInv, CrewTypeOK
<1>6. runtimes' \in [DOMAIN runtimes' -> Engines] /\ DOMAIN runtimes' \subseteq Runners
  BY <1>1 DEF CrewInv, CrewTypeOK
<1>7. moves' \in 0 .. MaxEdits
  BY <1>1, MovesOn
<1>8. CrewTypeOK'
  BY <1>1, <1>4, <1>5, <1>6, <1>7 DEF CrewInv, CrewTypeOK
<1>9. OneLeadUnlessStale'
  <2> SUFFICES ASSUME ~staleLead', DOMAIN slots' # {}
               PROVE  \E s \in DOMAIN slots' : \A t \in DOMAIN slots' : slots'[t].lead <=> t = s
    <3>1. \A s \in DOMAIN slots' : slots'[s].lead \in BOOLEAN
      BY <1>8 DEF CrewTypeOK, Row
    <3> QED
      BY <3>1 DEF OneLeadUnlessStale
  <2>1. ~staleLead /\ DOMAIN slots # {}
    BY <1>1, <1>3, <1>4
  <2>2. PICK l \in DOMAIN slots : \A t \in DOMAIN slots : slots[t].lead <=> t = l
    BY <2>1 DEF CrewInv, OneLeadUnlessStale
  <2>3. (\E s \in gone : slots[s].lead) <=> l \in gone
    BY <2>2
  <2>4. S = IF l \in gone THEN Promoted(Remaining(gone)) ELSE Remaining(gone)
    BY <2>3
  <2> HIDE DEF S, gone
  <2> QED
    BY <1>4, <2>2, <2>4
<1>10. ModelFitsEngine'
  <2> HIDE DEF S, gone
  <2> QED
    BY <1>1, <1>4, <1>5, StillFits DEF CrewInv
<1>11. UpdatesKnow'
  BY <1>1 DEF CrewInv, UpdatesKnow
<1> QED
  BY <1>4, <1>8, <1>9, <1>10, <1>11 DEF CrewInv

\* crew_delete leaves no slot.
LEMMA DeleteCrewSteps ==
    ASSUME CrewInv, DeleteCrew PROVE CrewInv'
<1>1. DOMAIN slots' = {} /\ slots' \in [DOMAIN slots' -> Row]
  BY DEF DeleteCrew
<1>2. moves' \in 0 .. MaxEdits
  BY MovesOn DEF DeleteCrew
<1>3. CrewTypeOK'
  <2>1. crew' = FALSE /\ staleLead' = FALSE /\ UNCHANGED <<runtimes, usedIds, calls, staleEngine>>
    BY DEF DeleteCrew
  <2> QED
    BY <1>1, <1>2, <2>1 DEF CrewInv, CrewTypeOK
<1>4. SlotsAreOrdered'
  BY <1>1, FS_EmptySet DEF SlotsAreOrdered, Taken
<1>5. OneLeadUnlessStale' /\ ModelFitsEngine'
  BY <1>1 DEF OneLeadUnlessStale, ModelFitsEngine
<1>6. UpdatesKnow'
  BY DEF DeleteCrew, CrewInv, UpdatesKnow
<1> QED
  BY <1>3, <1>4, <1>5, <1>6 DEF CrewInv

\* slot_set_lead clears every lead before it sets one.
LEMMA SetLeadSteps ==
    ASSUME CrewInv, NEW e \in Editors, SetLeadCommits(e) PROVE CrewInv'
<1> DEFINE c == calls[e]
<1>1. /\ c.slot \in DOMAIN slots
      /\ slots' = [s \in DOMAIN slots |-> [slots[s] EXCEPT !.lead = s = c.slot]]
      /\ staleLead' = FALSE /\ Returned(e)
      /\ UNCHANGED <<crew, runtimes, usedIds, moves, staleEngine>>
  BY DEF SetLeadCommits
<1>2. CallsOK'
  BY <1>1, CallReturns DEF CrewInv, CrewTypeOK, CallsOK
<1> HIDE DEF c
<1>3. \A s \in DOMAIN slots : slots[s] \in Row
  BY DEF CrewInv, CrewTypeOK
<1>4. /\ DOMAIN slots' = DOMAIN slots
      /\ slots' = [s \in DOMAIN slots |-> slots'[s]]
      /\ \A s \in DOMAIN slots :
           /\ slots'[s] \in Row
           /\ slots'[s].lead <=> s = c.slot
           /\ slots'[s].name = slots[s].name /\ slots'[s].runner = slots[s].runner
           /\ slots'[s].engine = slots[s].engine /\ slots'[s].model = slots[s].model
           /\ slots'[s].position = slots[s].position
  BY <1>1, <1>3 DEF Row
<1>5. slots' \in [DOMAIN slots' -> Row]
  BY <1>4
<1>6. CrewTypeOK'
  <2>1. staleLead' \in BOOLEAN
    BY <1>1
  <2> QED
    BY <1>1, <1>2, <1>4, <1>5, <2>1 DEF CrewInv, CrewTypeOK, CallsOK
<1>7. SlotsAreOrdered'
  BY <1>4 DEF CrewInv, SlotsAreOrdered, Taken
<1>8. OneLeadUnlessStale'
  <2>1. c.slot \in DOMAIN slots' /\ \A t \in DOMAIN slots' : slots'[t].lead <=> t = c.slot
    BY <1>1, <1>4, Zenon
  <2> QED
    BY <2>1, Zenon DEF OneLeadUnlessStale
<1>9. ModelFitsEngine'
  BY <1>1, <1>4, StillFits DEF CrewInv
<1> QED
  BY <1>2, <1>6, <1>7, <1>8, <1>9 DEF CrewInv, CallsOK

\* A call that fails changes no slot.
LEMMA CallFailSteps ==
    ASSUME CrewInv, NEW e \in Editors, CallFails(e) PROVE CrewInv'
<1>1. Returned(e) /\ UNCHANGED <<crew, runtimes, slots, usedIds, moves, staleLead, staleEngine>>
  BY DEF CallFails
<1>2. CallsOK'
  BY <1>1, CallReturns DEF CrewInv, CrewTypeOK, CallsOK
<1> QED
  BY <1>1, <1>2, OnlyCalls DEF CrewInv, CrewTypeOK

\* slot_reorder gives the rows the positions 0, 1, 2, ... of the new order.
LEMMA ReorderSteps ==
    ASSUME CrewInv, NEW order \in Orders, Reorder(order) PROVE CrewInv'
<1>1. /\ slots' = [s \in DOMAIN slots |-> [slots[s] EXCEPT !.position = order[s]]]
      /\ Moving /\ UNCHANGED <<crew, runtimes, usedIds, calls, staleLead, staleEngine>>
  BY DEF Reorder
<1>2. Finite /\ Cardinality(DOMAIN slots) \in Nat
  BY SlotFacts DEF CrewInv
<1>3. /\ order \in [DOMAIN slots -> 0 .. Cardinality(DOMAIN slots) - 1]
      /\ \A s, t \in DOMAIN slots : s # t => order[s] # order[t]
  BY DEF Orders
<1>4. \A s \in DOMAIN slots : slots[s] \in Row /\ order[s] \in Nat
  BY <1>2, <1>3 DEF CrewInv, CrewTypeOK
<1>5. /\ DOMAIN slots' = DOMAIN slots
      /\ slots' = [s \in DOMAIN slots |-> slots'[s]]
      /\ \A s \in DOMAIN slots :
           /\ slots'[s] \in Row /\ slots'[s].lead = slots[s].lead
           /\ slots'[s].name = slots[s].name /\ slots'[s].runner = slots[s].runner
           /\ slots'[s].engine = slots[s].engine /\ slots'[s].model = slots[s].model
           /\ slots'[s].position = order[s]
  BY <1>1, <1>4 DEF Row
<1>6. slots' \in [DOMAIN slots' -> Row]
  BY <1>5
<1>7. moves' \in 0 .. MaxEdits
  BY <1>1, MovesOn
<1>8. CrewTypeOK'
  BY <1>1, <1>5, <1>6, <1>7 DEF CrewInv, CrewTypeOK
<1>9. SlotsAreOrdered'
  <2>1. {order[s] : s \in DOMAIN slots} = 0 .. Cardinality(DOMAIN slots) - 1
    BY <1>2, <1>3, Dense DEF Finite
  <2>2. Taken(slots)' = {order[s] : s \in DOMAIN slots}
    BY <1>5 DEF Taken
  <2>3. \A s, t \in DOMAIN slots : s # t => slots[s].name # slots[t].name
    BY DEF CrewInv, SlotsAreOrdered
  <2> QED
    BY <1>3, <1>5, <2>1, <2>2, <2>3 DEF SlotsAreOrdered
<1>10. OneLeadUnlessStale'
  <2> SUFFICES ASSUME ~staleLead, DOMAIN slots # {}
               PROVE  \E s \in DOMAIN slots' : \A t \in DOMAIN slots' : slots'[t].lead <=> t = s
    BY <1>1, <1>5, Zenon DEF OneLeadUnlessStale
  <2>1. PICK l \in DOMAIN slots : \A t \in DOMAIN slots : slots[t].lead <=> t = l
    BY Zenon DEF CrewInv, OneLeadUnlessStale
  <2> QED
    BY <1>5, <2>1
<1>11. ModelFitsEngine'
  BY <1>1, <1>5, StillFits DEF CrewInv
<1>12. UpdatesKnow'
  BY <1>1 DEF CrewInv, UpdatesKnow
<1> QED
  BY <1>8, <1>9, <1>10, <1>11, <1>12 DEF CrewInv

\* slot_create takes a position above all others, and the lead of a crew without slots.
LEMMA CreateSteps ==
    ASSUME CrewInv, NEW s \in SlotIds, NEW name \in Names, NEW r \in Runners,
           NEW new \in NewSlots, Create(s, name, r, new)
    PROVE  CrewInv'
<1> DEFINE under == IF new.engine = Inherit THEN runtimes[r] ELSE new.engine
           row == [name |-> name, runner |-> r, engine |-> new.engine,
                   model |-> IF new.model = "chosen" THEN under ELSE Inherit,
                   lead |-> DOMAIN slots = {}, position |-> NextPosition]
<1>1. /\ s \notin usedIds /\ r \in DOMAIN runtimes
      /\ \A t \in DOMAIN slots : slots[t].name # name
      /\ slots' = [t \in DOMAIN slots \cup {s} |-> IF t = s THEN row ELSE slots[t]]
      /\ usedIds' = usedIds \cup {s}
      /\ UNCHANGED <<crew, runtimes, moves, calls, staleLead, staleEngine>>
  BY DEF Create
<1>2. /\ Finite /\ Rows(slots) /\ Distinct(slots)
      /\ Cardinality(DOMAIN slots) \in Nat
  BY SlotFacts DEF CrewInv
<1>3. s \notin DOMAIN slots
  BY <1>1 DEF CrewInv, CrewTypeOK
<1>4. /\ Cardinality(DOMAIN slots \cup {s}) = Cardinality(DOMAIN slots) + 1
      /\ IsFiniteSet(DOMAIN slots \cup {s})
  BY <1>2, <1>3, FS_AddElement DEF Finite
<1>5. NextPosition = Cardinality(DOMAIN slots)
  <2>1. Taken(slots) = 0 .. Cardinality(DOMAIN slots) - 1
    BY DEF CrewInv, SlotsAreOrdered
  <2>2. CASE DOMAIN slots = {}
    BY <2>2, FS_EmptySet DEF NextPosition
  <2>3. CASE DOMAIN slots # {}
    <3> DEFINE n == Cardinality(DOMAIN slots)
    <3>1. n \in Nat /\ n # 0
      BY <1>2, <2>3, FS_EmptySet DEF Finite
    <3> HIDE DEF n
    <3>2. Max(0 .. n - 1) = n - 1
      BY <3>1 DEF Max
    <3> QED
      BY <2>1, <2>3, <3>1, <3>2 DEF NextPosition, n
  <2> QED
    BY <2>2, <2>3
<1>6. /\ new.engine \in Engines \cup {Inherit} /\ under \in Engines
      /\ under = IF new.engine = Inherit THEN runtimes[r] ELSE new.engine
  BY <1>1, CrewAssumption DEF CrewAssumption, CrewInv, CrewTypeOK
<1> HIDE DEF under
<1>7. /\ row \in Row /\ row.name = name /\ row.runner = r /\ row.engine = new.engine
      /\ row.model \in {Inherit, under} /\ row.position = Cardinality(DOMAIN slots)
  BY <1>2, <1>5, <1>6 DEF Row
<1>8. row.lead <=> DOMAIN slots = {}
  OBVIOUS
<1> HIDE DEF row
<1>9. /\ DOMAIN slots' = DOMAIN slots \cup {s} /\ slots'[s] = row
      /\ \A t \in DOMAIN slots : slots'[t] = slots[t]
      /\ slots' = [t \in DOMAIN slots \cup {s} |-> slots'[t]]
  BY <1>1, <1>3
<1>10. CrewTypeOK'
  <2>1. slots' \in [DOMAIN slots' -> Row]
    BY <1>2, <1>7, <1>9 DEF Rows
  <2>2. \A t \in DOMAIN slots' : slots'[t].runner \in DOMAIN runtimes'
    BY <1>1, <1>7, <1>9 DEF CrewInv, CrewTypeOK
  <2> QED
    BY <1>1, <1>9, <2>1, <2>2 DEF CrewInv, CrewTypeOK
<1>11. SlotsAreOrdered'
  <2> DEFINE n == Cardinality(DOMAIN slots)
  <2>1. Taken(slots) = 0 .. n - 1 /\ Distinct(slots)
    BY <1>2 DEF CrewInv, SlotsAreOrdered
  <2>2. \A t \in DOMAIN slots : slots[t].position \in 0 .. n - 1
    BY <2>1 DEF Taken
  <2>3. Taken(slots)' = Taken(slots) \cup {n}
    BY <1>7, <1>9 DEF Taken
  <2>4. Taken(slots)' = 0 .. Cardinality(DOMAIN slots') - 1
    BY <1>2, <1>4, <1>9, <2>1, <2>3
  <2>5. \A t, u \in DOMAIN slots' : t # u => slots'[t].position # slots'[u].position
    BY <1>2, <1>7, <1>9, <2>1, <2>2 DEF Distinct
  <2>6. \A t, u \in DOMAIN slots' : t # u => slots'[t].name # slots'[u].name
    BY <1>1, <1>7, <1>9 DEF CrewInv, SlotsAreOrdered
  <2> QED
    BY <2>4, <2>5, <2>6 DEF SlotsAreOrdered
<1>12. OneLeadUnlessStale'
  <2> SUFFICES ASSUME ~staleLead
               PROVE  \E l \in DOMAIN slots' : \A t \in DOMAIN slots' : slots'[t].lead <=> t = l
    BY <1>1, Zenon DEF OneLeadUnlessStale
  <2>1. CASE DOMAIN slots = {}
    BY <1>8, <1>9, <2>1
  <2>2. CASE DOMAIN slots # {}
    <3>1. PICK l \in DOMAIN slots : \A t \in DOMAIN slots : slots[t].lead <=> t = l
      BY <2>2, Zenon DEF CrewInv, OneLeadUnlessStale
    <3> QED
      BY <1>3, <1>8, <1>9, <2>2, <3>1
  <2> QED
    BY <2>1, <2>2
<1>13. ModelFitsEngine'
  <2>1. ASSUME NEW t \in DOMAIN slots' \ staleEngine'
        PROVE  slots'[t].model \in {Inherit, IF slots'[t].engine = Inherit
                                              THEN runtimes'[slots'[t].runner]
                                              ELSE slots'[t].engine}
    <3>1. CASE t = s
      BY <1>1, <1>6, <1>7, <1>9, <3>1
    <3>2. CASE t \in DOMAIN slots
      BY <1>1, <1>9, <3>2, <2>1 DEF CrewInv, ModelFitsEngine, Engine
    <3> QED
      BY <1>9, <3>1, <3>2
  <2> QED
    BY <2>1 DEF ModelFitsEngine, Engine
<1>14. UpdatesKnow'
  BY <1>1 DEF CrewInv, UpdatesKnow
<1> QED
  BY <1>10, <1>11, <1>12, <1>13, <1>14 DEF CrewInv

\* slot_update writes a model that fits the engine it resolved.
LEMMA UpdateSteps ==
    ASSUME CrewInv, NEW e \in Editors, UpdateCommits(e) PROVE CrewInv'
<1> DEFINE c == calls[e]
           row == slots[c.slot]
           new == Updated(c, row)
<1>1. /\ c.op = "update" /\ c.slot \in DOMAIN slots
      /\ \A t \in DOMAIN slots \ {c.slot} : slots[t].name # c.name
      /\ slots' = [slots EXCEPT ![c.slot] = new]
      /\ staleEngine' =
           IF row.engine # c.read.engine \/ runtimes[row.runner] # c.runtime
           THEN staleEngine \cup {c.slot}
           ELSE IF c.model # Omit \/ EngineChanged(c)
           THEN staleEngine \ {c.slot} ELSE staleEngine
      /\ Returned(e) /\ UNCHANGED <<crew, runtimes, usedIds, moves, staleLead>>
  BY DEF UpdateCommits
<1>2. CallsOK'
  BY <1>1, CallReturns DEF CrewInv, CrewTypeOK, CallsOK
<1>3. /\ c.slot \in SlotIds /\ c.read \in Row /\ c.runtime \in Engines
      /\ c.engine \in Engines \cup {Inherit, Omit} /\ c.name \in Names
      /\ c.model \in Engines \cup {Inherit, Omit}
      /\ c.model \in {Omit, Inherit, Under(c)}
  BY <1>1, CallTypes DEF CrewInv, CrewTypeOK, UpdatesKnow
<1> HIDE DEF c
<1>4. /\ row \in Row /\ row.runner \in DOMAIN runtimes /\ runtimes[row.runner] \in Engines
      /\ \A t \in DOMAIN slots : slots[t] \in Row
  BY <1>1 DEF CrewInv, CrewTypeOK
<1> HIDE DEF row
<1>5. /\ new \in Row /\ new.name = c.name /\ new.runner = row.runner
      /\ new.lead = row.lead /\ new.position = row.position
      /\ new.engine = IF c.engine = Omit THEN row.engine ELSE c.engine
      /\ new.model = IF c.model # Omit THEN c.model
                     ELSE IF EngineChanged(c) THEN Inherit ELSE row.model
  BY <1>3, <1>4 DEF Updated, Row
<1> HIDE DEF new
<1>6. /\ DOMAIN slots' = DOMAIN slots /\ slots'[c.slot] = new
      /\ \A t \in DOMAIN slots \ {c.slot} : slots'[t] = slots[t]
      /\ slots' = [t \in DOMAIN slots |-> slots'[t]]
  BY <1>1
<1>7. slots' \in [DOMAIN slots' -> Row]
  BY <1>4, <1>5, <1>6
<1>8. \A t \in DOMAIN slots : /\ slots'[t].position = slots[t].position
                              /\ slots'[t].lead = slots[t].lead
                              /\ slots'[t].runner = slots[t].runner
  BY <1>5, <1>6 DEF row
<1>9. CrewTypeOK'
  <2>1. staleEngine' \subseteq SlotIds
    BY <1>1, <1>3 DEF CrewInv, CrewTypeOK
  <2> QED
    BY <1>1, <1>2, <1>6, <1>7, <1>8, <2>1 DEF CrewInv, CrewTypeOK, CallsOK
<1>10. SlotsAreOrdered'
  <2>1. Taken(slots)' = Taken(slots)
    BY <1>6, <1>8 DEF Taken
  <2>2. \A s, t \in DOMAIN slots : s # t => slots'[s].name # slots'[t].name
    BY <1>1, <1>5, <1>6 DEF CrewInv, SlotsAreOrdered
  <2> QED
    BY <1>6, <1>8, <2>1, <2>2 DEF CrewInv, SlotsAreOrdered
<1>11. OneLeadUnlessStale'
  <2> SUFFICES ASSUME ~staleLead, DOMAIN slots # {}
               PROVE  \E s \in DOMAIN slots' : \A t \in DOMAIN slots' : slots'[t].lead <=> t = s
    BY <1>1, <1>6, Zenon DEF OneLeadUnlessStale
  <2>1. PICK l \in DOMAIN slots : \A t \in DOMAIN slots : slots[t].lead <=> t = l
    BY Zenon DEF CrewInv, OneLeadUnlessStale
  <2> QED
    BY <1>6, <1>8, <2>1
<1>12. ModelFitsEngine'
  <2> DEFINE Of(x) == IF x = Inherit THEN runtimes[row.runner] ELSE x
  <2>1. ASSUME c.slot \notin staleEngine'
        PROVE  new.model \in {Inherit, Of(new.engine)}
    <3>1. row.engine = c.read.engine /\ runtimes[row.runner] = c.runtime
      BY <1>1, <2>1 DEF row
    <3>2. CASE c.model # Omit
      BY <1>3, <1>5, <3>1, <3>2 DEF Under
    <3>3. CASE c.model = Omit /\ EngineChanged(c)
      BY <1>5, <3>3
    <3>4. CASE c.model = Omit /\ ~EngineChanged(c)
      <4>1. c.slot \notin staleEngine
        BY <1>1, <2>1, <3>1, <3>4 DEF row
      <4>2. row.model \in {Inherit, Of(row.engine)}
        BY <1>1, <4>1 DEF CrewInv, ModelFitsEngine, Engine, row
      <4>3. Of(row.engine) = Of(new.engine)
        BY <1>5, <3>1, <3>4 DEF EngineChanged
      <4> QED
        BY <1>5, <3>4, <4>2, <4>3
    <3> QED
      BY <3>2, <3>3, <3>4
  <2>2. ASSUME NEW t \in DOMAIN slots' \ staleEngine'
        PROVE  slots'[t].model \in {Inherit, IF slots'[t].engine = Inherit
                                              THEN runtimes'[slots'[t].runner]
                                              ELSE slots'[t].engine}
    <3>1. CASE t = c.slot
      BY <1>1, <1>5, <1>6, <2>1, <2>2, <3>1
    <3>2. CASE t # c.slot
      <4>1. t \in DOMAIN slots \ staleEngine
        BY <1>1, <1>6, <2>2, <3>2
      <4> QED
        BY <1>1, <1>6, <3>2, <4>1 DEF CrewInv, ModelFitsEngine, Engine
    <3> QED
      BY <3>1, <3>2
  <2> QED
    BY <2>2 DEF ModelFitsEngine, Engine
<1> QED
  BY <1>2, <1>9, <1>10, <1>11, <1>12 DEF CrewInv, CallsOK

\* runner_update clears the models that do not fit the new engine.
LEMMA RunnerSteps ==
    ASSUME CrewInv, NEW e \in Editors, RunnerCommits(e) PROVE CrewInv'
<1> DEFINE c == calls[e]
           theirs == {s \in DOMAIN slots : slots[s].runner = c.runner
                                           /\ slots[s].engine = Inherit}
<1>1. /\ c.op = "runner" /\ c.runner \in DOMAIN runtimes
      /\ runtimes' = [runtimes EXCEPT ![c.runner] = c.runtime]
      /\ slots' = [s \in DOMAIN slots |->
                     IF s \in theirs /\ c.runtime # c.read
                     THEN [slots[s] EXCEPT !.model = Inherit] ELSE slots[s]]
      /\ staleEngine' = IF c.runtime # c.read THEN staleEngine \ theirs
                        ELSE IF runtimes[c.runner] # c.read
                        THEN staleEngine \cup theirs ELSE staleEngine
      /\ Returned(e) /\ UNCHANGED <<crew, usedIds, moves, staleLead>>
  BY DEF RunnerCommits
<1>2. CallsOK'
  BY <1>1, CallReturns DEF CrewInv, CrewTypeOK, CallsOK
<1>3. c.runner \in Runners /\ c.read \in Engines /\ c.runtime \in Engines
  BY <1>1, CallTypes DEF CrewInv, CrewTypeOK
<1>4. \A s \in theirs : /\ s \in DOMAIN slots /\ slots[s].runner = c.runner
                        /\ slots[s].engine = Inherit
  OBVIOUS
<1>5. \A s \in DOMAIN slots \ theirs : slots[s].runner # c.runner \/ slots[s].engine # Inherit
  OBVIOUS
<1> HIDE DEF c, theirs
<1>6. \A s \in DOMAIN slots : slots[s] \in Row /\ slots[s].runner \in DOMAIN runtimes
  BY DEF CrewInv, CrewTypeOK
<1>7. /\ DOMAIN slots' = DOMAIN slots
      /\ slots' = [s \in DOMAIN slots |-> slots'[s]]
      /\ \A s \in DOMAIN slots :
           /\ slots'[s] \in Row
           /\ slots'[s].name = slots[s].name /\ slots'[s].runner = slots[s].runner
           /\ slots'[s].engine = slots[s].engine /\ slots'[s].lead = slots[s].lead
           /\ slots'[s].position = slots[s].position
           /\ slots'[s].model = IF s \in theirs /\ c.runtime # c.read
                                THEN Inherit ELSE slots[s].model
  BY <1>1, <1>6 DEF Row
<1>8. slots' \in [DOMAIN slots' -> Row]
  BY <1>7
<1>9. /\ DOMAIN runtimes' = DOMAIN runtimes
      /\ runtimes' \in [DOMAIN runtimes' -> Engines]
      /\ runtimes'[c.runner] = c.runtime
      /\ \A r \in DOMAIN runtimes \ {c.runner} : runtimes'[r] = runtimes[r]
  BY <1>1, <1>3 DEF CrewInv, CrewTypeOK
<1>10. CrewTypeOK'
  <2>1. staleEngine' \subseteq SlotIds
    BY <1>1, <1>4 DEF CrewInv, CrewTypeOK
  <2>2. \A s \in DOMAIN slots' : slots'[s].runner \in DOMAIN runtimes'
    BY <1>6, <1>7, <1>9
  <2> QED
    BY <1>1, <1>2, <1>7, <1>8, <1>9, <2>1, <2>2 DEF CrewInv, CrewTypeOK, CallsOK
<1>11. SlotsAreOrdered'
  <2>1. Taken(slots)' = Taken(slots)
    BY <1>7 DEF Taken
  <2> QED
    BY <1>7, <2>1 DEF CrewInv, SlotsAreOrdered
<1>12. OneLeadUnlessStale'
  <2> SUFFICES ASSUME ~staleLead, DOMAIN slots # {}
               PROVE  \E s \in DOMAIN slots' : \A t \in DOMAIN slots' : slots'[t].lead <=> t = s
    BY <1>1, <1>7, Zenon DEF OneLeadUnlessStale
  <2>1. PICK l \in DOMAIN slots : \A t \in DOMAIN slots : slots[t].lead <=> t = l
    BY Zenon DEF CrewInv, OneLeadUnlessStale
  <2> QED
    BY <1>7, <2>1
<1>13. ModelFitsEngine'
  <2>1. ASSUME NEW s \in DOMAIN slots' \ staleEngine'
        PROVE  slots'[s].model \in {Inherit, IF slots'[s].engine = Inherit
                                              THEN runtimes'[slots'[s].runner]
                                              ELSE slots'[s].engine}
    <3>1. CASE s \in theirs /\ c.runtime # c.read
      BY <1>4, <1>7, <3>1
    <3>2. CASE s \in theirs /\ c.runtime = c.read
      <4>1. runtimes[c.runner] = c.read /\ s \notin staleEngine
        BY <1>1, <2>1, <3>2
      <4> QED
        BY <1>4, <1>7, <1>9, <3>2, <4>1 DEF CrewInv, ModelFitsEngine, Engine
    <3>3. CASE s \notin theirs
      <4>1. s \in DOMAIN slots \ staleEngine
        BY <1>1, <1>7, <2>1, <3>3
      <4> QED
        BY <1>5, <1>6, <1>7, <1>9, <3>3, <4>1 DEF CrewInv, ModelFitsEngine, Engine
    <3> QED
      BY <3>1, <3>2, <3>3
  <2> QED
    BY <2>1 DEF ModelFitsEngine, Engine
<1> QED
  BY <1>2, <1>10, <1>11, <1>12, <1>13 DEF CrewInv, CallsOK

-----------------------------------------------------------------------------
(* The theorems.                                                           *)

\* The inductive invariant of a crew is one.
THEOREM CrewInvariance == CrewSpec => []CrewInv
<1>1. CrewInit => CrewInv
  BY CrewInitial
<1>2. CrewInv /\ [CrewNext]_crewVars => CrewInv'
  <2> SUFFICES ASSUME CrewInv, [CrewNext]_crewVars PROVE CrewInv'
    OBVIOUS
  <2>1. CASE \E s \in SlotIds, name \in Names, r \in Runners, new \in NewSlots :
               Create(s, name, r, new)
    BY <2>1, CreateSteps
  <2>2. CASE \E e \in Editors, s \in SlotIds : DeleteReads(e, s) \/ SetLeadReads(e, s)
    BY <2>2, DeleteReadSteps, SetLeadReadSteps
  <2>3. CASE \E e \in Editors, s \in SlotIds, patch \in Patches : UpdateReads(e, s, patch)
    BY <2>3, UpdateReadSteps
  <2>4. CASE \E e \in Editors, r \in Runners, engine \in Engines \cup {Omit} :
               RunnerReads(e, r, engine)
    BY <2>4, RunnerReadSteps
  <2>5. CASE \E e \in Editors : DeleteCommits(e) \/ SetLeadCommits(e) \/ UpdateCommits(e)
                                \/ CallFails(e) \/ RunnerCommits(e)
    BY <2>5, DeleteSteps, SetLeadSteps, UpdateSteps, CallFailSteps, RunnerSteps
  <2>6. CASE \E order \in Orders : Reorder(order)
    BY <2>6, ReorderSteps
  <2>7. CASE \E r \in Runners : DeleteRunner(r)
    BY <2>7, DeleteRunnerSteps
  <2>8. CASE DeleteCrew
    BY <2>8, DeleteCrewSteps
  <2>9. CASE UNCHANGED crewVars
    BY <2>9 DEF crewVars, CrewInv, CrewTypeOK, UpdatesKnow, SlotsAreOrdered, Taken,
                OneLeadUnlessStale, ModelFitsEngine, Engine
  <2> QED
    BY <2>1, <2>2, <2>3, <2>4, <2>5, <2>6, <2>7, <2>8, <2>9 DEF CrewNext
<1> QED
  BY <1>1, <1>2, PTL DEF CrewSpec

\* Types: a crew's rows are rows, and the runner of every slot exists.
THEOREM CrewIsTyped == CrewSpec => []CrewTypeOK
<1>1. CrewInv => CrewTypeOK
  BY DEF CrewInv
<1> QED
  BY <1>1, CrewInvariance, PTL

\* Positions stay 0, 1, 2, ... and handles stay unique, for any number of slots
\* and whatever comes between an operation's read and its transaction.
THEOREM CrewStaysOrdered == CrewSpec => []SlotsAreOrdered
<1>1. CrewInv => SlotsAreOrdered
  BY DEF CrewInv
<1> QED
  BY <1>1, CrewInvariance, PTL

\* A crew with slots has one lead until a delete acts on a stale lead flag.
THEOREM CrewHasOneLead == CrewSpec => []OneLeadUnlessStale
<1>1. CrewInv => OneLeadUnlessStale
  BY DEF CrewInv
<1> QED
  BY <1>1, CrewInvariance, PTL

\* A slot never runs an engine with a model that was chosen for another one,
\* unless an update kept the model of a slot whose engine had changed under it.
THEOREM CrewModelsFit == CrewSpec => []ModelFitsEngine
<1>1. CrewInv => ModelFitsEngine
  BY DEF CrewInv
<1> QED
  BY <1>1, CrewInvariance, PTL

(***************************************************************************)
(* Missions.                                                               *)
(***************************************************************************)

\* The log without the events of lost transactions and of the open one.
Kept == stops - torn - Uncommitted

\* What the open transaction saw still holds; an archived mission does not run;
\* the log of a mission that was never started has no terminal event.
RowInv ==
    /\ \A k \in Clients : At(k, {"append"}) => status = "running"
    /\ \A k \in Clients : At(k, {"commit"}) => Listed
    /\ archived => Stored /\ status # "running"
    /\ status = "none" => Kept = 0

\* Unless it was overtaken, an unarchive finds its mission listed.
NodeInv == \A k \in Clients : ~ghost /\ At(k, {"node"}) => Listed

\* A thread that sets up the runtime is alone and finds none; it is for a running
\* mission from its check on.  A thread that takes it down has a mission that does
\* not run, and with no unmount ahead there is no bus.
Setting  == Attaching \cup MayBuild \cup {"abort"}
RuntimeInv ==
    /\ \A k \in Clients : At(k, TearsDown) => status \notin {"running", "none"}
    /\ status = "none" => \A k \in Clients : ~At(k, Setting)
    /\ ~overlap =>
        /\ \A k, j \in Clients : At(k, Setting) /\ At(j, Setting) => k = j
        /\ \A k \in Clients : At(k, Setting \ {"route"}) => bus = 0 /\ reg = 0
        /\ \A k \in Clients : At(k, {"route"}) => bus = cmd[k].router /\ reg = 0
        /\ \A k \in Clients : At(k, MayBuild \cup {"build"}) => status = "running"
        /\ (\E k \in Clients : At(k, {"unroute"})) /\ (\A k \in Clients : ~At(k, {"unmount"}))
             => bus = 0
        /\ (\A k \in Clients : ~At(k, Setting \cup TearsDown))
             => bus = reg /\ (status # "running" => bus = 0)

MissionInv ==
    /\ MissionTypeOK /\ RowInv /\ NodeInv /\ RuntimeInv
    /\ OneTerminalEvent /\ TreeShowsTheMission

-----------------------------------------------------------------------------
(* The initial state, and the types.                                        *)

\* Where a thread can be, and what it holds when n routers are built.
Pcs == {"idle", "check", "abort", "read", "build", "mount", "route", "stop", "append",
        "commit", "unmount", "unroute", "sweep", "node"}
Cmds(n) == [pc : Pcs, router : 0 .. n, start : BOOLEAN, sweep : BOOLEAN]

\* Thread k comes to be at pc, and no other thread moves.
Moved(k, pc) ==
    /\ DOMAIN cmd' = Clients /\ cmd' = [j \in Clients |-> cmd'[j]]
    /\ cmd'[k] \in Cmds(built') /\ cmd'[k].pc = pc
    /\ \A j \in Clients \ {k} : cmd'[j] = cmd[j]

MissionRest ==
    /\ status \in {"none", "running", "completed", "aborted", "deleted"}
    /\ archived \in BOOLEAN /\ node \in BOOLEAN
    /\ stops \in Nat /\ torn \in Nat /\ spent \in 0 .. MaxCommands
    /\ built \in 0 .. MaxRouters /\ bus \in 0 .. built /\ reg \in 0 .. built
    /\ overlap \in BOOLEAN /\ ghost \in BOOLEAN
    /\ writer \in Clients \cup {Nobody}

Writing == \A k \in Clients : At(k, {"append", "commit"}) <=> writer = k

\* The types, taken apart: the thread states, the writer, and the rest.
LEMMA TypeParts ==
    MissionTypeOK <=> MissionRest /\ cmd \in [Clients -> Cmds(built)] /\ Writing
  BY DEF MissionTypeOK, MissionRest, Cmds, Pcs, Writing

\* The types as the steps use them.
LEMMA Typed ==
    ASSUME MissionTypeOK
    PROVE  /\ cmd \in [Clients -> Cmds(built)] /\ built \in Nat
           /\ \A k \in Clients : cmd[k] \in Cmds(built)
  BY MissionAssumption DEF MissionTypeOK, Cmds, Pcs, MissionAssumption

\* A thread at rest is well-typed.
LEMMA NoCmdTyped ==
    ASSUME NEW n \in Nat PROVE NoCmd \in Cmds(n) /\ NoCmd.pc = "idle"
<1>1. "idle" \in Pcs /\ 0 \in 0 .. n
  BY DEF Pcs
<1> QED
  BY <1>1 DEF NoCmd, Cmds

\* GoTo moves one thread.
LEMMA GoToMoves ==
    ASSUME MissionTypeOK, NEW k \in Clients, NEW pc \in Pcs, GoTo(k, pc), built' = built
    PROVE  Moved(k, pc)
  BY Typed DEF GoTo, Moved, Cmds

\* A command that returns leaves its thread at rest.
LEMMA ReturnsMoves ==
    ASSUME MissionTypeOK, NEW k \in Clients, EndsCall(k), built' = built
    PROVE  Moved(k, "idle")
<1>1. NoCmd \in Cmds(built) /\ NoCmd.pc = "idle"
  BY Typed, NoCmdTyped
<1> QED
  BY <1>1, Typed DEF EndsCall, Moved

\* A command that begins is counted.
LEMMA TakesMoves ==
    ASSUME MissionTypeOK, NEW k \in Clients, NEW rec, rec \in Cmds(0), Takes(k, rec),
           built' = built
    PROVE  Moved(k, rec.pc) /\ cmd[k].pc = "idle" /\ spent' \in 0 .. MaxCommands
<1>1. rec \in Cmds(built)
  BY Typed DEF Cmds
<1>2. Moved(k, rec.pc)
  BY <1>1, Typed DEF Takes, Moved
<1>3. spent' \in 0 .. MaxCommands
  BY MissionAssumption DEF Takes, MissionTypeOK, MissionAssumption
<1> QED
  BY <1>2, <1>3 DEF Takes, At

\* A router that is built has the next number.
LEMMA BuildsMoves ==
    ASSUME MissionTypeOK, NEW k \in Clients, NEW pc \in Pcs, Builds(k, pc)
    PROVE  Moved(k, pc) /\ built' = built + 1 /\ built' \in 0 .. MaxRouters
<1>1. built' = built + 1 /\ built' \in 0 .. MaxRouters
  BY Typed, MissionAssumption DEF Builds, MissionTypeOK, MissionAssumption
<1>2. [cmd[k] EXCEPT !.pc = pc, !.router = built + 1] \in Cmds(built')
  <2>1. built + 1 \in 0 .. built' /\ 0 .. built \subseteq 0 .. built'
    BY <1>1, Typed
  <2>2. cmd[k] \in Cmds(built')
    BY <2>1, Typed DEF Cmds
  <2> QED
    BY <2>1, <2>2 DEF Cmds
<1>3. cmd' = [cmd EXCEPT ![k] = [cmd[k] EXCEPT !.pc = pc, !.router = built + 1]]
  BY Typed DEF Builds, Cmds
<1>4. \A j \in Clients : cmd[j] \in Cmds(built')
  BY <1>1, Typed DEF Cmds
<1> QED
  BY <1>1, <1>2, <1>3, <1>4, Typed DEF Moved, Cmds

\* The invariant holds before the mission is started.
LEMMA MissionStarts == MissionInit => MissionInv
<1> SUFFICES ASSUME MissionInit PROVE MissionInv
  OBVIOUS
<1>1. \A k \in Clients : cmd[k] = NoCmd
  BY DEF MissionInit
<1>2. \A k \in Clients : cmd[k].pc = "idle"
  BY <1>1, NoCmdTyped
<1>3. MissionTypeOK
  <2>1. cmd \in [Clients -> Cmds(0)]
    BY <1>1, NoCmdTyped DEF MissionInit
  <2>2. spent \in 0 .. MaxCommands /\ built \in 0 .. MaxRouters
    BY MissionAssumption DEF MissionInit, MissionAssumption
  <2>3. Writing
    BY <1>2, MissionAssumption DEF MissionInit, MissionAssumption, Writing, At
  <2>4. /\ status = "none" /\ archived \in BOOLEAN /\ node \in BOOLEAN
        /\ stops = 0 /\ torn = 0 /\ built = 0 /\ bus = 0 /\ reg = 0
        /\ overlap \in BOOLEAN /\ ghost \in BOOLEAN /\ writer = Nobody
    BY Zenon DEF MissionInit
  <2>5. MissionRest
    BY <2>2, <2>4 DEF MissionRest
  <2> QED
    BY <2>1, <2>3, <2>4, <2>5, TypeParts
<1>4. Uncommitted = 0
  BY DEF MissionInit, Uncommitted
<1>5. RowInv /\ NodeInv /\ OneTerminalEvent
  BY <1>2, <1>4 DEF MissionInit, RowInv, NodeInv, OneTerminalEvent, Kept, At
<1>6. RuntimeInv
  BY <1>2 DEF MissionInit, RuntimeInv, Setting, Attaching, MayBuild, TearsDown, At
<1>7. TreeShowsTheMission
  BY DEF MissionInit, TreeShowsTheMission, Listed
<1> QED
  BY <1>3, <1>5, <1>6, <1>7 DEF MissionInv


-----------------------------------------------------------------------------
(* Where each step takes its thread.                                        *)

\* From where to where each action takes its thread.
LEMMA ThreadMoves ==
    ASSUME MissionTypeOK, NEW k \in Clients
    PROVE
      /\ StartCommits(k) => cmd[k].pc = "idle" /\ \E pc \in {"check"} : Moved(k, pc)
      /\ StartBuilds(k) => cmd[k].pc = "check" /\ \E pc \in {"mount", "abort"} : Moved(k, pc)
      /\ StartAborts(k) => cmd[k].pc = "abort" /\ \E pc \in {"idle"} : Moved(k, pc)
      /\ AttachLooks(k) => cmd[k].pc = "idle" /\ \E pc \in {"read"} : Moved(k, pc)
      /\ AttachReads(k) => cmd[k].pc = "read" /\ \E pc \in {"build", "idle"} : Moved(k, pc)
      /\ AttachBuilds(k) => cmd[k].pc = "build" /\ \E pc \in {"mount", "idle"} : Moved(k, pc)
      /\ Mounts(k) => cmd[k].pc = "mount" /\ \E pc \in {"route", "abort", "idle"} : Moved(k, pc)
      /\ Routes(k) => cmd[k].pc = "route" /\ \E pc \in {"idle"} : Moved(k, pc)
      /\ Unmounts(k) => cmd[k].pc = "unmount" /\ \E pc \in {"unroute"} : Moved(k, pc)
      /\ Unroutes(k) => cmd[k].pc = "unroute" /\ \E pc \in {"idle"} : Moved(k, pc)
      /\ Archives(k) => cmd[k].pc = "idle" /\ \E pc \in {"stop"} : Moved(k, pc)
      /\ StopBegins(k) => cmd[k].pc = "stop" /\ \E pc \in {"append", "commit", "sweep", "idle"} : Moved(k, pc)
      /\ StopAppends(k) => cmd[k].pc = "append" /\ \E pc \in {"commit", "idle"} : Moved(k, pc)
      /\ StopCommits(k) => cmd[k].pc = "commit" /\ \E pc \in {"unmount", "idle"} : Moved(k, pc)
      /\ Sweeps(k) => cmd[k].pc = "idle" /\ \E pc \in {"sweep"} : Moved(k, pc)
      /\ ArchiveMissionStep(k) => cmd[k].pc = "sweep" /\ \E pc \in {"stop", "idle"} : Moved(k, pc)
      /\ UnarchiveClears(k) => cmd[k].pc = "idle" /\ \E pc \in {"node"} : Moved(k, pc)
      /\ UnarchiveNodes(k) => cmd[k].pc = "node" /\ \E pc \in {"idle"} : Moved(k, pc)
      /\ DeleteArchived(k) => cmd[k].pc = "idle" /\ \E pc \in {"idle"} : Moved(k, pc)
<1>1. \A pc \in Pcs : GoTo(k, pc) /\ built' = built => Moved(k, pc)
  BY GoToMoves
<1>2. EndsCall(k) /\ built' = built => Moved(k, "idle")
  BY ReturnsMoves
<1>3. \A pc \in Pcs : Builds(k, pc) => Moved(k, pc)
  BY BuildsMoves
<1>4. \A rec \in Cmds(0) : Takes(k, rec) /\ built' = built
                             => Moved(k, rec.pc) /\ cmd[k].pc = "idle"
  BY TakesMoves
<1>5. StartCommits(k) => cmd[k].pc = "idle" /\ \E pc \in {"check"} : Moved(k, pc)
  <2> DEFINE rec == [NoCmd EXCEPT !.pc = "check", !.start = TRUE]
  <2>1. rec \in Cmds(0) /\ rec.pc = "check"
    BY NoCmdTyped DEF Cmds, Pcs
  <2>2. StartCommits(k) => Takes(k, rec) /\ built' = built
    BY DEF StartCommits, runtime
  <2> HIDE DEF rec
  <2> QED
    BY <1>4, <2>1, <2>2
<1>6. StartBuilds(k) => cmd[k].pc = "check" /\ \E pc \in {"mount", "abort"} : Moved(k, pc)
  BY <1>1, <1>2, <1>3 DEF StartBuilds, At, runtime, Pcs
<1>7. StartAborts(k) => cmd[k].pc = "abort" /\ \E pc \in {"idle"} : Moved(k, pc)
  BY <1>1, <1>2, <1>3 DEF StartAborts, At, runtime, Pcs
<1>8. AttachLooks(k) => cmd[k].pc = "idle" /\ \E pc \in {"read"} : Moved(k, pc)
  <2> DEFINE rec == [NoCmd EXCEPT !.pc = "read"]
  <2>1. rec \in Cmds(0) /\ rec.pc = "read"
    BY NoCmdTyped DEF Cmds, Pcs
  <2>2. AttachLooks(k) => Takes(k, rec) /\ built' = built
    BY DEF AttachLooks, runtime
  <2> HIDE DEF rec
  <2> QED
    BY <1>4, <2>1, <2>2
<1>9. AttachReads(k) => cmd[k].pc = "read" /\ \E pc \in {"build", "idle"} : Moved(k, pc)
  BY <1>1, <1>2, <1>3 DEF AttachReads, At, runtime, Pcs
<1>10. AttachBuilds(k) => cmd[k].pc = "build" /\ \E pc \in {"mount", "idle"} : Moved(k, pc)
  BY <1>1, <1>2, <1>3 DEF AttachBuilds, At, runtime, Pcs
<1>11. Mounts(k) => cmd[k].pc = "mount" /\ \E pc \in {"route", "abort", "idle"} : Moved(k, pc)
  BY <1>1, <1>2, <1>3 DEF Mounts, At, runtime, Pcs
<1>12. Routes(k) => cmd[k].pc = "route" /\ \E pc \in {"idle"} : Moved(k, pc)
  BY <1>1, <1>2, <1>3 DEF Routes, At, runtime, Pcs
<1>13. Unmounts(k) => cmd[k].pc = "unmount" /\ \E pc \in {"unroute"} : Moved(k, pc)
  BY <1>1, <1>2, <1>3 DEF Unmounts, At, runtime, Pcs
<1>14. Unroutes(k) => cmd[k].pc = "unroute" /\ \E pc \in {"idle"} : Moved(k, pc)
  BY <1>1, <1>2, <1>3 DEF Unroutes, At, runtime, Pcs
<1>15. Archives(k) => cmd[k].pc = "idle" /\ \E pc \in {"stop"} : Moved(k, pc)
  <2> DEFINE rec == [NoCmd EXCEPT !.pc = "stop"]
  <2>1. rec \in Cmds(0) /\ rec.pc = "stop"
    BY NoCmdTyped DEF Cmds, Pcs
  <2>2. Archives(k) => Takes(k, rec) /\ built' = built
    BY DEF Archives, runtime
  <2> HIDE DEF rec
  <2> QED
    BY <1>4, <2>1, <2>2
<1>16. StopBegins(k) => cmd[k].pc = "stop" /\ \E pc \in {"append", "commit", "sweep", "idle"} : Moved(k, pc)
  BY <1>1, <1>2, <1>3 DEF StopBegins, At, runtime, Pcs
<1>17. StopAppends(k) => cmd[k].pc = "append" /\ \E pc \in {"commit", "idle"} : Moved(k, pc)
  BY <1>1, <1>2, <1>3 DEF StopAppends, At, runtime, Pcs
<1>18. StopCommits(k) => cmd[k].pc = "commit" /\ \E pc \in {"unmount", "idle"} : Moved(k, pc)
  BY <1>1, <1>2, <1>3 DEF StopCommits, At, runtime, Pcs
<1>19. Sweeps(k) => cmd[k].pc = "idle" /\ \E pc \in {"sweep"} : Moved(k, pc)
  <2> DEFINE rec == [NoCmd EXCEPT !.pc = "sweep", !.sweep = TRUE]
  <2>1. rec \in Cmds(0) /\ rec.pc = "sweep"
    BY NoCmdTyped DEF Cmds, Pcs
  <2>2. Sweeps(k) => Takes(k, rec) /\ built' = built
    BY DEF Sweeps, runtime
  <2> HIDE DEF rec
  <2> QED
    BY <1>4, <2>1, <2>2
<1>20. ArchiveMissionStep(k) => cmd[k].pc = "sweep" /\ \E pc \in {"stop", "idle"} : Moved(k, pc)
  BY <1>1, <1>2, <1>3 DEF ArchiveMissionStep, At, runtime, Pcs
<1>21. UnarchiveClears(k) => cmd[k].pc = "idle" /\ \E pc \in {"node"} : Moved(k, pc)
  <2> DEFINE rec == [NoCmd EXCEPT !.pc = "node"]
  <2>1. rec \in Cmds(0) /\ rec.pc = "node"
    BY NoCmdTyped DEF Cmds, Pcs
  <2>2. UnarchiveClears(k) => Takes(k, rec) /\ built' = built
    BY DEF UnarchiveClears, runtime
  <2> HIDE DEF rec
  <2> QED
    BY <1>4, <2>1, <2>2
<1>22. UnarchiveNodes(k) => cmd[k].pc = "node" /\ \E pc \in {"idle"} : Moved(k, pc)
  BY <1>1, <1>2, <1>3 DEF UnarchiveNodes, At, runtime, Pcs
<1>23. DeleteArchived(k) => cmd[k].pc = "idle" /\ \E pc \in {"idle"} : Moved(k, pc)
  BY <1>4, NoCmdTyped DEF DeleteArchived, runtime
<1> QED
  BY <1>5, <1>6, <1>7, <1>8, <1>9, <1>10, <1>11, <1>12, <1>13, <1>14, <1>15, <1>16, <1>17,
     <1>18, <1>19, <1>20, <1>21, <1>22, <1>23

\* A thread that moves keeps the types, if the rest has its types and the writer agrees.
LEMMA KeepsTypes ==
    ASSUME MissionTypeOK, MissionRest', built <= built', NEW k \in Clients, NEW pc, Moved(k, pc),
           pc \in {"append", "commit"} <=> writer' = k,
           \A j \in Clients \ {k} : writer' = j <=> writer = j
    PROVE  MissionTypeOK'
<1>1. built \in Nat /\ built' \in Nat
  BY Typed, MissionAssumption DEF MissionRest, MissionAssumption
<1>2. \A j \in Clients : cmd'[j] \in Cmds(built')
  BY <1>1, Typed DEF Moved, Cmds
<1>3. cmd' \in [Clients -> Cmds(built')]
  BY <1>2 DEF Moved
<1>4. \A j \in Clients : At(j, {"append", "commit"})' <=> writer' = j
  BY TypeParts DEF Writing, Moved, At
<1>5. cmd' \in [Clients ->
          [pc : {"idle", "check", "abort", "read", "build", "mount", "route", "stop", "append",
                 "commit", "unmount", "unroute", "sweep", "node"},
           router : 0 .. built', start : BOOLEAN, sweep : BOOLEAN]]
  BY <1>3 DEF Cmds, Pcs
<1> QED
  BY <1>4, <1>5 DEF MissionTypeOK, MissionRest

\* The types but for the threads.
LEMMA MissionRests ==
    ASSUME MissionTypeOK, MissionNext PROVE MissionRest'
<1>1. MissionRest
  BY TypeParts
<1>2. \A k \in Clients, pc \in Pcs : Builds(k, pc) => built' \in 0 .. MaxRouters /\ built' = built + 1
  BY BuildsMoves
<1>3. Fails => spent' \in 0 .. MaxCommands
  BY MissionAssumption DEF Fails, MissionTypeOK, MissionAssumption
<1>4. \A k \in Clients : cmd[k].router \in 0 .. built /\ built \in Nat
  BY Typed DEF Cmds
<1>5. Uncommitted \in {0, 1}
  BY DEF Uncommitted
<1>6. \A k \in Clients : \A rec : Takes(k, rec) => spent' \in 0 .. MaxCommands
  BY MissionAssumption DEF Takes, MissionTypeOK, MissionAssumption
<1>7. ASSUME NEW k \in Clients, StartCommits(k) PROVE MissionRest'
  BY <1>1, <1>6, <1>7 DEF StartCommits, MissionRest, missionRow, runtime
<1>8. ASSUME NEW k \in Clients, StartBuilds(k) PROVE MissionRest'
  BY <1>1, <1>3, <1>2, <1>4, <1>8 DEF StartBuilds, MissionRest, missionRow, runtime, Pcs
<1>9. ASSUME NEW k \in Clients, StartAborts(k) PROVE MissionRest'
  BY <1>1, <1>3, <1>9 DEF StartAborts, MissionRest, missionRow, runtime
<1>10. ASSUME NEW k \in Clients, AttachLooks(k) PROVE MissionRest'
  BY <1>1, <1>6, <1>10 DEF AttachLooks, MissionRest, missionRow, runtime
<1>11. ASSUME NEW k \in Clients, AttachReads(k) PROVE MissionRest'
  BY <1>1, <1>3, <1>11 DEF AttachReads, MissionRest, missionRow, runtime
<1>12. ASSUME NEW k \in Clients, AttachBuilds(k) PROVE MissionRest'
  BY <1>1, <1>3, <1>2, <1>4, <1>12 DEF AttachBuilds, MissionRest, missionRow, runtime, Pcs
<1>13. ASSUME NEW k \in Clients, Mounts(k) PROVE MissionRest'
  BY <1>1, <1>3, <1>4, <1>13 DEF Mounts, MissionRest, missionRow, runtime
<1>14. ASSUME NEW k \in Clients, Routes(k) PROVE MissionRest'
  BY <1>1, <1>3, <1>4, <1>14 DEF Routes, MissionRest, missionRow, runtime
<1>15. ASSUME NEW k \in Clients, Unmounts(k) PROVE MissionRest'
  BY <1>1, <1>3, <1>4, <1>15 DEF Unmounts, MissionRest, missionRow, runtime
<1>16. ASSUME NEW k \in Clients, Unroutes(k) PROVE MissionRest'
  BY <1>1, <1>3, <1>4, <1>16 DEF Unroutes, MissionRest, missionRow, runtime
<1>17. ASSUME NEW k \in Clients, Archives(k) PROVE MissionRest'
  BY <1>1, <1>6, <1>17 DEF Archives, MissionRest, missionRow, runtime
<1>18. ASSUME NEW k \in Clients, StopBegins(k) PROVE MissionRest'
  BY <1>1, <1>3, <1>18 DEF StopBegins, MissionRest, missionRow, runtime
<1>19. ASSUME NEW k \in Clients, StopAppends(k) PROVE MissionRest'
  BY <1>1, <1>3, <1>19 DEF StopAppends, MissionRest, missionRow, runtime
<1>20. ASSUME NEW k \in Clients, StopCommits(k) PROVE MissionRest'
  <2>1. /\ writer' \in Clients \cup {Nobody} /\ stops' \in Nat
        /\ built' \in 0 .. MaxRouters /\ bus' \in 0 .. built' /\ reg' \in 0 .. built'
    BY <1>1, <1>20 DEF StopCommits, MissionRest, runtime
  <2>2. torn' \in Nat
    BY <1>1, <1>5, <1>20 DEF StopCommits, MissionRest
  <2>3. spent' \in 0 .. MaxCommands
    BY <1>1, <1>3, <1>20 DEF StopCommits, MissionRest
  <2>4. status' \in {"none", "running", "completed", "aborted", "deleted"}
    BY <1>1, <1>20 DEF StopCommits, MissionRest, missionRow
  <2>5. archived' \in BOOLEAN /\ node' \in BOOLEAN
    BY <1>1, <1>20, Zenon DEF StopCommits, MissionRest, missionRow
  <2>6. overlap' \in BOOLEAN /\ ghost' \in BOOLEAN
    BY <1>1, <1>20 DEF StopCommits, MissionRest
  <2> QED
    BY <2>1, <2>2, <2>3, <2>4, <2>5, <2>6 DEF MissionRest
<1>21. ASSUME NEW k \in Clients, Sweeps(k) PROVE MissionRest'
  BY <1>1, <1>6, <1>21 DEF Sweeps, MissionRest, missionRow, runtime
<1>22. ASSUME NEW k \in Clients, ArchiveMissionStep(k) PROVE MissionRest'
  BY <1>1, <1>3, <1>22 DEF ArchiveMissionStep, MissionRest, missionRow, runtime
<1>23. ASSUME NEW k \in Clients, UnarchiveClears(k) PROVE MissionRest'
  BY <1>1, <1>6, <1>23 DEF UnarchiveClears, MissionRest, missionRow, runtime
<1>24. ASSUME NEW k \in Clients, UnarchiveNodes(k) PROVE MissionRest'
  BY <1>1, <1>3, <1>24 DEF UnarchiveNodes, MissionRest, missionRow, runtime
<1>25. ASSUME NEW k \in Clients, DeleteArchived(k) PROVE MissionRest'
  BY <1>1, <1>6, <1>25 DEF DeleteArchived, MissionRest, missionRow, runtime
<1>26. ASSUME ListWithRepair PROVE MissionRest'
  <2>1. node' \in BOOLEAN
    BY <1>1, <1>26 DEF ListWithRepair, MissionRest, Listed
  <2>2. ghost' \in BOOLEAN
    BY <1>26 DEF ListWithRepair
  <2> QED
    BY <1>1, <1>26, <2>1, <2>2 DEF ListWithRepair, MissionRest, runtime
<1>27. ASSUME Reopens PROVE MissionRest'
  <2>1. built' \in 0 .. MaxRouters /\ bus' \in 0 .. built' /\ reg' \in 0 .. built'
    BY <1>1, <1>4, <1>27, MissionAssumption DEF Reopens, MissionRest, MissionAssumption
  <2>2. torn' \in Nat /\ stops' \in Nat
    BY <1>1, <1>5, <1>27 DEF Reopens, MissionRest
  <2>3. ghost' \in BOOLEAN /\ overlap' \in BOOLEAN
    BY <1>1, <1>27 DEF Reopens, MissionRest
  <2>4. status' = status /\ spent' \in 0 .. MaxCommands /\ writer' = Nobody
    BY <1>3, <1>27 DEF Reopens, missionRow
  <2>5. archived' \in BOOLEAN /\ node' \in BOOLEAN
    BY <1>1, <1>27, Zenon DEF Reopens, MissionRest, missionRow
  <2> QED
    BY <1>1, <2>1, <2>2, <2>3, <2>4, <2>5 DEF MissionRest
<1> QED
  BY <1>7, <1>8, <1>9, <1>10, <1>11, <1>12, <1>13, <1>14, <1>15, <1>16, <1>17, <1>18, <1>19,
     <1>20, <1>21, <1>22, <1>23, <1>24, <1>25, <1>26, <1>27
     DEF MissionNext

\* Every step keeps the types.
LEMMA MissionTypes ==
    ASSUME MissionTypeOK, MissionNext PROVE MissionTypeOK'
<1>1. MissionRest'
  BY MissionRests
<1>2. /\ built \in Nat /\ cmd \in [Clients -> Cmds(built)]
      /\ \A k \in Clients : cmd[k].pc \in {"append", "commit"} <=> writer = k
  BY Typed, TypeParts DEF Writing, At
<1>3. \A k \in Clients : NoCmd.pc = "idle" /\ k # Nobody
  BY NoCmdTyped, MissionAssumption DEF MissionAssumption
<1>4. ASSUME NEW k \in Clients, StartCommits(k) PROVE MissionTypeOK'
  <2>1. PICK pc \in {"check"} : Moved(k, pc)
    BY <1>4, ThreadMoves
  <2>2. built <= built'
    BY <1>2, <1>4 DEF StartCommits, runtime
  <2>3. writer' = writer /\ writer # k
    BY <1>2, <1>4, ThreadMoves DEF StartCommits
  <2> QED
    BY <1>1, <2>1, <2>2, <2>3, KeepsTypes
<1>5. ASSUME NEW k \in Clients, StartBuilds(k) PROVE MissionTypeOK'
  <2>1. PICK pc \in {"mount", "abort"} : Moved(k, pc)
    BY <1>5, ThreadMoves
  <2>2. built <= built'
    BY <1>2, <1>5 DEF StartBuilds, runtime, Builds
  <2>3. writer' = writer /\ writer # k
    BY <1>2, <1>5, ThreadMoves DEF StartBuilds
  <2> QED
    BY <1>1, <2>1, <2>2, <2>3, KeepsTypes
<1>6. ASSUME NEW k \in Clients, StartAborts(k) PROVE MissionTypeOK'
  <2>1. PICK pc \in {"idle"} : Moved(k, pc)
    BY <1>6, ThreadMoves
  <2>2. built <= built'
    BY <1>2, <1>6 DEF StartAborts, runtime
  <2>3. writer' = writer /\ writer # k
    BY <1>2, <1>6, ThreadMoves DEF StartAborts
  <2> QED
    BY <1>1, <2>1, <2>2, <2>3, KeepsTypes
<1>7. ASSUME NEW k \in Clients, AttachLooks(k) PROVE MissionTypeOK'
  <2>1. PICK pc \in {"read"} : Moved(k, pc)
    BY <1>7, ThreadMoves
  <2>2. built <= built'
    BY <1>2, <1>7 DEF AttachLooks, runtime
  <2>3. writer' = writer /\ writer # k
    BY <1>2, <1>7, ThreadMoves DEF AttachLooks
  <2> QED
    BY <1>1, <2>1, <2>2, <2>3, KeepsTypes
<1>8. ASSUME NEW k \in Clients, AttachReads(k) PROVE MissionTypeOK'
  <2>1. PICK pc \in {"build", "idle"} : Moved(k, pc)
    BY <1>8, ThreadMoves
  <2>2. built <= built'
    BY <1>2, <1>8 DEF AttachReads, runtime
  <2>3. writer' = writer /\ writer # k
    BY <1>2, <1>8, ThreadMoves DEF AttachReads
  <2> QED
    BY <1>1, <2>1, <2>2, <2>3, KeepsTypes
<1>9. ASSUME NEW k \in Clients, AttachBuilds(k) PROVE MissionTypeOK'
  <2>1. PICK pc \in {"mount", "idle"} : Moved(k, pc)
    BY <1>9, ThreadMoves
  <2>2. built <= built'
    BY <1>2, <1>9 DEF AttachBuilds, runtime, Builds
  <2>3. writer' = writer /\ writer # k
    BY <1>2, <1>9, ThreadMoves DEF AttachBuilds
  <2> QED
    BY <1>1, <2>1, <2>2, <2>3, KeepsTypes
<1>10. ASSUME NEW k \in Clients, Mounts(k) PROVE MissionTypeOK'
  <2>1. PICK pc \in {"route", "abort", "idle"} : Moved(k, pc)
    BY <1>10, ThreadMoves
  <2>2. built <= built'
    BY <1>2, <1>10 DEF Mounts, runtime
  <2>3. writer' = writer /\ writer # k
    BY <1>2, <1>10, ThreadMoves DEF Mounts
  <2> QED
    BY <1>1, <2>1, <2>2, <2>3, KeepsTypes
<1>11. ASSUME NEW k \in Clients, Routes(k) PROVE MissionTypeOK'
  <2>1. PICK pc \in {"idle"} : Moved(k, pc)
    BY <1>11, ThreadMoves
  <2>2. built <= built'
    BY <1>2, <1>11 DEF Routes, runtime
  <2>3. writer' = writer /\ writer # k
    BY <1>2, <1>11, ThreadMoves DEF Routes
  <2> QED
    BY <1>1, <2>1, <2>2, <2>3, KeepsTypes
<1>12. ASSUME NEW k \in Clients, Unmounts(k) PROVE MissionTypeOK'
  <2>1. PICK pc \in {"unroute"} : Moved(k, pc)
    BY <1>12, ThreadMoves
  <2>2. built <= built'
    BY <1>2, <1>12 DEF Unmounts, runtime
  <2>3. writer' = writer /\ writer # k
    BY <1>2, <1>12, ThreadMoves DEF Unmounts
  <2> QED
    BY <1>1, <2>1, <2>2, <2>3, KeepsTypes
<1>13. ASSUME NEW k \in Clients, Unroutes(k) PROVE MissionTypeOK'
  <2>1. PICK pc \in {"idle"} : Moved(k, pc)
    BY <1>13, ThreadMoves
  <2>2. built <= built'
    BY <1>2, <1>13 DEF Unroutes, runtime
  <2>3. writer' = writer /\ writer # k
    BY <1>2, <1>13, ThreadMoves DEF Unroutes
  <2> QED
    BY <1>1, <2>1, <2>2, <2>3, KeepsTypes
<1>14. ASSUME NEW k \in Clients, Archives(k) PROVE MissionTypeOK'
  <2>1. PICK pc \in {"stop"} : Moved(k, pc)
    BY <1>14, ThreadMoves
  <2>2. built <= built'
    BY <1>2, <1>14 DEF Archives, runtime
  <2>3. writer' = writer /\ writer # k
    BY <1>2, <1>14, ThreadMoves DEF Archives
  <2> QED
    BY <1>1, <2>1, <2>2, <2>3, KeepsTypes
<1>15. ASSUME NEW k \in Clients, StopBegins(k) PROVE MissionTypeOK'
  <2>1. PICK pc \in {"append", "commit", "sweep", "idle"} : Moved(k, pc)
    BY <1>15, ThreadMoves
  <2>2. built <= built'
    BY <1>2, <1>15 DEF StopBegins, runtime
  <2>3. /\ pc \in {"append", "commit"} <=> writer' = k
        /\ \A j \in Clients \ {k} : writer' = j <=> writer = j
    BY <1>2, <1>3, <1>15, <2>1 DEF StopBegins, At, GoTo, EndsCall, Moved, Cmds
  <2> QED
    BY <1>1, <2>1, <2>2, <2>3, KeepsTypes
<1>16. ASSUME NEW k \in Clients, StopAppends(k) PROVE MissionTypeOK'
  <2>1. PICK pc \in {"commit", "idle"} : Moved(k, pc)
    BY <1>16, ThreadMoves
  <2>2. built <= built'
    BY <1>2, <1>16 DEF StopAppends, runtime
  <2>3. /\ pc \in {"append", "commit"} <=> writer' = k
        /\ \A j \in Clients \ {k} : writer' = j <=> writer = j
    BY <1>2, <1>3, <1>16, <2>1 DEF StopAppends, At, GoTo, EndsCall, Moved, Cmds
  <2> QED
    BY <1>1, <2>1, <2>2, <2>3, KeepsTypes
<1>17. ASSUME NEW k \in Clients, StopCommits(k) PROVE MissionTypeOK'
  <2>1. PICK pc \in {"unmount", "idle"} : Moved(k, pc)
    BY <1>17, ThreadMoves
  <2>2. built <= built'
    BY <1>2, <1>17 DEF StopCommits, runtime
  <2>3. /\ pc \in {"append", "commit"} <=> writer' = k
        /\ \A j \in Clients \ {k} : writer' = j <=> writer = j
    BY <1>2, <1>3, <1>17, <2>1 DEF StopCommits, At, GoTo, EndsCall, Moved, Cmds
  <2> QED
    BY <1>1, <2>1, <2>2, <2>3, KeepsTypes
<1>18. ASSUME NEW k \in Clients, Sweeps(k) PROVE MissionTypeOK'
  <2>1. PICK pc \in {"sweep"} : Moved(k, pc)
    BY <1>18, ThreadMoves
  <2>2. built <= built'
    BY <1>2, <1>18 DEF Sweeps, runtime
  <2>3. writer' = writer /\ writer # k
    BY <1>2, <1>18, ThreadMoves DEF Sweeps
  <2> QED
    BY <1>1, <2>1, <2>2, <2>3, KeepsTypes
<1>19. ASSUME NEW k \in Clients, ArchiveMissionStep(k) PROVE MissionTypeOK'
  <2>1. PICK pc \in {"stop", "idle"} : Moved(k, pc)
    BY <1>19, ThreadMoves
  <2>2. built <= built'
    BY <1>2, <1>19 DEF ArchiveMissionStep, runtime
  <2>3. writer' = writer /\ writer # k
    BY <1>2, <1>19, ThreadMoves DEF ArchiveMissionStep
  <2> QED
    BY <1>1, <2>1, <2>2, <2>3, KeepsTypes
<1>20. ASSUME NEW k \in Clients, UnarchiveClears(k) PROVE MissionTypeOK'
  <2>1. PICK pc \in {"node"} : Moved(k, pc)
    BY <1>20, ThreadMoves
  <2>2. built <= built'
    BY <1>2, <1>20 DEF UnarchiveClears, runtime
  <2>3. writer' = writer /\ writer # k
    BY <1>2, <1>20, ThreadMoves DEF UnarchiveClears
  <2> QED
    BY <1>1, <2>1, <2>2, <2>3, KeepsTypes
<1>21. ASSUME NEW k \in Clients, UnarchiveNodes(k) PROVE MissionTypeOK'
  <2>1. PICK pc \in {"idle"} : Moved(k, pc)
    BY <1>21, ThreadMoves
  <2>2. built <= built'
    BY <1>2, <1>21 DEF UnarchiveNodes, runtime
  <2>3. writer' = writer /\ writer # k
    BY <1>2, <1>21, ThreadMoves DEF UnarchiveNodes
  <2> QED
    BY <1>1, <2>1, <2>2, <2>3, KeepsTypes
<1>22. ASSUME NEW k \in Clients, DeleteArchived(k) PROVE MissionTypeOK'
  <2>1. PICK pc \in {"idle"} : Moved(k, pc)
    BY <1>22, ThreadMoves
  <2>2. built <= built'
    BY <1>2, <1>22 DEF DeleteArchived, runtime
  <2>3. writer' = writer /\ writer # k
    BY <1>2, <1>22, ThreadMoves DEF DeleteArchived
  <2> QED
    BY <1>1, <2>1, <2>2, <2>3, KeepsTypes
<1>23. ASSUME ListWithRepair PROVE MissionTypeOK'
  <2>1. built' = built /\ cmd' = cmd /\ writer' = writer
    BY <1>23 DEF ListWithRepair, runtime
  <2> QED
    BY <1>1, <1>2, <2>1 DEF MissionTypeOK, MissionRest, At
<1>24. ASSUME Reopens PROVE MissionTypeOK'
  <2>1. cmd' = [k \in Clients |-> NoCmd] /\ writer' = Nobody /\ built' \in Nat
    BY <1>1, <1>24, MissionAssumption DEF Reopens, MissionRest, MissionAssumption
  <2>2. NoCmd \in Cmds(built')
    BY <2>1, NoCmdTyped
  <2>3. cmd' \in [Clients -> Cmds(built')]
    BY <2>1, <2>2
  <2>4. \A k \in Clients : At(k, {"append", "commit"})' <=> writer' = k
    BY <1>3, <2>1 DEF At
  <2> QED
    BY <1>1, <2>3, <2>4 DEF MissionTypeOK, MissionRest, Cmds, Pcs
<1> QED
  BY <1>4, <1>5, <1>6, <1>7, <1>8, <1>9, <1>10, <1>11, <1>12, <1>13, <1>14, <1>15, <1>16,
     <1>17, <1>18, <1>19, <1>20, <1>21, <1>22, <1>23, <1>24
     DEF MissionNext

-----------------------------------------------------------------------------
(* The row and its log.                                                     *)

\* The event of the open transaction, before a step and after it.
LEMMA PendingIs ==
    ASSUME MissionTypeOK, MissionTypeOK'
    PROVE  /\ Uncommitted \in {0, 1}
           /\ writer = Nobody => Uncommitted = 0
           /\ \A k \in Clients : cmd[k].pc = "append" => Uncommitted = 0
           /\ \A k \in Clients : cmd[k].pc = "commit"
                 => Uncommitted = IF status = "running" THEN 1 ELSE 0
           /\ Uncommitted' \in {0, 1}
           /\ writer' = Nobody => Uncommitted' = 0
           /\ \A k \in Clients : cmd'[k].pc = "append" => Uncommitted' = 0
           /\ \A k \in Clients : cmd'[k].pc = "commit"
                 => Uncommitted' = IF status' = "running" THEN 1 ELSE 0
<1>1. \A k \in Clients : k # Nobody
  BY MissionAssumption DEF MissionAssumption
<1>2. /\ \A k \in Clients : cmd[k].pc \in {"append", "commit"} <=> writer = k
      /\ \A k \in Clients : cmd'[k].pc \in {"append", "commit"} <=> writer' = k
  BY DEF MissionTypeOK, At
<1> QED
  BY <1>1, <1>2 DEF Uncommitted, At

\* What a step leaves of the log's account.
Accounted == RowInv /\ OneTerminalEvent

\* The account of stops and terminal events, with its definitions expanded.
LEMMA AccountIs ==
    /\ Accounted <=>
        /\ \A k \in Clients : cmd[k].pc = "append" => status = "running"
        /\ \A k \in Clients : cmd[k].pc = "commit" => Listed
        /\ archived => Stored /\ status # "running"
        /\ status = "none" => Kept = 0
        /\ Kept \in {0, 1}
        /\ status = "running" => Kept = 0
        /\ status = "completed" => Kept = 1
    /\ Accounted' <=>
        /\ \A k \in Clients : cmd'[k].pc = "append" => status' = "running"
        /\ \A k \in Clients : cmd'[k].pc = "commit" => Listed'
        /\ archived' => Stored' /\ status' # "running"
        /\ status' = "none" => Kept' = 0
        /\ Kept' \in {0, 1}
        /\ status' = "running" => Kept' = 0
        /\ status' = "completed" => Kept' = 1
  BY DEF Accounted, RowInv, OneTerminalEvent, Kept, At

\* A step that leaves the row alone and no thread enters or leaves the transaction.
LEMMA AccountKept ==
    ASSUME Accounted, status' = status, archived' <=> archived, stops' = stops, torn' = torn,
           \A j \in Clients : cmd'[j].pc = "append" => cmd[j].pc = "append",
           \A j \in Clients : cmd'[j].pc = "commit" <=> cmd[j].pc = "commit"
    PROVE  Accounted'
<1>1. Uncommitted' = Uncommitted
  BY DEF Uncommitted, At
<1>2. Kept' = Kept /\ (Listed' <=> Listed) /\ (Stored' <=> Stored)
  BY <1>1 DEF Kept, Listed, Stored
<1> QED
  BY <1>2, AccountIs

\* A step outside of any transaction that adds nothing to the log.
LEMMA AccountFree ==
    ASSUME MissionTypeOK, MissionTypeOK', Accounted, writer = Nobody, writer' = Nobody,
           stops' = stops, torn' = torn,
           archived' => Stored' /\ status' # "running",
           \/ status' = status
           \/ status = "none" /\ status' = "running"
           \/ status' \in {"aborted", "deleted"}
    PROVE  Accounted'
<1>1. \A k \in Clients : cmd'[k].pc \notin {"append", "commit"}
  BY MissionAssumption DEF MissionTypeOK, At, MissionAssumption
<1>2. Kept' = Kept
  BY PendingIs DEF Kept
<1> QED
  BY <1>1, <1>2, AccountIs

\* Every step keeps the account.
LEMMA MissionAccounts ==
    ASSUME MissionTypeOK, MissionTypeOK', Accounted, MissionNext PROVE Accounted'
<1>1. \A k \in Clients : cmd[k].pc \in {"append", "commit"} <=> writer = k
  BY DEF MissionTypeOK, At
<1>2. stops \in Nat /\ torn \in Nat /\ cmd \in [Clients -> Cmds(built)]
  BY Typed DEF MissionTypeOK
<1>3. archived => Stored /\ status # "running"
  BY AccountIs
<1>0. Nobody \notin Clients
  BY MissionAssumption DEF MissionAssumption
<1>4. ASSUME NEW k \in Clients, StartBuilds(k) PROVE Accounted'
  <2>1. PICK pc \in {"mount", "abort"} : Moved(k, pc)
    BY <1>4, ThreadMoves
  <2>2. cmd[k].pc \notin {"append", "commit"}
    BY <1>4, ThreadMoves
  <2>3. status' = status /\ stops' = stops /\ torn' = torn
    BY <1>4 DEF StartBuilds, missionRow
  <2>4. archived' <=> archived
    BY <1>4 DEF StartBuilds, missionRow
  <2> QED
    BY <2>1, <2>2, <2>3, <2>4, AccountKept DEF Moved
<1>5. ASSUME NEW k \in Clients, AttachLooks(k) PROVE Accounted'
  <2>1. PICK pc \in {"read"} : Moved(k, pc)
    BY <1>5, ThreadMoves
  <2>2. cmd[k].pc \notin {"append", "commit"}
    BY <1>5, ThreadMoves
  <2>3. status' = status /\ stops' = stops /\ torn' = torn
    BY <1>5 DEF AttachLooks, missionRow
  <2>4. archived' <=> archived
    BY <1>5 DEF AttachLooks, missionRow
  <2> QED
    BY <2>1, <2>2, <2>3, <2>4, AccountKept DEF Moved
<1>6. ASSUME NEW k \in Clients, AttachReads(k) PROVE Accounted'
  <2>1. PICK pc \in {"build", "idle"} : Moved(k, pc)
    BY <1>6, ThreadMoves
  <2>2. cmd[k].pc \notin {"append", "commit"}
    BY <1>6, ThreadMoves
  <2>3. status' = status /\ stops' = stops /\ torn' = torn
    BY <1>6 DEF AttachReads, missionRow
  <2>4. archived' <=> archived
    BY <1>6 DEF AttachReads, missionRow
  <2> QED
    BY <2>1, <2>2, <2>3, <2>4, AccountKept DEF Moved
<1>7. ASSUME NEW k \in Clients, AttachBuilds(k) PROVE Accounted'
  <2>1. PICK pc \in {"mount", "idle"} : Moved(k, pc)
    BY <1>7, ThreadMoves
  <2>2. cmd[k].pc \notin {"append", "commit"}
    BY <1>7, ThreadMoves
  <2>3. status' = status /\ stops' = stops /\ torn' = torn
    BY <1>7 DEF AttachBuilds, missionRow
  <2>4. archived' <=> archived
    BY <1>7 DEF AttachBuilds, missionRow
  <2> QED
    BY <2>1, <2>2, <2>3, <2>4, AccountKept DEF Moved
<1>8. ASSUME NEW k \in Clients, Mounts(k) PROVE Accounted'
  <2>1. PICK pc \in {"route", "abort", "idle"} : Moved(k, pc)
    BY <1>8, ThreadMoves
  <2>2. cmd[k].pc \notin {"append", "commit"}
    BY <1>8, ThreadMoves
  <2>3. status' = status /\ stops' = stops /\ torn' = torn
    BY <1>8 DEF Mounts, missionRow
  <2>4. archived' <=> archived
    BY <1>8 DEF Mounts, missionRow
  <2> QED
    BY <2>1, <2>2, <2>3, <2>4, AccountKept DEF Moved
<1>9. ASSUME NEW k \in Clients, Routes(k) PROVE Accounted'
  <2>1. PICK pc \in {"idle"} : Moved(k, pc)
    BY <1>9, ThreadMoves
  <2>2. cmd[k].pc \notin {"append", "commit"}
    BY <1>9, ThreadMoves
  <2>3. status' = status /\ stops' = stops /\ torn' = torn
    BY <1>9 DEF Routes, missionRow
  <2>4. archived' <=> archived
    BY <1>9 DEF Routes, missionRow
  <2> QED
    BY <2>1, <2>2, <2>3, <2>4, AccountKept DEF Moved
<1>10. ASSUME NEW k \in Clients, Unmounts(k) PROVE Accounted'
  <2>1. PICK pc \in {"unroute"} : Moved(k, pc)
    BY <1>10, ThreadMoves
  <2>2. cmd[k].pc \notin {"append", "commit"}
    BY <1>10, ThreadMoves
  <2>3. status' = status /\ stops' = stops /\ torn' = torn
    BY <1>10 DEF Unmounts, missionRow
  <2>4. archived' <=> archived
    BY <1>10 DEF Unmounts, missionRow
  <2> QED
    BY <2>1, <2>2, <2>3, <2>4, AccountKept DEF Moved
<1>11. ASSUME NEW k \in Clients, Unroutes(k) PROVE Accounted'
  <2>1. PICK pc \in {"idle"} : Moved(k, pc)
    BY <1>11, ThreadMoves
  <2>2. cmd[k].pc \notin {"append", "commit"}
    BY <1>11, ThreadMoves
  <2>3. status' = status /\ stops' = stops /\ torn' = torn
    BY <1>11 DEF Unroutes, missionRow
  <2>4. archived' <=> archived
    BY <1>11 DEF Unroutes, missionRow
  <2> QED
    BY <2>1, <2>2, <2>3, <2>4, AccountKept DEF Moved
<1>12. ASSUME NEW k \in Clients, Archives(k) PROVE Accounted'
  <2>1. PICK pc \in {"stop"} : Moved(k, pc)
    BY <1>12, ThreadMoves
  <2>2. cmd[k].pc \notin {"append", "commit"}
    BY <1>12, ThreadMoves
  <2>3. status' = status /\ stops' = stops /\ torn' = torn
    BY <1>12 DEF Archives, missionRow
  <2>4. archived' <=> archived
    BY <1>12 DEF Archives, missionRow
  <2> QED
    BY <2>1, <2>2, <2>3, <2>4, AccountKept DEF Moved
<1>13. ASSUME NEW k \in Clients, Sweeps(k) PROVE Accounted'
  <2>1. PICK pc \in {"sweep"} : Moved(k, pc)
    BY <1>13, ThreadMoves
  <2>2. cmd[k].pc \notin {"append", "commit"}
    BY <1>13, ThreadMoves
  <2>3. status' = status /\ stops' = stops /\ torn' = torn
    BY <1>13 DEF Sweeps, missionRow
  <2>4. archived' <=> archived
    BY <1>13 DEF Sweeps, missionRow
  <2> QED
    BY <2>1, <2>2, <2>3, <2>4, AccountKept DEF Moved
<1>14. ASSUME NEW k \in Clients, UnarchiveNodes(k) PROVE Accounted'
  <2>1. PICK pc \in {"idle"} : Moved(k, pc)
    BY <1>14, ThreadMoves
  <2>2. cmd[k].pc \notin {"append", "commit"}
    BY <1>14, ThreadMoves
  <2>3. status' = status /\ stops' = stops /\ torn' = torn
    BY <1>14 DEF UnarchiveNodes, missionRow
  <2>4. archived' <=> archived
    BY <1>14 DEF UnarchiveNodes, missionRow
  <2> QED
    BY <2>1, <2>2, <2>3, <2>4, AccountKept DEF Moved
<1>15. ASSUME NEW k \in Clients, StartCommits(k) PROVE Accounted'
  <2>1. /\ writer = Nobody /\ writer' = Nobody /\ stops' = stops /\ torn' = torn
    BY <1>15 DEF StartCommits, missionRow
  <2>2. \/ status' = status
        \/ status = "none" /\ status' = "running"
        \/ status' \in {"aborted", "deleted"}
    BY <1>15 DEF StartCommits, missionRow
  <2>3. archived' => Stored' /\ status' # "running"
    BY <1>3, <1>15 DEF StartCommits, missionRow, Stored
  <2> QED
    BY <2>1, <2>2, <2>3, AccountFree
<1>16. ASSUME NEW k \in Clients, StartAborts(k) PROVE Accounted'
  <2>1. /\ writer = Nobody /\ writer' = Nobody /\ stops' = stops /\ torn' = torn
    BY <1>16 DEF StartAborts, missionRow
  <2>2. \/ status' = status
        \/ status = "none" /\ status' = "running"
        \/ status' \in {"aborted", "deleted"}
    BY <1>16 DEF StartAborts, missionRow
  <2>3. archived' => Stored' /\ status' # "running"
    BY <1>3, <1>16 DEF StartAborts, missionRow, Stored
  <2> QED
    BY <2>1, <2>2, <2>3, AccountFree
<1>17. ASSUME NEW k \in Clients, ArchiveMissionStep(k) PROVE Accounted'
  <2>1. /\ writer = Nobody /\ writer' = Nobody /\ stops' = stops /\ torn' = torn
    BY <1>17 DEF ArchiveMissionStep, missionRow
  <2>2. \/ status' = status
        \/ status = "none" /\ status' = "running"
        \/ status' \in {"aborted", "deleted"}
    BY <1>17 DEF ArchiveMissionStep, missionRow
  <2>3. archived' => Stored' /\ status' # "running"
    BY <1>3, <1>17 DEF ArchiveMissionStep, missionRow, Stored
  <2> QED
    BY <2>1, <2>2, <2>3, AccountFree
<1>18. ASSUME NEW k \in Clients, UnarchiveClears(k) PROVE Accounted'
  <2>1. /\ writer = Nobody /\ writer' = Nobody /\ stops' = stops /\ torn' = torn
    BY <1>18 DEF UnarchiveClears, missionRow
  <2>2. \/ status' = status
        \/ status = "none" /\ status' = "running"
        \/ status' \in {"aborted", "deleted"}
    BY <1>18 DEF UnarchiveClears, missionRow
  <2>3. archived' => Stored' /\ status' # "running"
    BY <1>3, <1>18 DEF UnarchiveClears, missionRow, Stored
  <2> QED
    BY <2>1, <2>2, <2>3, AccountFree
<1>19. ASSUME NEW k \in Clients, DeleteArchived(k) PROVE Accounted'
  <2>1. /\ writer = Nobody /\ writer' = Nobody /\ stops' = stops /\ torn' = torn
    BY <1>19 DEF DeleteArchived, missionRow
  <2>2. \/ status' = status
        \/ status = "none" /\ status' = "running"
        \/ status' \in {"aborted", "deleted"}
    BY <1>19 DEF DeleteArchived, missionRow
  <2>3. archived' => Stored' /\ status' # "running"
    BY <1>3, <1>19 DEF DeleteArchived, missionRow, Stored
  <2> QED
    BY <2>1, <2>2, <2>3, AccountFree
<1>20. ASSUME NEW k \in Clients, StopBegins(k) PROVE Accounted'
  <2>1. PICK pc \in {"append", "commit", "sweep", "idle"} : Moved(k, pc)
    BY <1>20, ThreadMoves
  <2>2. /\ writer = Nobody /\ status' = status /\ stops' = stops /\ torn' = torn
    BY <1>20 DEF StopBegins, missionRow
  <2>3. archived' <=> archived
    BY <1>20 DEF StopBegins, missionRow
  <2>4. /\ pc = "append" => status = "running"
        /\ pc = "commit" => Listed /\ status # "running"
    BY <1>2, <1>20, <2>1 DEF StopBegins, GoTo, EndsCall, Moved, Cmds, NoCmd
  <2>5. Uncommitted = 0 /\ Uncommitted' = 0
    BY <1>0, <1>1, <2>1, <2>2, <2>4, PendingIs DEF Moved, Uncommitted, At
  <2>6. Kept' = Kept /\ (Listed' <=> Listed) /\ (Stored' <=> Stored)
    BY <2>2, <2>3, <2>5 DEF Kept, Listed, Stored
  <2> QED
    BY <1>0, <1>1, <2>1, <2>2, <2>3, <2>4, <2>6, AccountIs DEF Moved
<1>21. ASSUME NEW k \in Clients, StopAppends(k) PROVE Accounted'
  <2>1. PICK pc \in {"commit", "idle"} : Moved(k, pc)
    BY <1>21, ThreadMoves
  <2>2. /\ cmd[k].pc = "append" /\ status = "running" /\ status' = status /\ torn' = torn
    BY <1>21, ThreadMoves, AccountIs DEF StopAppends, missionRow
  <2>3. archived' <=> archived
    BY <1>21 DEF StopAppends, missionRow
  <2>4. \A j \in Clients \ {k} : cmd'[j].pc \notin {"append", "commit"}
    BY <1>1, <2>1, <2>2 DEF Moved
  <2>5. Uncommitted = 0
    BY <2>2, PendingIs
  <2>6. \/ stops' = stops + 1 /\ pc = "commit"
        \/ stops' = stops /\ pc = "idle"
    BY <1>2, <1>21, <2>1, NoCmdTyped DEF StopAppends, GoTo, EndsCall, Moved, Cmds
  <2>7. Uncommitted' = IF pc = "commit" THEN 1 ELSE 0
    BY <2>1, <2>2, <2>4 DEF Uncommitted, At, Moved
  <2>8. Kept' = Kept
    BY <1>2, <2>2, <2>5, <2>6, <2>7 DEF Kept
  <2>9. Listed' /\ ~archived'
    BY <1>3, <2>2, <2>3 DEF Listed
  <2> QED
    BY <2>1, <2>2, <2>4, <2>8, <2>9, AccountIs DEF Moved
<1>22. ASSUME NEW k \in Clients, StopCommits(k) PROVE Accounted'
  <2>1. cmd[k].pc = "commit" /\ Listed /\ writer' = Nobody /\ stops' = stops
    BY <1>22, ThreadMoves, AccountIs DEF StopCommits
  <2>2. Uncommitted = (IF status = "running" THEN 1 ELSE 0) /\ Uncommitted' = 0
    BY <2>1, PendingIs
  <2>3. \A j \in Clients : cmd'[j].pc \notin {"append", "commit"}
    BY <1>0, <2>1 DEF MissionTypeOK, At
  <2>4. CASE /\ status' = IF status = "running" THEN "completed" ELSE status
             /\ torn' = torn
    <3>1. Kept' = Kept + Uncommitted
      BY <1>2, <2>1, <2>2, <2>4, PendingIs DEF Kept
    <3>2. status \in {"running", "completed", "aborted"}
      BY <2>1 DEF Listed
    <3>3. status' \in {"completed", "aborted"}
      BY <2>4, <3>2
    <3> QED
      BY <2>2, <2>3, <2>4, <3>1, <3>2, <3>3, AccountIs DEF Stored
  <2>5. CASE torn' = torn + Uncommitted /\ status' = status /\ (archived' <=> archived)
    <3>1. Kept' = Kept
      BY <1>2, <2>1, <2>2, <2>5, PendingIs DEF Kept
    <3> QED
      BY <2>3, <2>5, <3>1, AccountIs DEF Stored
  <2> QED
    BY <1>22, <2>4, <2>5 DEF StopCommits, missionRow
<1>23. ASSUME ListWithRepair PROVE Accounted'
  BY <1>23, AccountKept DEF ListWithRepair
<1>24. ASSUME Reopens PROVE Accounted'
  <2>1. writer' = Nobody /\ stops' = stops /\ status' = status /\ torn' = torn + Uncommitted
    BY <1>24 DEF Reopens, missionRow
  <2>2. archived' <=> archived
    BY <1>24 DEF Reopens, missionRow
  <2>3. \A j \in Clients : cmd'[j].pc \notin {"append", "commit"}
    BY <1>0, <2>1 DEF MissionTypeOK, At
  <2>4. Kept' = Kept
    BY <1>2, <2>1, PendingIs DEF Kept
  <2> QED
    BY <2>1, <2>2, <2>3, <2>4, AccountIs DEF Stored
<1> QED
  BY <1>4, <1>5, <1>6, <1>7, <1>8, <1>9, <1>10, <1>11, <1>12, <1>13, <1>14, <1>15, <1>16,
     <1>17, <1>18, <1>19, <1>20, <1>21, <1>22, <1>23, <1>24
     DEF MissionNext

-----------------------------------------------------------------------------
(* The row and its node.                                                    *)

Shown == NodeInv /\ TreeShowsTheMission

\* What the tree shows, with its definitions expanded.
LEMMA ShownIs ==
    /\ Shown <=>
        (~ghost => /\ \A k \in Clients : cmd[k].pc = "node" => Listed
                   /\ (node <=> Listed) \/ \E k \in Clients : cmd[k].pc = "node")
    /\ Shown' <=>
        (~ghost' => /\ \A k \in Clients : cmd'[k].pc = "node" => Listed'
                    /\ (node' <=> Listed') \/ \E k \in Clients : cmd'[k].pc = "node")
  BY DEF Shown, NodeInv, TreeShowsTheMission, At

\* A step away from row, node and node writers changes nothing about the tree.
LEMMA ShownKept ==
    ASSUME Shown, Listed' <=> Listed, node' <=> node, ghost' <=> ghost,
           \A j \in Clients : cmd'[j].pc = "node" <=> cmd[j].pc = "node"
    PROVE  Shown'
  BY ShownIs

\* Every step keeps the tree in agreement with the row.
LEMMA MissionIsShown ==
    ASSUME MissionTypeOK, MissionTypeOK', Accounted, Shown, MissionNext PROVE Shown'
<1>1. cmd \in [Clients -> Cmds(built)] /\ ghost \in BOOLEAN /\ node \in BOOLEAN
  BY Typed DEF MissionTypeOK
<1>2. archived => Stored /\ status # "running"
  BY AccountIs
<1>3. \A k \in Clients : Others(k, {"node"}) <=> \E j \in Clients \ {k} : cmd[j].pc = "node"
  BY DEF Others, At
<1>4. ASSUME NEW k \in Clients, StartBuilds(k) PROVE Shown'
  <2>1. PICK pc \in {"mount", "abort"} : Moved(k, pc)
    BY <1>4, ThreadMoves
  <2>2. cmd[k].pc # "node"
    BY <1>4, ThreadMoves
  <2>3. Listed' <=> Listed
    BY <1>4 DEF StartBuilds, missionRow, Listed
  <2>4. (node' <=> node) /\ (ghost' <=> ghost)
    BY <1>4 DEF StartBuilds, missionRow
  <2> QED
    BY <2>1, <2>2, <2>3, <2>4, ShownKept DEF Moved
<1>5. ASSUME NEW k \in Clients, StartAborts(k) PROVE Shown'
  <2>1. PICK pc \in {"idle"} : Moved(k, pc)
    BY <1>5, ThreadMoves
  <2>2. cmd[k].pc # "node"
    BY <1>5, ThreadMoves
  <2>3. Listed' <=> Listed
    BY <1>5 DEF StartAborts, missionRow, Listed, Stored
  <2>4. (node' <=> node) /\ (ghost' <=> ghost)
    BY <1>5 DEF StartAborts, missionRow
  <2> QED
    BY <2>1, <2>2, <2>3, <2>4, ShownKept DEF Moved
<1>6. ASSUME NEW k \in Clients, AttachLooks(k) PROVE Shown'
  <2>1. PICK pc \in {"read"} : Moved(k, pc)
    BY <1>6, ThreadMoves
  <2>2. cmd[k].pc # "node"
    BY <1>6, ThreadMoves
  <2>3. Listed' <=> Listed
    BY <1>6 DEF AttachLooks, missionRow, Listed
  <2>4. (node' <=> node) /\ (ghost' <=> ghost)
    BY <1>6 DEF AttachLooks, missionRow
  <2> QED
    BY <2>1, <2>2, <2>3, <2>4, ShownKept DEF Moved
<1>7. ASSUME NEW k \in Clients, AttachReads(k) PROVE Shown'
  <2>1. PICK pc \in {"build", "idle"} : Moved(k, pc)
    BY <1>7, ThreadMoves
  <2>2. cmd[k].pc # "node"
    BY <1>7, ThreadMoves
  <2>3. Listed' <=> Listed
    BY <1>7 DEF AttachReads, missionRow, Listed
  <2>4. (node' <=> node) /\ (ghost' <=> ghost)
    BY <1>7 DEF AttachReads, missionRow
  <2> QED
    BY <2>1, <2>2, <2>3, <2>4, ShownKept DEF Moved
<1>8. ASSUME NEW k \in Clients, AttachBuilds(k) PROVE Shown'
  <2>1. PICK pc \in {"mount", "idle"} : Moved(k, pc)
    BY <1>8, ThreadMoves
  <2>2. cmd[k].pc # "node"
    BY <1>8, ThreadMoves
  <2>3. Listed' <=> Listed
    BY <1>8 DEF AttachBuilds, missionRow, Listed
  <2>4. (node' <=> node) /\ (ghost' <=> ghost)
    BY <1>8 DEF AttachBuilds, missionRow
  <2> QED
    BY <2>1, <2>2, <2>3, <2>4, ShownKept DEF Moved
<1>9. ASSUME NEW k \in Clients, Mounts(k) PROVE Shown'
  <2>1. PICK pc \in {"route", "abort", "idle"} : Moved(k, pc)
    BY <1>9, ThreadMoves
  <2>2. cmd[k].pc # "node"
    BY <1>9, ThreadMoves
  <2>3. Listed' <=> Listed
    BY <1>9 DEF Mounts, missionRow, Listed
  <2>4. (node' <=> node) /\ (ghost' <=> ghost)
    BY <1>9 DEF Mounts, missionRow
  <2> QED
    BY <2>1, <2>2, <2>3, <2>4, ShownKept DEF Moved
<1>10. ASSUME NEW k \in Clients, Routes(k) PROVE Shown'
  <2>1. PICK pc \in {"idle"} : Moved(k, pc)
    BY <1>10, ThreadMoves
  <2>2. cmd[k].pc # "node"
    BY <1>10, ThreadMoves
  <2>3. Listed' <=> Listed
    BY <1>10 DEF Routes, missionRow, Listed
  <2>4. (node' <=> node) /\ (ghost' <=> ghost)
    BY <1>10 DEF Routes, missionRow
  <2> QED
    BY <2>1, <2>2, <2>3, <2>4, ShownKept DEF Moved
<1>11. ASSUME NEW k \in Clients, Unmounts(k) PROVE Shown'
  <2>1. PICK pc \in {"unroute"} : Moved(k, pc)
    BY <1>11, ThreadMoves
  <2>2. cmd[k].pc # "node"
    BY <1>11, ThreadMoves
  <2>3. Listed' <=> Listed
    BY <1>11 DEF Unmounts, missionRow, Listed
  <2>4. (node' <=> node) /\ (ghost' <=> ghost)
    BY <1>11 DEF Unmounts, missionRow
  <2> QED
    BY <2>1, <2>2, <2>3, <2>4, ShownKept DEF Moved
<1>12. ASSUME NEW k \in Clients, Unroutes(k) PROVE Shown'
  <2>1. PICK pc \in {"idle"} : Moved(k, pc)
    BY <1>12, ThreadMoves
  <2>2. cmd[k].pc # "node"
    BY <1>12, ThreadMoves
  <2>3. Listed' <=> Listed
    BY <1>12 DEF Unroutes, missionRow, Listed
  <2>4. (node' <=> node) /\ (ghost' <=> ghost)
    BY <1>12 DEF Unroutes, missionRow
  <2> QED
    BY <2>1, <2>2, <2>3, <2>4, ShownKept DEF Moved
<1>13. ASSUME NEW k \in Clients, Archives(k) PROVE Shown'
  <2>1. PICK pc \in {"stop"} : Moved(k, pc)
    BY <1>13, ThreadMoves
  <2>2. cmd[k].pc # "node"
    BY <1>13, ThreadMoves
  <2>3. Listed' <=> Listed
    BY <1>13 DEF Archives, missionRow, Listed
  <2>4. (node' <=> node) /\ (ghost' <=> ghost)
    BY <1>13 DEF Archives, missionRow
  <2> QED
    BY <2>1, <2>2, <2>3, <2>4, ShownKept DEF Moved
<1>14. ASSUME NEW k \in Clients, StopBegins(k) PROVE Shown'
  <2>1. PICK pc \in {"append", "commit", "sweep", "idle"} : Moved(k, pc)
    BY <1>14, ThreadMoves
  <2>2. cmd[k].pc # "node"
    BY <1>14, ThreadMoves
  <2>3. Listed' <=> Listed
    BY <1>14 DEF StopBegins, missionRow, Listed
  <2>4. (node' <=> node) /\ (ghost' <=> ghost)
    BY <1>14 DEF StopBegins, missionRow
  <2> QED
    BY <2>1, <2>2, <2>3, <2>4, ShownKept DEF Moved
<1>15. ASSUME NEW k \in Clients, StopAppends(k) PROVE Shown'
  <2>1. PICK pc \in {"commit", "idle"} : Moved(k, pc)
    BY <1>15, ThreadMoves
  <2>2. cmd[k].pc # "node"
    BY <1>15, ThreadMoves
  <2>3. Listed' <=> Listed
    BY <1>15 DEF StopAppends, missionRow, Listed
  <2>4. (node' <=> node) /\ (ghost' <=> ghost)
    BY <1>15 DEF StopAppends, missionRow
  <2> QED
    BY <2>1, <2>2, <2>3, <2>4, ShownKept DEF Moved
<1>16. ASSUME NEW k \in Clients, Sweeps(k) PROVE Shown'
  <2>1. PICK pc \in {"sweep"} : Moved(k, pc)
    BY <1>16, ThreadMoves
  <2>2. cmd[k].pc # "node"
    BY <1>16, ThreadMoves
  <2>3. Listed' <=> Listed
    BY <1>16 DEF Sweeps, missionRow, Listed
  <2>4. (node' <=> node) /\ (ghost' <=> ghost)
    BY <1>16 DEF Sweeps, missionRow
  <2> QED
    BY <2>1, <2>2, <2>3, <2>4, ShownKept DEF Moved
<1>17. ASSUME NEW k \in Clients, StartCommits(k) PROVE Shown'
  <2>1. status' = "running" /\ node' /\ ~archived'
    BY <1>2, <1>17 DEF StartCommits, Stored
  <2> QED
    BY <2>1, ShownIs DEF Listed
<1>18. ASSUME NEW k \in Clients, StopCommits(k) PROVE Shown'
  <2>1. PICK pc \in {"unmount", "idle"} : Moved(k, pc)
    BY <1>18, ThreadMoves
  <2>2. cmd[k].pc = "commit"
    BY <1>18, ThreadMoves
  <2>3. CASE status' = status /\ (archived' <=> archived) /\ (node' <=> node) /\ (ghost' <=> ghost)
    BY <2>1, <2>2, <2>3, ShownKept DEF Moved, Listed
  <2>4. CASE archived' /\ ~node' /\ (Others(k, {"node"}) => ghost')
    <3>1. ~ghost' => \A j \in Clients : cmd'[j].pc # "node"
      BY <1>3, <2>1, <2>2, <2>4 DEF Moved
    <3> QED
      BY <2>4, <3>1, ShownIs DEF Listed
  <2>5. CASE /\ archived' = TRUE /\ node' = FALSE
             /\ ghost' = (ghost \/ Others(k, {"node"}))
    BY <2>4, <2>5
  <2>6. CASE UNCHANGED <<missionRow, overlap, ghost>>
    BY <2>3, <2>6 DEF missionRow
  <2> QED
    BY <1>18, <2>5, <2>6 DEF StopCommits
<1>19. ASSUME NEW k \in Clients, ArchiveMissionStep(k) PROVE Shown'
  <2>1. PICK pc \in {"stop", "idle"} : Moved(k, pc)
    BY <1>19, ThreadMoves
  <2>2. cmd[k].pc = "sweep"
    BY <1>19, ThreadMoves
  <2>3. CASE status = "running"
    <3>1. (Listed' <=> Listed) /\ (node' <=> node) /\ (ghost' <=> ghost)
      BY <1>19, <2>3 DEF ArchiveMissionStep, missionRow, Listed
    <3> QED
      BY <2>1, <2>2, <3>1, ShownKept DEF Moved
  <2>4. CASE status # "running"
    <3>1. /\ status' = status
          /\ ~ghost' => ~ghost /\ ~Others(k, {"node"})
          /\ archived' <=> archived \/ Stored
          /\ node' <=> node /\ ~Stored
      BY <1>19, <2>4 DEF ArchiveMissionStep
    <3>2. ~Listed'
      BY <3>1 DEF Listed, Stored
    <3>3. ~ghost' => \A j \in Clients : cmd[j].pc # "node" /\ cmd'[j].pc # "node"
      BY <1>3, <2>1, <2>2, <3>1 DEF Moved
    <3>4. ~ghost' => ~node'
      BY <3>1, <3>3, ShownIs DEF Listed, Stored
    <3> QED
      BY <3>2, <3>3, <3>4, ShownIs
  <2> QED
    BY <2>3, <2>4
<1>20. ASSUME NEW k \in Clients, UnarchiveClears(k) PROVE Shown'
  <2>1. Listed' /\ \E pc \in {"node"} : Moved(k, pc)
    BY <1>20, ThreadMoves DEF UnarchiveClears, Listed, Stored
  <2> QED
    BY <2>1, ShownIs DEF Moved
<1>21. ASSUME NEW k \in Clients, UnarchiveNodes(k) PROVE Shown'
  <2>1. /\ Listed' <=> Listed
        /\ node' /\ (ghost' <=> ghost) /\ cmd[k].pc = "node"
    BY <1>21, ThreadMoves DEF UnarchiveNodes, Listed
  <2> QED
    BY <2>1, ShownIs
<1>22. ASSUME NEW k \in Clients, DeleteArchived(k) PROVE Shown'
  <2>1. PICK pc \in {"idle"} : Moved(k, pc)
    BY <1>22, ThreadMoves
  <2>2. cmd[k].pc = "idle" /\ ~Listed /\ ~Listed'
    BY <1>22, ThreadMoves DEF DeleteArchived, Listed
  <2>3. (node' <=> node) /\ (~ghost' => ~ghost /\ ~Others(k, {"node"}))
    BY <1>22 DEF DeleteArchived
  <2>4. ~ghost' => \A j \in Clients : cmd[j].pc # "node" /\ cmd'[j].pc # "node"
    BY <1>3, <2>1, <2>2, <2>3 DEF Moved
  <2> QED
    BY <2>2, <2>3, <2>4, ShownIs
<1>23. ASSUME ListWithRepair PROVE Shown'
  <2>1. (node' <=> Listed) /\ (Listed' <=> Listed) /\ cmd' = cmd
    BY <1>23 DEF ListWithRepair, Listed
  <2>2. ~ghost' => \A j \in Clients : cmd[j].pc = "node" => Listed
    BY <1>23 DEF ListWithRepair, At
  <2> QED
    BY <2>1, <2>2, ShownIs
<1>24. ASSUME Reopens PROVE Shown'
  <2>1. \A j \in Clients : cmd'[j].pc # "node"
    BY <1>24, NoCmdTyped DEF Reopens
  <2>2. (Listed' <=> Listed) /\ (node' <=> node)
    BY <1>24 DEF Reopens, missionRow, Listed
  <2>3. ~ghost' => ~ghost /\ \A j \in Clients : cmd[j].pc # "node"
    BY <1>24 DEF Reopens, At
  <2> QED
    BY <2>1, <2>2, <2>3, ShownIs
<1> QED
  BY <1>4, <1>5, <1>6, <1>7, <1>8, <1>9, <1>10, <1>11, <1>12, <1>13, <1>14, <1>15, <1>16,
     <1>17, <1>18, <1>19, <1>20, <1>21, <1>22, <1>23, <1>24
     DEF MissionNext

-----------------------------------------------------------------------------
(* The row and its runtime.                                                 *)

\* The runtime of a mission, with its definitions expanded.
LEMMA RuntimeIs ==
    /\ RuntimeInv <=>
        (/\ \A k \in Clients : cmd[k].pc \in TearsDown => status \notin {"running", "none"}
         /\ status = "none" => \A k \in Clients : cmd[k].pc \notin Setting
         /\ ~overlap =>
             /\ \A k, j \in Clients : cmd[k].pc \in Setting /\ cmd[j].pc \in Setting => k = j
             /\ \A k \in Clients : cmd[k].pc \in Setting \ {"route"} => bus = 0 /\ reg = 0
             /\ \A k \in Clients : cmd[k].pc = "route" => bus = cmd[k].router /\ reg = 0
             /\ \A k \in Clients : cmd[k].pc \in MayBuild \cup {"build"} => status = "running"
             /\ (\E k \in Clients : cmd[k].pc = "unroute")
                /\ (\A k \in Clients : cmd[k].pc # "unmount") => bus = 0
             /\ (\A k \in Clients : cmd[k].pc \notin Setting \cup TearsDown)
                  => bus = reg /\ (status # "running" => bus = 0))
    /\ RuntimeInv' <=>
        (/\ \A k \in Clients : cmd'[k].pc \in TearsDown => status' \notin {"running", "none"}
         /\ status' = "none" => \A k \in Clients : cmd'[k].pc \notin Setting
         /\ ~overlap' =>
             /\ \A k, j \in Clients : cmd'[k].pc \in Setting /\ cmd'[j].pc \in Setting => k = j
             /\ \A k \in Clients : cmd'[k].pc \in Setting \ {"route"} => bus' = 0 /\ reg' = 0
             /\ \A k \in Clients : cmd'[k].pc = "route" => bus' = cmd'[k].router /\ reg' = 0
             /\ \A k \in Clients : cmd'[k].pc \in MayBuild \cup {"build"} => status' = "running"
             /\ (\E k \in Clients : cmd'[k].pc = "unroute")
                /\ (\A k \in Clients : cmd'[k].pc # "unmount") => bus' = 0
             /\ (\A k \in Clients : cmd'[k].pc \notin Setting \cup TearsDown)
                  => bus' = reg' /\ (status' # "running" => bus' = 0))
  BY DEF RuntimeInv, At

\* A step of a thread that has nothing to do with the runtime.
LEMMA RuntimeKept ==
    ASSUME RuntimeInv, status' = status, bus' = bus, reg' = reg, overlap' <=> overlap,
           \A j \in Clients : \/ cmd'[j] = cmd[j]
                              \/ /\ cmd[j].pc \notin Setting \cup TearsDown
                                 /\ cmd'[j].pc \notin Setting \cup TearsDown
    PROVE  RuntimeInv'
<1>1. \A j \in Clients : /\ cmd'[j].pc \in Setting <=> cmd[j].pc \in Setting
                         /\ cmd'[j].pc \in TearsDown <=> cmd[j].pc \in TearsDown
                         /\ cmd'[j].pc \in Setting \cup TearsDown => cmd'[j] = cmd[j]
                         /\ cmd[j].pc \in Setting \cup TearsDown => cmd'[j] = cmd[j]
  OBVIOUS
<1>2. /\ MayBuild \cup {"build"} \subseteq Setting /\ "route" \in Setting
      /\ "unroute" \in TearsDown /\ "unmount" \in TearsDown
  BY DEF Setting, MayBuild, Attaching, TearsDown
<1> QED
  BY <1>1, <1>2, RuntimeIs

\* Every step keeps the runtime in agreement with the row.
LEMMA MissionRuntime ==
    ASSUME MissionTypeOK, MissionTypeOK', Accounted, RuntimeInv, MissionNext PROVE RuntimeInv'
<1>1. /\ cmd \in [Clients -> Cmds(built)] /\ bus \in Nat /\ reg \in Nat /\ built \in Nat
      /\ status \in {"none", "running", "completed", "aborted", "deleted"}
  BY Typed DEF MissionTypeOK
<1>2. /\ archived => Stored /\ status # "running"
      /\ \A k \in Clients : cmd[k].pc = "commit" => Listed
  BY AccountIs
<1>3. /\ \A k \in Clients : RunsInto(k) <=>
            \E j \in Clients \ {k} : cmd[j].pc \in Setting \cup TearsDown
      /\ \A k \in Clients : LeavesBehind(k) <=>
            \/ \E j \in Clients \ {k} : cmd[j].pc \in MayBuild \cup {"build"}
            \/ cmd[k].pc = "abort" /\ bus + reg # 0
  BY DEF RunsInto, LeavesBehind, Others, At, Setting
<1>4. ASSUME NEW k \in Clients, Archives(k) PROVE RuntimeInv'
  <2>1. PICK pc \in {"stop"} : Moved(k, pc)
    BY <1>4, ThreadMoves
  <2>2. cmd[k].pc \notin Setting \cup TearsDown /\ pc \notin Setting \cup TearsDown
    BY <1>4, ThreadMoves DEF Setting, Attaching, MayBuild, TearsDown
  <2>3. status' = status /\ bus' = bus /\ reg' = reg /\ (overlap' <=> overlap)
    BY <1>4 DEF Archives, missionRow, runtime
  <2> QED
    BY <2>1, <2>2, <2>3, RuntimeKept DEF Moved
<1>5. ASSUME NEW k \in Clients, StopBegins(k) PROVE RuntimeInv'
  <2>1. PICK pc \in {"append", "commit", "sweep", "idle"} : Moved(k, pc)
    BY <1>5, ThreadMoves
  <2>2. cmd[k].pc \notin Setting \cup TearsDown /\ pc \notin Setting \cup TearsDown
    BY <1>5, ThreadMoves DEF Setting, Attaching, MayBuild, TearsDown
  <2>3. status' = status /\ bus' = bus /\ reg' = reg /\ (overlap' <=> overlap)
    BY <1>5 DEF StopBegins, missionRow, runtime
  <2> QED
    BY <2>1, <2>2, <2>3, RuntimeKept DEF Moved
<1>6. ASSUME NEW k \in Clients, StopAppends(k) PROVE RuntimeInv'
  <2>1. PICK pc \in {"commit", "idle"} : Moved(k, pc)
    BY <1>6, ThreadMoves
  <2>2. cmd[k].pc \notin Setting \cup TearsDown /\ pc \notin Setting \cup TearsDown
    BY <1>6, ThreadMoves DEF Setting, Attaching, MayBuild, TearsDown
  <2>3. status' = status /\ bus' = bus /\ reg' = reg /\ (overlap' <=> overlap)
    BY <1>6 DEF StopAppends, missionRow, runtime
  <2> QED
    BY <2>1, <2>2, <2>3, RuntimeKept DEF Moved
<1>7. ASSUME NEW k \in Clients, Sweeps(k) PROVE RuntimeInv'
  <2>1. PICK pc \in {"sweep"} : Moved(k, pc)
    BY <1>7, ThreadMoves
  <2>2. cmd[k].pc \notin Setting \cup TearsDown /\ pc \notin Setting \cup TearsDown
    BY <1>7, ThreadMoves DEF Setting, Attaching, MayBuild, TearsDown
  <2>3. status' = status /\ bus' = bus /\ reg' = reg /\ (overlap' <=> overlap)
    BY <1>7 DEF Sweeps, missionRow, runtime
  <2> QED
    BY <2>1, <2>2, <2>3, RuntimeKept DEF Moved
<1>8. ASSUME NEW k \in Clients, ArchiveMissionStep(k) PROVE RuntimeInv'
  <2>1. PICK pc \in {"stop", "idle"} : Moved(k, pc)
    BY <1>8, ThreadMoves
  <2>2. cmd[k].pc \notin Setting \cup TearsDown /\ pc \notin Setting \cup TearsDown
    BY <1>8, ThreadMoves DEF Setting, Attaching, MayBuild, TearsDown
  <2>3. status' = status /\ bus' = bus /\ reg' = reg /\ (overlap' <=> overlap)
    BY <1>8 DEF ArchiveMissionStep, missionRow, runtime
  <2> QED
    BY <2>1, <2>2, <2>3, RuntimeKept DEF Moved
<1>9. ASSUME NEW k \in Clients, UnarchiveClears(k) PROVE RuntimeInv'
  <2>1. PICK pc \in {"node"} : Moved(k, pc)
    BY <1>9, ThreadMoves
  <2>2. cmd[k].pc \notin Setting \cup TearsDown /\ pc \notin Setting \cup TearsDown
    BY <1>9, ThreadMoves DEF Setting, Attaching, MayBuild, TearsDown
  <2>3. status' = status /\ bus' = bus /\ reg' = reg /\ (overlap' <=> overlap)
    BY <1>9 DEF UnarchiveClears, missionRow, runtime
  <2> QED
    BY <2>1, <2>2, <2>3, RuntimeKept DEF Moved
<1>10. ASSUME NEW k \in Clients, UnarchiveNodes(k) PROVE RuntimeInv'
  <2>1. PICK pc \in {"idle"} : Moved(k, pc)
    BY <1>10, ThreadMoves
  <2>2. cmd[k].pc \notin Setting \cup TearsDown /\ pc \notin Setting \cup TearsDown
    BY <1>10, ThreadMoves DEF Setting, Attaching, MayBuild, TearsDown
  <2>3. status' = status /\ bus' = bus /\ reg' = reg /\ (overlap' <=> overlap)
    BY <1>10 DEF UnarchiveNodes, missionRow, runtime
  <2> QED
    BY <2>1, <2>2, <2>3, RuntimeKept DEF Moved
<1>11. ASSUME NEW k \in Clients, StartCommits(k) PROVE RuntimeInv'
  <2>1. PICK pc \in {"check"} : Moved(k, pc)
    BY <1>11, ThreadMoves
  <2>2. cmd[k].pc = "idle"
    BY <1>11, ThreadMoves
  <2>3. /\ status = "none" /\ status' = "running" /\ bus' = bus /\ reg' = reg
        /\ overlap' <=> overlap
    BY <1>11 DEF StartCommits, runtime
  <2>4. /\ \A j \in Clients : cmd[j].pc \notin Setting \cup TearsDown
        /\ ~overlap => bus = 0 /\ reg = 0
    BY <2>3, RuntimeIs
  <2> QED
    BY <1>1, <2>1, <2>2, <2>3, <2>4, RuntimeIs DEF Moved, Setting, Attaching, MayBuild, TearsDown
<1>12. ASSUME NEW k \in Clients, StartBuilds(k) PROVE RuntimeInv'
  <2>1. PICK pc \in {"mount", "abort"} : Moved(k, pc)
    BY <1>12, ThreadMoves
  <2>2. cmd[k].pc = "check"
    BY <1>12, ThreadMoves
  <2>3. status' = status /\ bus' = bus /\ reg' = reg /\ (overlap' <=> overlap)
    BY <1>12 DEF StartBuilds, missionRow
  <2>4. ~overlap => bus = 0 /\ reg = 0 /\ status = "running"
    BY <2>2, RuntimeIs DEF Setting, Attaching, MayBuild, TearsDown
  <2> QED
    BY <1>1, <2>1, <2>2, <2>3, <2>4, RuntimeIs DEF Moved, Setting, Attaching, MayBuild, TearsDown
<1>13. ASSUME NEW k \in Clients, StartAborts(k) PROVE RuntimeInv'
  <2>1. PICK pc \in {"idle"} : Moved(k, pc)
    BY <1>13, ThreadMoves
  <2>2. cmd[k].pc = "abort"
    BY <1>13, ThreadMoves
  <2>3. /\ bus' = bus /\ reg' = reg /\ (~overlap' => ~overlap)
        /\ status' = status \/ status' = "aborted"
    <3>1. bus' = bus /\ reg' = reg
      BY <1>13 DEF StartAborts, runtime
    <3>2. CASE /\ status' = IF Stored THEN "aborted" ELSE status
               /\ overlap' = (overlap \/ LeavesBehind(k))
      BY <3>1, <3>2
    <3>3. CASE UNCHANGED <<status, overlap>>
      BY <3>1, <3>3
    <3> QED
      BY <1>13, <3>2, <3>3 DEF StartAborts
  <2>4. /\ status # "none" /\ (~overlap => bus = 0 /\ reg = 0)
        /\ ~overlap => \A j \in Clients \ {k} : cmd[j].pc \notin Setting
    BY <2>2, RuntimeIs DEF Setting, Attaching, MayBuild, TearsDown
  <2> QED
    BY <1>1, <2>1, <2>2, <2>3, <2>4, RuntimeIs DEF Moved, Setting, Attaching, MayBuild, TearsDown
<1>14. ASSUME NEW k \in Clients, AttachLooks(k) PROVE RuntimeInv'
  <2>1. PICK pc \in {"read"} : Moved(k, pc)
    BY <1>14, ThreadMoves
  <2>2. cmd[k].pc = "idle"
    BY <1>14, ThreadMoves
  <2>3. /\ status' = status /\ bus' = bus /\ reg' = reg /\ reg = 0 /\ status # "none"
        /\ ~overlap' => /\ ~overlap
                        /\ \A j \in Clients \ {k} : cmd[j].pc \notin Setting \cup TearsDown
    BY <1>3, <1>14 DEF AttachLooks, missionRow, runtime, Stored
  <2>4. ~overlap' => bus = 0
    BY <2>2, <2>3, RuntimeIs DEF Setting, Attaching, MayBuild, TearsDown
  <2> QED
    BY <1>1, <2>1, <2>2, <2>3, <2>4, RuntimeIs DEF Moved, Setting, Attaching, MayBuild, TearsDown
<1>15. ASSUME NEW k \in Clients, AttachReads(k) PROVE RuntimeInv'
  <2>1. PICK pc \in {"build", "idle"} : Moved(k, pc)
    BY <1>15, ThreadMoves
  <2>2. cmd[k].pc = "read"
    BY <1>15, ThreadMoves
  <2>3. /\ status' = status /\ bus' = bus /\ reg' = reg /\ (overlap' <=> overlap)
        /\ pc = "build" => status = "running"
    BY <1>1, <1>15, <2>1, NoCmdTyped DEF AttachReads, missionRow, runtime, EndsCall, Moved
  <2>4. ~overlap => bus = 0 /\ reg = 0
    BY <2>2, RuntimeIs DEF Setting, Attaching, MayBuild, TearsDown
  <2> QED
    BY <1>1, <2>1, <2>2, <2>3, <2>4, RuntimeIs DEF Moved, Setting, Attaching, MayBuild, TearsDown
<1>16. ASSUME NEW k \in Clients, AttachBuilds(k) PROVE RuntimeInv'
  <2>1. PICK pc \in {"mount", "idle"} : Moved(k, pc)
    BY <1>16, ThreadMoves
  <2>2. cmd[k].pc = "build"
    BY <1>16, ThreadMoves
  <2>3. status' = status /\ bus' = bus /\ reg' = reg /\ (overlap' <=> overlap)
    BY <1>16 DEF AttachBuilds, missionRow
  <2>4. ~overlap => bus = 0 /\ reg = 0 /\ status = "running"
    BY <2>2, RuntimeIs DEF Setting, Attaching, MayBuild, TearsDown
  <2> QED
    BY <1>1, <2>1, <2>2, <2>3, <2>4, RuntimeIs DEF Moved, Setting, Attaching, MayBuild, TearsDown
<1>17. ASSUME NEW k \in Clients, Mounts(k) PROVE RuntimeInv'
  <2>1. PICK pc \in {"route", "abort", "idle"} : Moved(k, pc)
    BY <1>17, ThreadMoves
  <2>2. cmd[k].pc = "mount"
    BY <1>17, ThreadMoves
  <2>3. /\ status' = status /\ reg' = reg /\ (overlap' <=> overlap)
        /\ \/ pc = "route" /\ cmd'[k].router = cmd[k].router
              /\ bus' = IF bus = 0 THEN cmd[k].router ELSE bus
           \/ pc # "route" /\ bus' = bus
    BY <1>1, <1>17, <2>1, NoCmdTyped DEF Mounts, missionRow, GoTo, EndsCall, Moved, Cmds
  <2>4. /\ ~overlap => bus = 0 /\ reg = 0 /\ status = "running"
        /\ ~overlap => \A j \in Clients \ {k} : cmd[j].pc \notin Setting \cup TearsDown
    BY <2>2, RuntimeIs DEF Setting, Attaching, MayBuild, TearsDown
  <2> QED
    BY <1>1, <2>1, <2>2, <2>3, <2>4, RuntimeIs DEF Moved, Setting, Attaching, MayBuild, TearsDown
<1>18. ASSUME NEW k \in Clients, Routes(k) PROVE RuntimeInv'
  <2>1. PICK pc \in {"idle"} : Moved(k, pc)
    BY <1>18, ThreadMoves
  <2>2. cmd[k].pc = "route"
    BY <1>18, ThreadMoves
  <2>3. /\ status' = status /\ bus' = bus /\ (overlap' <=> overlap)
        /\ reg' = cmd[k].router
    BY <1>18 DEF Routes, missionRow
  <2>4. /\ ~overlap => bus = cmd[k].router /\ status = "running"
        /\ ~overlap => \A j \in Clients \ {k} : cmd[j].pc \notin Setting \cup TearsDown
    BY <2>2, RuntimeIs DEF Setting, Attaching, MayBuild, TearsDown
  <2> QED
    BY <1>1, <2>1, <2>2, <2>3, <2>4, RuntimeIs DEF Moved, Setting, Attaching, MayBuild, TearsDown
<1>19. ASSUME NEW k \in Clients, Unmounts(k) PROVE RuntimeInv'
  <2>1. PICK pc \in {"unroute"} : Moved(k, pc)
    BY <1>19, ThreadMoves
  <2>2. cmd[k].pc = "unmount"
    BY <1>19, ThreadMoves
  <2>3. status' = status /\ bus' = 0 /\ reg' = reg /\ (overlap' <=> overlap)
    BY <1>19 DEF Unmounts, missionRow
  <2>4. /\ status \notin {"running", "none"}
        /\ ~overlap => \A j \in Clients : cmd[j].pc \notin MayBuild \cup {"build"}
    BY <2>2, RuntimeIs DEF Setting, Attaching, MayBuild, TearsDown
  <2> QED
    BY <1>1, <2>1, <2>2, <2>3, <2>4, RuntimeIs DEF Moved, Setting, Attaching, MayBuild, TearsDown
<1>20. ASSUME NEW k \in Clients, Unroutes(k) PROVE RuntimeInv'
  <2>1. PICK pc \in {"idle"} : Moved(k, pc)
    BY <1>20, ThreadMoves
  <2>2. cmd[k].pc = "unroute"
    BY <1>20, ThreadMoves
  <2>3. status' = status /\ bus' = bus /\ reg' = 0 /\ (overlap' <=> overlap)
    BY <1>20 DEF Unroutes, missionRow
  <2>4. /\ status \notin {"running", "none"}
        /\ ~overlap => \A j \in Clients : cmd[j].pc \notin MayBuild \cup {"build"}
    BY <2>2, RuntimeIs DEF Setting, Attaching, MayBuild, TearsDown
  <2> QED
    BY <1>1, <2>1, <2>2, <2>3, <2>4, RuntimeIs DEF Moved, Setting, Attaching, MayBuild, TearsDown
<1>21. ASSUME NEW k \in Clients, StopCommits(k) PROVE RuntimeInv'
  <2>1. PICK pc \in {"unmount", "idle"} : Moved(k, pc)
    BY <1>21, ThreadMoves
  <2>2. cmd[k].pc = "commit"
    BY <1>21, ThreadMoves
  <2>3. CASE status' = status /\ (overlap' <=> overlap) /\ pc = "idle"
    <3>1. bus' = bus /\ reg' = reg
      BY <1>21 DEF StopCommits, runtime
    <3> QED
      BY <2>1, <2>2, <2>3, <3>1, RuntimeKept DEF Moved, Setting, Attaching, MayBuild, TearsDown
  <2>4. CASE /\ status' = (IF status = "running" THEN "completed" ELSE status) /\ pc = "unmount"
             /\ overlap' = (overlap \/ LeavesBehind(k))
    <3>1. bus' = bus /\ reg' = reg
      BY <1>21 DEF StopCommits, runtime
    <3>2. status' \in {"completed", "aborted"}
      BY <1>2, <2>2, <2>4 DEF Listed
    <3>3. ~overlap' => /\ ~overlap
                       /\ \A j \in Clients \ {k} : cmd[j].pc \notin MayBuild \cup {"build"}
      BY <1>3, <2>4
    <3> QED
      BY <2>1, <2>2, <2>4, <3>1, <3>2, <3>3, RuntimeIs
         DEF Moved, Setting, Attaching, MayBuild, TearsDown
  <2>5. CASE EndsCall(k) /\ UNCHANGED <<missionRow, overlap, ghost>>
    BY <1>1, <2>1, <2>3, <2>5, NoCmdTyped DEF EndsCall, Moved, missionRow
  <2>6. CASE /\ status' = (IF status = "running" THEN "completed" ELSE status) /\ GoTo(k, "unmount")
             /\ overlap' = (overlap \/ LeavesBehind(k))
    <3>1. pc = "unmount"
      BY <1>1, <2>1, <2>6 DEF GoTo, Moved, Cmds
    <3> QED
      BY <2>4, <2>6, <3>1
  <2> QED
    BY <1>21, <2>5, <2>6 DEF StopCommits
<1>22. ASSUME NEW k \in Clients, DeleteArchived(k) PROVE RuntimeInv'
  <2>1. PICK pc \in {"idle"} : Moved(k, pc)
    BY <1>22, ThreadMoves
  <2>2. cmd[k].pc = "idle"
    BY <1>22, ThreadMoves
  <2>3. /\ status' = "deleted" /\ bus' = bus /\ reg' = reg /\ (overlap' <=> overlap)
        /\ status # "running"
    BY <1>2, <1>22 DEF DeleteArchived, runtime
  <2>4. ~overlap => \A j \in Clients : cmd[j].pc \notin MayBuild \cup {"build"}
    BY <2>3, RuntimeIs
  <2> QED
    BY <1>1, <2>1, <2>2, <2>3, <2>4, RuntimeIs DEF Moved, Setting, Attaching, MayBuild, TearsDown
<1>23. ASSUME ListWithRepair PROVE RuntimeInv'
  BY <1>23, RuntimeKept DEF ListWithRepair, runtime
<1>24. ASSUME Reopens PROVE RuntimeInv'
  <2>1. \A j \in Clients : cmd'[j].pc = "idle"
    BY <1>24, NoCmdTyped DEF Reopens
  <2>2. /\ status' = status /\ status # "none" /\ bus' = reg'
        /\ status # "running" => bus' = 0
    BY <1>24 DEF Reopens, missionRow
  <2> QED
    BY <2>1, <2>2, RuntimeIs DEF Setting, Attaching, MayBuild, TearsDown
<1> QED
  BY <1>4, <1>5, <1>6, <1>7, <1>8, <1>9, <1>10, <1>11, <1>12, <1>13, <1>14, <1>15, <1>16,
     <1>17, <1>18, <1>19, <1>20, <1>21, <1>22, <1>23, <1>24
     DEF MissionNext

-----------------------------------------------------------------------------
(* The theorems.                                                            *)

\* The invariant by its parts.
LEMMA MissionParts ==
    /\ MissionInv <=> MissionTypeOK /\ Accounted /\ Shown /\ RuntimeInv
    /\ MissionInv' <=> MissionTypeOK' /\ Accounted' /\ Shown' /\ RuntimeInv'
  BY DEF MissionInv, Accounted, Shown

\* The invariant holds of every behaviour: whatever threads start, attach, archive,
\* sweep, restore and delete the mission, and wherever the app ends.
THEOREM MissionInvariance == MissionSpec => []MissionInv
<1>1. MissionInit => MissionInv
  BY MissionStarts
<1>2. MissionInv /\ [MissionNext]_missionVars => MissionInv'
  <2> SUFFICES ASSUME MissionInv, [MissionNext]_missionVars PROVE MissionInv'
    OBVIOUS
  <2>1. CASE MissionNext
    BY <2>1, MissionParts, MissionTypes, MissionAccounts, MissionIsShown, MissionRuntime
  <2>2. CASE UNCHANGED missionVars
    <3>1. UNCHANGED <<stops, writer, cmd, spent, torn>> /\ UNCHANGED <<bus, reg, built>>
      BY <2>2 DEF missionVars, runtime
    <3>2. UNCHANGED <<status, archived, node>>
      BY <2>2 DEF missionVars, missionRow
    <3>3. (overlap' <=> overlap) /\ (ghost' <=> ghost) /\ overlap' = overlap /\ ghost' = ghost
      BY <2>2 DEF missionVars
    <3>4. MissionTypeOK'
      <4>1. MissionTypeOK
        BY MissionParts
      <4> QED
        BY <3>1, <3>2, <3>3, <4>1 DEF MissionTypeOK, At
    <3>5. Accounted' /\ Shown' /\ RuntimeInv'
      <4>1. Listed' <=> Listed
        BY <3>2 DEF Listed
      <4> QED
        BY <3>1, <3>2, <3>3, <4>1, MissionParts, AccountKept, ShownKept, RuntimeKept
    <3> QED
      BY <3>4, <3>5, MissionParts
  <2> QED
    BY <2>1, <2>2
<1> QED
  BY <1>1, <1>2, PTL DEF MissionSpec

\* One thread at a time holds the transaction of `stop`.
THEOREM MissionIsTyped == MissionSpec => []MissionTypeOK
<1>1. MissionInv => MissionTypeOK
  BY DEF MissionInv
<1> QED
  BY <1>1, MissionInvariance, PTL

\* One mission_stopped per stopped mission, however many archives, sweeps and
\* restores run at once, but for those whose transaction was lost.
THEOREM MissionStopsOnce == MissionSpec => []OneTerminalEvent
<1>1. MissionInv => OneTerminalEvent
  BY DEF MissionInv
<1> QED
  BY <1>1, MissionInvariance, PTL

\* The two registries agree with each other and with the row whenever no thread is
\* at them and no two were at once.
THEOREM RuntimeFollowsTheRow == MissionSpec => []RuntimeIsTheMissions
<1>1. MissionInv => RuntimeIsTheMissions
  BY DEF MissionInv, RuntimeInv, RuntimeIsTheMissions, RuntimeSettled, Setting, At
<1> QED
  BY <1>1, MissionInvariance, PTL

\* The sidebar tree shows the mission exactly while it is listed, but for an
\* unarchive that is about to show it or was overtaken.
THEOREM TreeFollowsTheRow == MissionSpec => []TreeShowsTheMission
<1>1. MissionInv => TreeShowsTheMission
  BY DEF MissionInv
<1> QED
  BY <1>1, MissionInvariance, PTL

(***************************************************************************)
(* Attention.                                                              *)
(***************************************************************************)

\* A check that saw its tab out of view writes a dot only while the UI thread has
\* yet to mark what came into view after it looked.
DotInv ==
    /\ NoDotInView
    /\ \A s \in Sessions : check[s] = "write" /\ ~viewed[s] /\ Displayed(tabOf[s])
                            => tabOf[s] \in TabsOf(marking)

\* A turn that runs is armed, unless a check took its arm.
TurnInv ==
    /\ TurnsAreAnnounced
    /\ \A s \in Sessions \ lost : turn[s] = "running" => s \in armed

AttentionInv == AttentionTypeOK /\ DotInv /\ TurnInv

-----------------------------------------------------------------------------
(* Types.                                                                  *)

\* Types but for the checks.
AttentionRest ==
    /\ tabOf \in [Sessions -> Tabs]
    /\ activity \in [Sessions -> {"busy", "idle", "none"}]
    /\ armed \subseteq Sessions /\ lost \subseteq Sessions /\ marking \subseteq Sessions
    /\ stamp \in {"none", "taken", "older"}
    /\ focused \subseteq Windows /\ shows \in [Windows -> SUBSET Sessions]
    /\ dots \subseteq Tabs /\ missedMarks \subseteq Tabs
    /\ turns \in 0 .. MaxTurns
    /\ turn \in [Sessions -> {"none", "running", "done"}]

Phases == {"read", "take", "look", "write"}
Checking ==
    /\ check \in [Sessions -> {"none", "wait", "read", "take", "look", "write"}]
    /\ viewed \in [Sessions -> BOOLEAN]
    /\ committing \in Sessions \cup {NoOne}
    /\ \A s \in Sessions : check[s] \in Phases <=> committing = s

\* The types, taken apart: the checks, and the rest.
LEMMA DotTypeParts ==
    /\ AttentionTypeOK <=> AttentionRest /\ Checking
    /\ AttentionTypeOK' <=> AttentionRest' /\ Checking'
  BY DEF AttentionTypeOK, AttentionRest, Checking, Phases

\* Every step keeps the types.
LEMMA AttentionTypes ==
    ASSUME AttentionTypeOK, AttentionNext PROVE AttentionTypeOK'
<1>1. AttentionRest /\ Checking /\ NoOne \notin Sessions
  BY DotTypeParts, AttentionAssumption DEF AttentionAssumption
<1>2. \A S \in SUBSET Sessions : TabsOf(S) \subseteq Tabs
  BY <1>1 DEF AttentionRest, TabsOf
<1>3. Counted => turns' \in 0 .. MaxTurns
  BY <1>1, AttentionAssumption DEF AttentionAssumption, AttentionRest, Counted
<1>4. \A t : Members(t) \subseteq Sessions
  BY DEF Members
<1>5. \A s \in Sessions : NewTurn(s) => /\ armed' \subseteq Sessions /\ lost' \subseteq Sessions
                                        /\ turn' \in [Sessions -> {"none", "running", "done"}]
  BY <1>1 DEF AttentionRest, NewTurn
<1>6. ASSUME NEW s \in Sessions, Spawn(s) PROVE AttentionTypeOK'
  <2>1. AttentionRest'
    BY <1>1, <1>2, <1>3, <1>4, <1>5, <1>6
       DEF AttentionRest, Spawn, Siblings, Done, UIStep, Visible, sessionState, checkState,
           windowState
  <2>2. Checking'
    BY <1>1, <1>6 DEF Checking, Phases, Spawn, Ends, UIStep, sessionState, checkState, windowState
  <2> QED
    BY <2>1, <2>2, DotTypeParts
<1>7. ASSUME NEW s \in Sessions, Submit(s) PROVE AttentionTypeOK'
  <2>1. AttentionRest'
    BY <1>1, <1>2, <1>3, <1>4, <1>5, <1>7
       DEF AttentionRest, Submit, Siblings, Done, UIStep, Visible, sessionState, checkState,
           windowState
  <2>2. Checking'
    BY <1>1, <1>7 DEF Checking, Phases, Submit, Ends, UIStep, sessionState, checkState, windowState
  <2> QED
    BY <2>1, <2>2, DotTypeParts
<1>8. ASSUME NEW s \in Sessions, AgentBusy(s) PROVE AttentionTypeOK'
  <2>1. AttentionRest'
    BY <1>1, <1>2, <1>3, <1>4, <1>5, <1>8
       DEF AttentionRest, AgentBusy, Siblings, Done, UIStep, Visible, sessionState, checkState,
           windowState
  <2>2. Checking'
    BY <1>1, <1>8
       DEF Checking, Phases, AgentBusy, Ends, UIStep, sessionState, checkState, windowState
  <2> QED
    BY <2>1, <2>2, DotTypeParts
<1>9. ASSUME NEW s \in Sessions, AgentIdle(s) PROVE AttentionTypeOK'
  <2>1. AttentionRest'
    BY <1>1, <1>2, <1>3, <1>4, <1>5, <1>9
       DEF AttentionRest, AgentIdle, Siblings, Done, UIStep, Visible, sessionState, checkState,
           windowState
  <2>2. Checking'
    BY <1>1, <1>9
       DEF Checking, Phases, AgentIdle, Ends, UIStep, sessionState, checkState, windowState
  <2> QED
    BY <2>1, <2>2, DotTypeParts
<1>10. ASSUME NEW s \in Sessions, Exit(s) PROVE AttentionTypeOK'
  <2>1. AttentionRest'
    BY <1>1, <1>2, <1>3, <1>4, <1>5, <1>10
       DEF AttentionRest, Exit, Siblings, Done, UIStep, Visible, sessionState, checkState,
           windowState
  <2>2. Checking'
    BY <1>1, <1>10 DEF Checking, Phases, Exit, Ends, UIStep, sessionState, checkState, windowState
  <2> QED
    BY <2>1, <2>2, DotTypeParts
<1>11. ASSUME NEW s \in Sessions, CheckBegins(s) PROVE AttentionTypeOK'
  <2>1. AttentionRest'
    BY <1>1, <1>2, <1>3, <1>4, <1>5, <1>11
       DEF AttentionRest, CheckBegins, Siblings, Done, UIStep, Visible, sessionState, checkState,
           windowState
  <2>2. Checking'
    BY <1>1, <1>11
       DEF Checking, Phases, CheckBegins, Ends, UIStep, sessionState, checkState, windowState
  <2> QED
    BY <2>1, <2>2, DotTypeParts
<1>12. ASSUME NEW s \in Sessions, CheckReads(s) PROVE AttentionTypeOK'
  <2>1. AttentionRest'
    BY <1>1, <1>2, <1>3, <1>4, <1>5, <1>12
       DEF AttentionRest, CheckReads, Siblings, Done, UIStep, Visible, sessionState, checkState,
           windowState
  <2>2. Checking'
    BY <1>1, <1>12
       DEF Checking, Phases, CheckReads, Ends, UIStep, sessionState, checkState, windowState
  <2> QED
    BY <2>1, <2>2, DotTypeParts
<1>13. ASSUME NEW s \in Sessions, CheckTakes(s) PROVE AttentionTypeOK'
  <2>1. AttentionRest'
    BY <1>1, <1>2, <1>3, <1>4, <1>5, <1>13
       DEF AttentionRest, CheckTakes, Siblings, Done, UIStep, Visible, sessionState, checkState,
           windowState
  <2>2. Checking'
    BY <1>1, <1>13
       DEF Checking, Phases, CheckTakes, Ends, UIStep, sessionState, checkState, windowState
  <2> QED
    BY <2>1, <2>2, DotTypeParts
<1>14. ASSUME NEW s \in Sessions, CheckLooks(s) PROVE AttentionTypeOK'
  <2>1. AttentionRest'
    BY <1>1, <1>2, <1>3, <1>4, <1>5, <1>14
       DEF AttentionRest, CheckLooks, Siblings, Done, UIStep, Visible, sessionState, checkState,
           windowState
  <2>2. Checking'
    <3>1. Displayed(tabOf[s]) \in BOOLEAN
      BY DEF Displayed
    <3> DEFINE d == Displayed(tabOf[s])
    <3>2. viewed' = [viewed EXCEPT ![s] = d]
      BY <1>14 DEF CheckLooks
    <3> HIDE DEF d
    <3>3. viewed' \in [Sessions -> BOOLEAN]
      BY <1>1, <3>1, <3>2 DEF Checking, d
    <3> QED
      BY <1>1, <1>14, <3>3 DEF Checking, Phases, CheckLooks
  <2> QED
    BY <2>1, <2>2, DotTypeParts
<1>15. ASSUME NEW s \in Sessions, CheckWrites(s) PROVE AttentionTypeOK'
  <2>1. AttentionRest'
    BY <1>1, <1>2, <1>3, <1>4, <1>5, <1>15
       DEF AttentionRest, CheckWrites, Siblings, Done, UIStep, Visible, sessionState, checkState,
           windowState
  <2>2. Checking'
    BY <1>1, <1>15
       DEF Checking, Phases, CheckWrites, Ends, UIStep, sessionState, checkState, windowState
  <2> QED
    BY <2>1, <2>2, DotTypeParts
<1>16. ASSUME NEW w \in Windows, ReportSubjects(w) PROVE AttentionTypeOK'
  <2>1. AttentionRest'
    BY <1>1, <1>2, <1>3, <1>4, <1>5, <1>16
       DEF AttentionRest, ReportSubjects, Siblings, Done, UIStep, Visible, sessionState,
           checkState, windowState
  <2>2. Checking'
    BY <1>1, <1>16
       DEF Checking, Phases, ReportSubjects, Ends, UIStep, sessionState, checkState, windowState
  <2> QED
    BY <2>1, <2>2, DotTypeParts
<1>17. ASSUME NEW w \in Windows, MarkFocused(w) PROVE AttentionTypeOK'
  <2>1. AttentionRest'
    BY <1>1, <1>2, <1>3, <1>4, <1>5, <1>17
       DEF AttentionRest, MarkFocused, Siblings, Done, UIStep, Visible, sessionState, checkState,
           windowState
  <2>2. Checking'
    BY <1>1, <1>17
       DEF Checking, Phases, MarkFocused, Ends, UIStep, sessionState, checkState, windowState
  <2> QED
    BY <2>1, <2>2, DotTypeParts
<1>18. ASSUME NEW w \in Windows, MarkBlurred(w) PROVE AttentionTypeOK'
  <2>1. AttentionRest'
    BY <1>1, <1>2, <1>3, <1>4, <1>5, <1>18
       DEF AttentionRest, MarkBlurred, Siblings, Done, UIStep, Visible, sessionState, checkState,
           windowState
  <2>2. Checking'
    BY <1>1, <1>18
       DEF Checking, Phases, MarkBlurred, Ends, UIStep, sessionState, checkState, windowState
  <2> QED
    BY <2>1, <2>2, DotTypeParts
<1>19. ASSUME NEW w \in Windows, NodeMarkViewed(w) PROVE AttentionTypeOK'
  <2>1. AttentionRest'
    BY <1>1, <1>2, <1>3, <1>4, <1>5, <1>19
       DEF AttentionRest, NodeMarkViewed, Siblings, Done, UIStep, Visible, sessionState,
           checkState, windowState
  <2>2. Checking'
    BY <1>1, <1>19
       DEF Checking, Phases, NodeMarkViewed, Ends, UIStep, sessionState, checkState, windowState
  <2> QED
    BY <2>1, <2>2, DotTypeParts
<1>20. ASSUME MarkDirectSessionsViewed PROVE AttentionTypeOK'
  <2>1. AttentionRest'
    BY <1>1, <1>2, <1>3, <1>4, <1>5, <1>20
       DEF AttentionRest, MarkDirectSessionsViewed, Siblings, Done, UIStep, Visible,
           sessionState, checkState, windowState
  <2>2. Checking'
    BY <1>1, <1>20
       DEF Checking, Phases, MarkDirectSessionsViewed, Ends, UIStep, sessionState, checkState,
           windowState
  <2> QED
    BY <2>1, <2>2, DotTypeParts
<1>21. ASSUME NodeIsMarked PROVE AttentionTypeOK'
  <2>1. AttentionRest'
    BY <1>1, <1>2, <1>3, <1>4, <1>5, <1>21
       DEF AttentionRest, NodeIsMarked, Siblings, Done, UIStep, Visible, sessionState,
           checkState, windowState
  <2>2. Checking'
    BY <1>1, <1>21
       DEF Checking, Phases, NodeIsMarked, Ends, UIStep, sessionState, checkState, windowState
  <2> QED
    BY <2>1, <2>2, DotTypeParts
<1> QED
  BY <1>6, <1>7, <1>8, <1>9, <1>10, <1>11, <1>12, <1>13, <1>14, <1>15, <1>16, <1>17, <1>18,
     <1>19, <1>20, <1>21
     DEF AttentionNext

-----------------------------------------------------------------------------
(* The dots.                                                               *)

\* The invariant holds before any session runs.
LEMMA AttentionStarts == AttentionInit => AttentionInv
<1> SUFFICES ASSUME AttentionInit PROVE AttentionInv
  OBVIOUS
<1>1. AttentionTypeOK
  BY AttentionAssumption DEF AttentionInit, AttentionTypeOK, AttentionAssumption
<1>2. DotInv /\ TurnInv
  BY DEF AttentionInit, DotInv, TurnInv, NoDotInView, TurnsAreAnnounced
<1> QED
  BY <1>1, <1>2 DEF AttentionInv

\* What DotInv says, for a state and for the next.
LEMMA DotIs ==
    /\ DotInv <=>
        /\ \A t \in dots : t \notin missedMarks /\ Displayed(t) => t \in TabsOf(marking)
        /\ \A s \in Sessions : check[s] = "write" /\ ~viewed[s] /\ Displayed(tabOf[s])
                                => tabOf[s] \in TabsOf(marking)
    /\ DotInv' <=>
        /\ \A t \in dots' : t \notin missedMarks' /\ Displayed(t)' => t \in TabsOf(marking)'
        /\ \A s \in Sessions : check'[s] = "write" /\ ~viewed'[s] /\ Displayed(tabOf[s])'
                                => tabOf'[s] \in TabsOf(marking)'
  BY DEF DotInv, NoDotInView

\* What is in view depends on tabs and windows alone.
LEMMA DisplayedKept ==
    ASSUME tabOf' = tabOf, focused' = focused, shows' = shows
    PROVE  \A t : Displayed(t)' <=> Displayed(t)
  BY DEF Displayed, Members

\* A step that no check looks or writes in, and the UI thread takes no part in.
LEMMA DotKept ==
    ASSUME DotInv, UNCHANGED <<tabOf, windowState, dots, missedMarks, viewed>>,
           \A m \in Sessions : check'[m] = "write" => check[m] = "write"
    PROVE  DotInv'
<1>1. \A t : Displayed(t)' <=> Displayed(t)
  BY DisplayedKept DEF windowState
<1>2. TabsOf(marking)' = TabsOf(marking)
  BY DEF TabsOf, windowState
<1> QED
  BY <1>1, <1>2, DotIs

\* What comes into view when window w changes is about to be marked.
LEMMA ComesIntoView ==
    ASSUME tabOf' = tabOf, NEW w \in Windows, marking' = Visible(w),
           \A v \in Windows \ {w} : v \in focused' => v \in focused /\ shows'[v] = shows[v],
           focused' \subseteq Windows, NEW t, Displayed(t)'
    PROVE  Displayed(t) \/ t \in TabsOf(marking)'
<1>1. PICK v \in focused' : shows'[v] \cap Members(t) # {}
  BY DEF Displayed, Members
<1>2. CASE v = w
  BY <1>1, <1>2 DEF Visible, TabsOf, Members
<1>3. CASE v # w
  BY <1>1, <1>3 DEF Displayed
<1> QED
  BY <1>2, <1>3

\* Every step keeps the dots out of view.
LEMMA AttentionDots ==
    ASSUME AttentionTypeOK, AttentionTypeOK', DotInv, AttentionNext PROVE DotInv'
<1>1. AttentionRest /\ Checking /\ AttentionRest' /\ Checking' /\ NoOne \notin Sessions
  BY DotTypeParts, AttentionAssumption DEF AttentionAssumption
<1>2. committing = NoOne => \A s \in Sessions : check[s] # "write"
  BY <1>1 DEF Checking, Phases
<1>3. \A s \in Sessions : check[s] \in Phases => \A m \in Sessions \ {s} : check[m] \notin Phases
  BY <1>1 DEF Checking
<1>4. ASSUME NEW s \in Sessions, Spawn(s) PROVE DotInv'
  BY <1>1, <1>4, DotKept DEF Checking, Spawn, Ends, checkState, windowState
<1>5. ASSUME NEW s \in Sessions, Submit(s) PROVE DotInv'
  BY <1>1, <1>5, DotKept DEF Checking, Submit, Ends, checkState, windowState
<1>6. ASSUME NEW s \in Sessions, AgentBusy(s) PROVE DotInv'
  BY <1>1, <1>6, DotKept DEF Checking, AgentBusy, Ends, checkState, windowState
<1>7. ASSUME NEW s \in Sessions, AgentIdle(s) PROVE DotInv'
  BY <1>1, <1>7, DotKept DEF Checking, AgentIdle, Ends, checkState, windowState
<1>8. ASSUME NEW s \in Sessions, Exit(s) PROVE DotInv'
  BY <1>1, <1>8, DotKept DEF Checking, Exit, Ends, checkState, windowState
<1>9. ASSUME NEW s \in Sessions, CheckBegins(s) PROVE DotInv'
  BY <1>1, <1>9, DotKept DEF Checking, CheckBegins, Ends, checkState, windowState
<1>10. ASSUME NEW s \in Sessions, CheckReads(s) PROVE DotInv'
  BY <1>1, <1>10, DotKept DEF Checking, CheckReads, Ends, checkState, windowState
<1>11. ASSUME NEW s \in Sessions, CheckTakes(s) PROVE DotInv'
  BY <1>1, <1>11, DotKept DEF Checking, CheckTakes, Ends, checkState, windowState
<1>12. ASSUME NEW s \in Sessions, CheckLooks(s) PROVE DotInv'
  <2>1. /\ \A t : Displayed(t)' <=> Displayed(t)
        /\ TabsOf(marking)' = TabsOf(marking) /\ dots' = dots /\ missedMarks' = missedMarks
        /\ tabOf' = tabOf
    BY <1>12, DisplayedKept DEF CheckLooks, windowState, TabsOf
  <2>2. \A m \in Sessions \ {s} : check'[m] = check[m] /\ viewed'[m] = viewed[m]
    BY <1>1, <1>12 DEF CheckLooks, Checking
  <2>3. viewed'[s] <=> Displayed(tabOf[s])
    <3> DEFINE d == Displayed(tabOf[s])
    <3>1. viewed' = [viewed EXCEPT ![s] = d]
      BY <1>12 DEF CheckLooks
    <3> HIDE DEF d
    <3>2. viewed'[s] = d
      BY <1>1, <3>1 DEF Checking
    <3> QED
      BY <3>2 DEF d
  <2> QED
    BY <2>1, <2>2, <2>3, DotIs
<1>13. ASSUME NEW s \in Sessions, CheckWrites(s) PROVE DotInv'
  <2>1. /\ \A t : Displayed(t)' <=> Displayed(t)
        /\ TabsOf(marking)' = TabsOf(marking) /\ tabOf' = tabOf
    BY <1>13, DisplayedKept DEF CheckWrites, TabsOf
  <2>2. \A m \in Sessions : check'[m] # "write"
    BY <1>1, <1>3, <1>13 DEF CheckWrites, Checking, Ends, Phases
  <2>3. /\ check[s] = "write"
        /\ \/ dots' = (IF viewed[s] THEN dots \ {tabOf[s]} ELSE dots \cup {tabOf[s]})
              /\ missedMarks' = missedMarks \ {tabOf[s]}
           \/ dots' = dots /\ missedMarks' = missedMarks
    BY <1>13 DEF CheckWrites
  <2>4. \A t \in dots' : \/ t \in dots /\ (t \in missedMarks => t \in missedMarks')
                         \/ t = tabOf[s] /\ ~viewed[s]
    BY <2>3
  <2> QED
    BY <2>1, <2>2, <2>3, <2>4, DotIs
<1>14. ASSUME NEW w \in Windows, ReportSubjects(w) PROVE DotInv'
  <2>1. /\ marking = {} /\ dots' = dots /\ missedMarks' = missedMarks /\ tabOf' = tabOf
        /\ check' = check /\ viewed' = viewed
    BY <1>14 DEF ReportSubjects, UIStep, checkState
  <2>2. /\ marking' = Visible(w) /\ focused' \subseteq Windows
        /\ \A v \in Windows \ {w} : v \in focused' => v \in focused /\ shows'[v] = shows[v]
    BY <1>1, <1>14 DEF ReportSubjects, AttentionRest
  <2>3. \A t : Displayed(t)' => Displayed(t) \/ t \in TabsOf(marking)'
    BY <2>1, <2>2, ComesIntoView
  <2>4. TabsOf(marking) = {}
    BY <2>1 DEF TabsOf
  <2> QED
    BY <2>1, <2>3, <2>4, DotIs
<1>15. ASSUME NEW w \in Windows, MarkFocused(w) PROVE DotInv'
  <2>1. /\ marking = {} /\ dots' = dots /\ missedMarks' = missedMarks /\ tabOf' = tabOf
        /\ check' = check /\ viewed' = viewed
    BY <1>15 DEF MarkFocused, UIStep, checkState
  <2>2. /\ marking' = Visible(w) /\ focused' \subseteq Windows
        /\ \A v \in Windows \ {w} : v \in focused' => v \in focused /\ shows'[v] = shows[v]
    BY <1>1, <1>15 DEF MarkFocused, AttentionRest
  <2>3. \A t : Displayed(t)' => Displayed(t) \/ t \in TabsOf(marking)'
    BY <2>1, <2>2, ComesIntoView
  <2>4. TabsOf(marking) = {}
    BY <2>1 DEF TabsOf
  <2> QED
    BY <2>1, <2>3, <2>4, DotIs
<1>16. ASSUME NEW w \in Windows, NodeMarkViewed(w) PROVE DotInv'
  <2>1. /\ marking = {} /\ dots' = dots /\ missedMarks' = missedMarks /\ tabOf' = tabOf
        /\ check' = check /\ viewed' = viewed
    BY <1>16 DEF NodeMarkViewed, UIStep, checkState
  <2>2. /\ marking' = Visible(w) /\ focused' \subseteq Windows
        /\ \A v \in Windows \ {w} : v \in focused' => v \in focused /\ shows'[v] = shows[v]
    BY <1>1, <1>16 DEF NodeMarkViewed, AttentionRest
  <2>3. \A t : Displayed(t)' => Displayed(t) \/ t \in TabsOf(marking)'
    BY <2>1, <2>2, ComesIntoView
  <2>4. TabsOf(marking) = {}
    BY <2>1 DEF TabsOf
  <2> QED
    BY <2>1, <2>3, <2>4, DotIs
<1>17. ASSUME NEW w \in Windows, MarkBlurred(w) PROVE DotInv'
  <2>1. /\ marking' = marking /\ dots' = dots /\ missedMarks' = missedMarks /\ tabOf' = tabOf
        /\ check' = check /\ viewed' = viewed
    BY <1>17 DEF MarkBlurred, UIStep, checkState
  <2>2. \A t : Displayed(t)' => Displayed(t)
    BY <1>17, <2>1 DEF MarkBlurred, Displayed, Members
  <2>3. TabsOf(marking)' = TabsOf(marking)
    BY <2>1 DEF TabsOf
  <2> QED
    BY <2>1, <2>2, <2>3, DotIs
<1>18. ASSUME MarkDirectSessionsViewed PROVE DotInv'
  <2>1. /\ \A t : Displayed(t)' <=> Displayed(t)
        /\ committing = NoOne /\ check' = check
    BY <1>18, DisplayedKept DEF MarkDirectSessionsViewed, checkState
  <2>2. \/ dots' = dots \ TabsOf(marking) /\ missedMarks' = missedMarks \ TabsOf(marking)
        \/ dots' = dots /\ missedMarks' = missedMarks \cup TabsOf(marking)
    BY <1>18 DEF MarkDirectSessionsViewed
  <2> QED
    BY <1>2, <2>1, <2>2, DotIs
<1>19. ASSUME NodeIsMarked PROVE DotInv'
  <2>1. /\ \A t : Displayed(t)' <=> Displayed(t)
        /\ committing = NoOne /\ check' = check
    BY <1>19, DisplayedKept DEF NodeIsMarked, checkState
  <2>2. \/ dots' = dots \ TabsOf(marking) /\ missedMarks' = missedMarks \ TabsOf(marking)
        \/ dots' \subseteq dots \cup TabsOf(marking) /\ missedMarks' = missedMarks \cup TabsOf(marking)
    BY <1>19 DEF NodeIsMarked
  <2> QED
    BY <1>2, <2>1, <2>2, DotIs
<1> QED
  BY <1>4, <1>5, <1>6, <1>7, <1>8, <1>9, <1>10, <1>11, <1>12, <1>13, <1>14, <1>15, <1>16,
     <1>17, <1>18, <1>19
     DEF AttentionNext

-----------------------------------------------------------------------------
(* The turns.                                                              *)

\* A check under way in the session's tab, and an arm with a busy or checking sibling.
Announces(s)  == \E m \in Siblings(s) : check[m] \in {"look", "write"}
Awaited(s)    == \E m \in Siblings(s) : activity[m] = "busy" \/ check[m] \in {"wait", "read", "take"}

\* The fate of each turn, with its definitions expanded.
LEMMA TurnIs ==
    /\ TurnInv <=>
        \A s \in Sessions : s \notin lost =>
            /\ turn[s] = "running" => s \in armed
            /\ turn[s] = "done" => Announces(s) \/ (s \in armed /\ Awaited(s))
    /\ TurnInv' <=>
        \A s \in Sessions : s \notin lost' =>
            /\ turn'[s] = "running" => s \in armed'
            /\ turn'[s] = "done" => Announces(s)' \/ (s \in armed' /\ Awaited(s)')
  BY DEF TurnInv, TurnsAreAnnounced, WillAnnounce, Announces, Awaited

\* A step that takes no arm, ends no turn and no wait, and passes no check on.
LEMMA TurnKept ==
    ASSUME TurnInv, tabOf' = tabOf, lost \subseteq lost', armed \subseteq armed', turn' = turn,
           \A m \in Sessions : check[m] \in {"look", "write"} => check'[m] \in {"look", "write"},
           \A m \in Sessions : \/ activity[m] = "busy" \/ check[m] \in {"wait", "read", "take"}
                               => activity'[m] = "busy" \/ check'[m] \in {"wait", "read", "take"}
    PROVE  TurnInv'
<1>1. \A s \in Sessions : (Announces(s) => Announces(s)') /\ (Awaited(s) => Awaited(s)')
  BY DEF Announces, Awaited, Siblings, Members
<1> QED
  BY <1>1, TurnIs

\* Every step keeps the account of the turns.
LEMMA AttentionTurns ==
    ASSUME AttentionTypeOK, AttentionTypeOK', TurnInv, AttentionNext PROVE TurnInv'
<1>1. AttentionRest /\ Checking /\ AttentionRest' /\ Checking'
  BY DotTypeParts
<1>2. /\ tabOf' = tabOf
      /\ \A s \in Sessions : Siblings(s)' = Siblings(s) /\ s \in Siblings(s)
      /\ \A s \in Sessions : \A m \in Siblings(s) : m \in Sessions /\ Siblings(m) = Siblings(s)
  <2>1. tabOf' = tabOf
    BY DEF AttentionNext, Spawn, Submit, AgentBusy, AgentIdle, Exit, CheckBegins, CheckReads,
           CheckTakes, CheckLooks, CheckWrites, ReportSubjects, MarkFocused, MarkBlurred,
           NodeMarkViewed, MarkDirectSessionsViewed, NodeIsMarked, UIStep
  <2> QED
    BY <2>1 DEF Siblings, Members
<1>3. \A s \in Sessions : Done(Siblings(s)) = {m \in Siblings(s) : turn[m] = "done"}
  BY DEF Done
<1>4. ASSUME NEW s \in Sessions, Spawn(s) PROVE TurnInv'
  <2>1. TurnInv' \/ NewTurn(s)
    BY <1>1, <1>2, <1>4, TurnKept DEF Spawn, AttentionRest, checkState
  <2>2. ASSUME NewTurn(s) PROVE TurnInv'
    <3>1. check' = check /\ \A m \in Sessions : activity[m] = "busy" => activity'[m] = "busy"
      BY <1>1, <1>4 DEF Spawn, AttentionRest, checkState
    <3>2. \A m \in Sessions : (Announces(m) => Announces(m)') /\ (Awaited(m) => Awaited(m)')
      BY <1>2, <3>1 DEF Announces, Awaited
    <3>3. /\ s \in armed' /\ turn'[s] = "running"
          /\ \A m \in Sessions \ {s} : /\ m \in armed => m \in armed'
                                       /\ turn'[m] = turn[m] /\ (m \notin lost' => m \notin lost)
      BY <1>1, <2>2 DEF NewTurn, AttentionRest
    <3> QED
      BY <3>2, <3>3, TurnIs
  <2> QED
    BY <2>1, <2>2
<1>5. ASSUME NEW s \in Sessions, Submit(s) PROVE TurnInv'
  <2>1. TurnInv' \/ NewTurn(s)
    BY <1>1, <1>2, <1>5, TurnKept DEF Submit, AttentionRest, checkState
  <2>2. ASSUME NewTurn(s) PROVE TurnInv'
    <3>1. check' = check /\ \A m \in Sessions : activity[m] = "busy" => activity'[m] = "busy"
      BY <1>1, <1>5 DEF Submit, AttentionRest, checkState
    <3>2. \A m \in Sessions : (Announces(m) => Announces(m)') /\ (Awaited(m) => Awaited(m)')
      BY <1>2, <3>1 DEF Announces, Awaited
    <3>3. /\ s \in armed' /\ turn'[s] = "running"
          /\ \A m \in Sessions \ {s} : /\ m \in armed => m \in armed'
                                       /\ turn'[m] = turn[m] /\ (m \notin lost' => m \notin lost)
      BY <1>1, <2>2 DEF NewTurn, AttentionRest
    <3> QED
      BY <3>2, <3>3, TurnIs
  <2> QED
    BY <2>1, <2>2
<1>6. ASSUME NEW s \in Sessions, AgentBusy(s) PROVE TurnInv'
  BY <1>1, <1>2, <1>6, TurnKept DEF AgentBusy, AttentionRest, checkState
<1>7. ASSUME NEW s \in Sessions, AgentIdle(s) PROVE TurnInv'
  <2>1. /\ check[s] = "none" /\ check'[s] = "wait" /\ armed' = armed /\ lost' = lost
        /\ \A m \in Sessions \ {s} : /\ check'[m] = check[m] /\ activity'[m] = activity[m]
                                     /\ turn'[m] = turn[m]
    BY <1>1, <1>7 DEF AgentIdle, AttentionRest, Checking
  <2>2. turn'[s] = IF turn[s] = "running" THEN "done" ELSE turn[s]
    BY <1>1, <1>7 DEF AgentIdle, AttentionRest
  <2>3. \A m \in Sessions : (Announces(m) => Announces(m)') /\ (Awaited(m) => Awaited(m)')
    BY <1>2, <2>1 DEF Announces, Awaited
  <2>4. Awaited(s)'
    BY <1>2, <2>1 DEF Awaited
  <2> QED
    BY <2>1, <2>2, <2>3, <2>4, TurnIs
<1>8. ASSUME NEW s \in Sessions, Exit(s) PROVE TurnInv'
  <2>1. /\ check' = check /\ armed' = armed \ {s} /\ turn'[s] = "none"
        /\ \A m \in Sessions \ {s} : activity'[m] = activity[m] /\ turn'[m] = turn[m]
        /\ \A m \in Sessions \ {s} : m \notin lost' => m \notin lost
        /\ activity[s] = "busy" =>
              \A m \in Sessions \ {s} : m \in Siblings(s) /\ turn[m] = "done" => m \in lost'
    BY <1>1, <1>2, <1>3, <1>8 DEF Exit, AttentionRest, checkState
  <2>2. \A m \in Sessions : Announces(m) => Announces(m)'
    BY <1>2, <2>1 DEF Announces
  <2>3. \A m \in Sessions : m \notin Siblings(s) \/ activity[s] # "busy" => (Awaited(m) => Awaited(m)')
    BY <1>2, <2>1 DEF Awaited
  <2> QED
    BY <2>1, <2>2, <2>3, TurnIs
<1>9. ASSUME NEW s \in Sessions, CheckBegins(s) PROVE TurnInv'
  <2>1. CASE check' = [check EXCEPT ![s] = "read"] /\ UNCHANGED lost
    BY <1>1, <1>2, <1>9, <2>1, TurnKept DEF CheckBegins, AttentionRest, Checking, sessionState
  <2>2. CASE Ends(s) /\ lost' = lost \cup Done(Siblings(s))
    <3>1. /\ armed' = armed /\ turn' = turn /\ activity' = activity
          /\ \A m \in Sessions : m \notin lost' => m \notin lost /\ ~(m \in Siblings(s) /\ turn[m] = "done")
          /\ \A m \in Sessions \ {s} : check'[m] = check[m]
      BY <1>1, <1>2, <1>3, <1>9, <2>2 DEF CheckBegins, Ends, AttentionRest, Checking, sessionState
    <3>2. \A m \in Sessions : m \notin Siblings(s) =>
             (Announces(m) => Announces(m)') /\ (Awaited(m) => Awaited(m)')
      BY <1>2, <3>1 DEF Announces, Awaited
    <3> QED
      BY <3>1, <3>2, TurnIs
  <2> QED
    BY <1>9, <2>1, <2>2 DEF CheckBegins
<1>10. ASSUME NEW s \in Sessions, CheckReads(s) PROVE TurnInv'
  <2>1. CASE check' = [check EXCEPT ![s] = "take"]
    BY <1>1, <1>2, <1>10, <2>1, TurnKept DEF CheckReads, AttentionRest, Checking, sessionState
  <2>2. CASE Ends(s) /\ \E m \in Siblings(s) : activity[m] = "busy"
    <3>1. /\ armed' = armed /\ turn' = turn /\ activity' = activity /\ lost' = lost
          /\ check[s] = "read" /\ \A m \in Sessions \ {s} : check'[m] = check[m]
      BY <1>1, <1>10, <2>2 DEF CheckReads, Ends, Checking, sessionState
    <3>2. \A m \in Sessions : Announces(m) => Announces(m)'
      BY <1>2, <3>1 DEF Announces
    <3>3. \A m \in Sessions : Awaited(m) => Awaited(m)'
      BY <1>2, <2>2, <3>1 DEF Awaited
    <3> QED
      BY <3>1, <3>2, <3>3, TurnIs
  <2> QED
    BY <1>10, <2>1, <2>2 DEF CheckReads
<1>11. ASSUME NEW s \in Sessions, CheckTakes(s) PROVE TurnInv'
  <2>1. /\ check[s] = "take" /\ armed' = armed \ Siblings(s) /\ turn' = turn /\ activity' = activity
        /\ \A m \in Sessions \ {s} : check'[m] = check[m]
        /\ \A m \in Sessions : m \notin lost' =>
              m \notin lost /\ ~(m \in armed /\ m \in Siblings(s) /\ turn[m] = "running")
        /\ \/ check'[s] = "look"
           \/ \A m \in Siblings(s) : m \notin armed
    BY <1>1, <1>2, <1>11 DEF CheckTakes, Ends, Checking
  <2>2. \A m \in Sessions : Announces(m) => Announces(m)'
    BY <1>2, <2>1 DEF Announces
  <2>3. \A m \in Sessions : m \notin Siblings(s) => (Awaited(m) => Awaited(m)')
    BY <1>2, <2>1 DEF Awaited
  <2>4. check'[s] = "look" => \A m \in Siblings(s) : Announces(m)'
    BY <1>2 DEF Announces
  <2> QED
    BY <1>2, <2>1, <2>2, <2>3, <2>4, TurnIs
<1>12. ASSUME NEW s \in Sessions, CheckLooks(s) PROVE TurnInv'
  BY <1>1, <1>2, <1>12, TurnKept DEF CheckLooks, AttentionRest, Checking, sessionState
<1>13. ASSUME NEW s \in Sessions, CheckWrites(s) PROVE TurnInv'
  <2>1. CASE /\ turn' = [m \in Sessions |-> IF m \in Done(Siblings(s)) THEN "none" ELSE turn[m]]
             /\ lost' = lost \ Done(Siblings(s))
    <3>1. /\ armed' = armed /\ activity' = activity
          /\ \A m \in Sessions \ {s} : check'[m] = check[m]
          /\ \A m \in Sessions :
                \/ turn'[m] = "none"
                \/ /\ turn'[m] = turn[m] /\ (m \notin lost' => m \notin lost)
                   /\ ~(m \in Siblings(s) /\ turn[m] = "done")
      BY <1>1, <1>2, <1>3, <1>13, <2>1 DEF CheckWrites, Ends, Checking, sessionState
    <3>2. \A m \in Sessions : m \notin Siblings(s) =>
             (Announces(m) => Announces(m)') /\ (Awaited(m) => Awaited(m)')
      BY <1>2, <3>1 DEF Announces, Awaited
    <3> QED
      BY <3>1, <3>2, TurnIs
  <2>2. CASE turn' = turn /\ lost' = lost \cup Done(Siblings(s))
    <3>1. /\ armed' = armed /\ turn' = turn /\ activity' = activity
          /\ \A m \in Sessions : m \notin lost' => m \notin lost /\ ~(m \in Siblings(s) /\ turn[m] = "done")
          /\ \A m \in Sessions \ {s} : check'[m] = check[m]
      BY <1>1, <1>2, <1>3, <1>13, <2>2 DEF CheckWrites, Ends, AttentionRest, Checking, sessionState
    <3>2. \A m \in Sessions : m \notin Siblings(s) =>
             (Announces(m) => Announces(m)') /\ (Awaited(m) => Awaited(m)')
      BY <1>2, <3>1 DEF Announces, Awaited
    <3> QED
      BY <3>1, <3>2, TurnIs
  <2> QED
    BY <1>13, <2>1, <2>2 DEF CheckWrites
<1>14. ASSUME NEW w \in Windows, ReportSubjects(w) PROVE TurnInv'
  BY <1>2, <1>14, TurnKept DEF ReportSubjects, UIStep, sessionState, checkState
<1>15. ASSUME NEW w \in Windows, MarkFocused(w) PROVE TurnInv'
  BY <1>2, <1>15, TurnKept DEF MarkFocused, UIStep, sessionState, checkState
<1>16. ASSUME NEW w \in Windows, MarkBlurred(w) PROVE TurnInv'
  BY <1>2, <1>16, TurnKept DEF MarkBlurred, UIStep, sessionState, checkState
<1>17. ASSUME NEW w \in Windows, NodeMarkViewed(w) PROVE TurnInv'
  BY <1>2, <1>17, TurnKept DEF NodeMarkViewed, UIStep, sessionState, checkState
<1>18. ASSUME MarkDirectSessionsViewed PROVE TurnInv'
  BY <1>2, <1>18, TurnKept DEF MarkDirectSessionsViewed, sessionState, checkState
<1>19. ASSUME NodeIsMarked PROVE TurnInv'
  BY <1>2, <1>19, TurnKept DEF NodeIsMarked, sessionState, checkState
<1> QED
  BY <1>4, <1>5, <1>6, <1>7, <1>8, <1>9, <1>10, <1>11, <1>12, <1>13, <1>14, <1>15, <1>16,
     <1>17, <1>18, <1>19
     DEF AttentionNext

-----------------------------------------------------------------------------
(* The theorems.                                                           *)

\* The invariant holds however agents, checks, windows and the human interleave.
THEOREM AttentionInvariance == AttentionSpec => []AttentionInv
<1>1. AttentionInit => AttentionInv
  BY AttentionStarts
<1>2. AttentionInv /\ [AttentionNext]_attentionVars => AttentionInv'
  <2> SUFFICES ASSUME AttentionInv, [AttentionNext]_attentionVars PROVE AttentionInv'
    OBVIOUS
  <2>1. CASE AttentionNext
    BY <2>1, AttentionTypes, AttentionDots, AttentionTurns DEF AttentionInv
  <2>2. CASE UNCHANGED attentionVars
    <3>1. AttentionTypeOK'
      BY <2>2
         DEF attentionVars, sessionState, checkState, windowState, AttentionInv, AttentionTypeOK
    <3>2. DotInv' /\ TurnInv'
      BY <2>2, DotKept, TurnKept DEF attentionVars, sessionState, checkState, windowState,
         AttentionInv
    <3> QED
      BY <3>1, <3>2 DEF AttentionInv
  <2> QED
    BY <2>1, <2>2
<1> QED
  BY <1>1, <1>2, PTL DEF AttentionSpec

\* One check of a completion at a time is inside its transaction.
THEOREM AttentionIsTyped == AttentionSpec => []AttentionTypeOK
<1>1. AttentionInv => AttentionTypeOK
  BY DEF AttentionInv
<1> QED
  BY <1>1, AttentionInvariance, PTL

\* A tab in view has no unread dot, for any number of windows and sessions, but for
\* a mark that failed or was older than the completion.
THEOREM DotsAreOutOfView == AttentionSpec => []NoDotInView
<1>1. AttentionInv => NoDotInView
  BY DEF AttentionInv, DotInv
<1> QED
  BY <1>1, AttentionInvariance, PTL

\* A turn that is done is announced or will be, but for the three ways it is lost.
THEOREM DoneTurnsAreAnnounced == AttentionSpec => []TurnsAreAnnounced
<1>1. AttentionInv => TurnsAreAnnounced
  BY DEF AttentionInv, TurnInv
<1> QED
  BY <1>1, AttentionInvariance, PTL
=============================================================================
