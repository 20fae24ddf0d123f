-------------------------------- MODULE Crew --------------------------------
(***************************************************************************)
(* A crew's slots (crates/runner-backend/src/ops/slot.rs, runner.rs,       *)
(* crew.rs over repo/slot.rs): handles, order, the lead, and the engine    *)
(* and model each slot runs on.  The window and the MCP server call these  *)
(* operations at the same time on connections of one pool.  A transaction  *)
(* is atomic, but delete, set_lead, update and the runner's update read    *)
(* what they decide by before they open it, so they are two steps here.    *)
(*                                                                         *)
(* A model is named by the engine it was chosen for; the effort goes the   *)
(* same way and is left out.  Slot ids are ULIDs: none is used again.      *)
(***************************************************************************)
EXTENDS Naturals, FiniteSets, FiniteSetsExt

CONSTANTS
    SlotIds,   \* ids of the slots that are ever created
    Names,     \* slot handles
    Runners,   \* runner templates
    Engines,   \* agent runtimes
    Editors,   \* concurrent callers
    Inherit,   \* runtime_override or model_override is NULL
    Omit,      \* the patch does not name the field
    NewSlots,  \* engines and models that slots are created with
    Patches,   \* patches of slot::update: name, engine, model
    MaxEdits   \* bound: operations besides create

CrewAssumption ==
    /\ IsFiniteSet(SlotIds)
    /\ Inherit \notin Engines /\ Omit \notin Engines \cup {Inherit}
    /\ NewSlots \subseteq [engine : Engines \cup {Inherit},
                           model : {"chosen", "cleared"}]
    /\ Patches \subseteq [name : Names \cup {Omit},
                          engine : Engines \cup {Inherit, Omit},
                          model : {"chosen", "cleared", "kept"}]
    /\ Omit \notin Names /\ MaxEdits \in Nat
ASSUME CrewAssumption

VARIABLES
    crew,        \* the crew's row is there
    runtimes,    \* runner -> its runtime; the domain is the runners there are
    slots,       \* slot id -> row
    usedIds,     \* slot ids used so far
    moves,       \* operations begun, besides create
    calls,       \* editor -> the operation it is in, with what it has read
    staleLead,   \* history: a delete acted on a lead flag no longer true
    staleEngine  \* history: slots whose model was kept by an update or a runner's
                 \*   update that had read another engine
crewVars == <<crew, runtimes, slots, usedIds, moves, calls, staleLead, staleEngine>>

Row == [name : Names, runner : Runners, lead : BOOLEAN, position : Nat,
        engine : Engines \cup {Inherit}, model : Engines \cup {Inherit}]

Idle == [op |-> "none"]

Engine(row) ==
    IF row.engine = Inherit THEN runtimes[row.runner] ELSE row.engine

Taken(S) == {S[s].position : s \in DOMAIN S}
NextPosition == IF DOMAIN slots = {} THEN 0 ELSE Max(Taken(slots)) + 1

MutRepacked(S) == S

(* repack_positions: the survivors take 0, 1, 2, ... in their order. *)
Repacked(S) ==
    [s \in DOMAIN S |-> [S[s] EXCEPT !.position =
        Cardinality({t \in DOMAIN S : S[t].position < S[s].position})]]

(* The slots that a deletion leaves; when the lead went, the slot at the   *)
(* lowest position is promoted.                                            *)
Remaining(gone) == [s \in DOMAIN slots \ gone |-> slots[s]]

Promoted(S) ==
    [s \in DOMAIN S |->
        IF \A t \in DOMAIN S : S[s].position <= S[t].position
        THEN [S[s] EXCEPT !.lead = TRUE] ELSE S[s]]

Moving == moves < MaxEdits /\ moves' = moves + 1
Reading(e) == calls[e].op = "none" /\ Moving
Returned(e) == calls' = [calls EXCEPT ![e] = Idle]

-----------------------------------------------------------------------------
CrewInit ==
    /\ crew = TRUE
    /\ runtimes \in [Runners -> Engines]
    /\ slots = [s \in {} |-> {}]
    /\ usedIds = {}
    /\ moves = 0
    /\ calls = [e \in Editors |-> Idle]
    /\ staleLead = FALSE
    /\ staleEngine = {}

(* slot::create, checks and transaction in one: what is gone by the time   *)
(* of the insert is refused by its foreign key, a handle in use by UNIQUE. *)
Create(s, name, r, new) ==
    /\ crew /\ s \notin usedIds /\ r \in DOMAIN runtimes
    /\ \A t \in DOMAIN slots : slots[t].name # name
    /\ LET under == IF new.engine = Inherit THEN runtimes[r] ELSE new.engine
           row == [name |-> name, runner |-> r, engine |-> new.engine,
                   model |-> IF new.model = "chosen" THEN under ELSE Inherit,
                   lead |-> DOMAIN slots = {}, position |-> NextPosition]
       IN slots' = [t \in DOMAIN slots \cup {s} |->
                      IF t = s THEN row ELSE slots[t]]
    /\ usedIds' = usedIds \cup {s}
    /\ UNCHANGED <<crew, runtimes, moves, calls, staleLead, staleEngine>>

(* slot::delete reads the slot and its lead flag ... *)
DeleteReads(e, s) ==
    /\ Reading(e) /\ s \in DOMAIN slots
    /\ calls' = [calls EXCEPT ![e] =
                   [op |-> "delete", slot |-> s, wasLead |-> slots[s].lead]]
    /\ UNCHANGED <<crew, runtimes, slots, usedIds, staleLead, staleEngine>>

(* ... and acts on that flag in its transaction.                           *)
DeleteCommits(e) ==
    LET c == calls[e]
        rest == Remaining({c.slot})
    IN /\ c.op = "delete" /\ c.slot \in DOMAIN slots
       /\ slots' = Repacked(IF c.wasLead THEN Promoted(rest) ELSE rest)
       /\ staleLead' = /\ DOMAIN rest # {}
                       /\ staleLead \/ c.wasLead # slots[c.slot].lead
       /\ Returned(e)
       /\ UNCHANGED <<crew, runtimes, usedIds, moves, staleEngine>>

(* slot::set_lead returns at once when the slot leads already.             *)
SetLeadReads(e, s) ==
    /\ Reading(e) /\ s \in DOMAIN slots /\ ~slots[s].lead
    /\ calls' = [calls EXCEPT ![e] = [op |-> "setLead", slot |-> s]]
    /\ UNCHANGED <<crew, runtimes, slots, usedIds, staleLead, staleEngine>>

MutSetLeadCommits(e) ==
    LET c == calls[e]
    IN /\ c.op = "setLead" /\ c.slot \in DOMAIN slots
       /\ slots' = [slots EXCEPT ![c.slot].lead = TRUE]
       /\ staleLead' = FALSE
       /\ Returned(e)
       /\ UNCHANGED <<crew, runtimes, usedIds, moves, staleEngine>>

(* clear_crew_lead and promote_to_lead.                                    *)
SetLeadCommits(e) ==
    LET c == calls[e]
    IN /\ c.op = "setLead" /\ c.slot \in DOMAIN slots
       /\ slots' = [s \in DOMAIN slots |->
                      [slots[s] EXCEPT !.lead = s = c.slot]]
       /\ staleLead' = FALSE
       /\ Returned(e)
       /\ UNCHANGED <<crew, runtimes, usedIds, moves, staleEngine>>

(* slot::update reads the row, and the runtime of its runner.  The model   *)
(* of a patch is one for the engine the patch leaves the slot on.          *)
UpdateReads(e, s, patch) ==
    LET was   == slots[s]
        next  == IF patch.engine = Omit THEN was.engine ELSE patch.engine
        under == IF next = Inherit THEN runtimes[was.runner] ELSE next
    IN /\ Reading(e) /\ s \in DOMAIN slots
       /\ calls' = [calls EXCEPT ![e] =
            [op |-> "update", slot |-> s, read |-> was,
             runtime |-> runtimes[was.runner], engine |-> patch.engine,
             name |-> IF patch.name = Omit THEN was.name ELSE patch.name,
             model |-> CASE patch.model = "chosen"  -> under
                         [] patch.model = "cleared" -> Inherit
                         [] patch.model = "kept"    -> Omit]]
       /\ UNCHANGED <<crew, runtimes, slots, usedIds, staleLead, staleEngine>>

(* What the transaction of an update writes: the engine if it was named;   *)
(* the model if it was named, or the engine changed; the handle always.    *)
EngineChanged(c) ==
    LET next == IF c.engine = Omit THEN c.read.engine ELSE c.engine
        Of(x) == IF x = Inherit THEN c.runtime ELSE x
    IN Of(c.read.engine) # Of(next)

MutUpdated(c, row) ==
    [row EXCEPT !.name = c.name,
                !.engine = IF c.engine = Omit THEN @ ELSE c.engine,
                !.model = IF c.model # Omit THEN c.model ELSE @]

Updated(c, row) ==
    [row EXCEPT !.name = c.name,
                !.engine = IF c.engine = Omit THEN @ ELSE c.engine,
                !.model = IF c.model # Omit THEN c.model
                          ELSE IF EngineChanged(c) THEN Inherit ELSE @]

UpdateCommits(e) ==
    LET c == calls[e]
        row == slots[c.slot]
    IN /\ c.op = "update" /\ c.slot \in DOMAIN slots
       /\ \A t \in DOMAIN slots \ {c.slot} : slots[t].name # c.name
       /\ slots' = [slots EXCEPT ![c.slot] = Updated(c, row)]
       /\ staleEngine' =
            IF row.engine # c.read.engine \/ runtimes[row.runner] # c.runtime
            THEN staleEngine \cup {c.slot}
            ELSE IF c.model # Omit \/ EngineChanged(c)
            THEN staleEngine \ {c.slot} ELSE staleEngine
       /\ Returned(e)
       /\ UNCHANGED <<crew, runtimes, usedIds, moves, staleLead>>

(* The transaction finds the slot gone, or a handle in use: it rolls back. *)
CallFails(e) ==
    LET c == calls[e]
    IN /\ \/ c.op \in {"delete", "setLead", "update"} /\ c.slot \notin DOMAIN slots
          \/ /\ c.op = "update"
             /\ \E t \in DOMAIN slots \ {c.slot} : slots[t].name = c.name
          \/ c.op = "runner" /\ c.runner \notin DOMAIN runtimes
       /\ Returned(e)
       /\ UNCHANGED <<crew, runtimes, slots, usedIds, moves, staleLead, staleEngine>>

(* slot::reorder compares with the slots there are inside its transaction. *)
Reorder(order) ==
    /\ slots' = [s \in DOMAIN slots |->
                   [slots[s] EXCEPT !.position = order[s]]]
    /\ Moving
    /\ UNCHANGED <<crew, runtimes, usedIds, calls, staleLead, staleEngine>>

Orders ==
    {f \in [DOMAIN slots -> 0 .. Cardinality(DOMAIN slots) - 1] :
        \A s, t \in DOMAIN slots : f[s] = f[t] => s = t}

(* runner::update rewrites the whole row from what it read; a patch that   *)
(* omits the runtime writes the old one back.                              *)
RunnerReads(e, r, engine) ==
    /\ Reading(e) /\ r \in DOMAIN runtimes
    /\ calls' = [calls EXCEPT ![e] =
         [op |-> "runner", runner |-> r, read |-> runtimes[r],
          runtime |-> IF engine = Omit THEN runtimes[r] ELSE engine]]
    /\ UNCHANGED <<crew, runtimes, slots, usedIds, staleLead, staleEngine>>

RunnerCommits(e) ==
    LET c == calls[e]
        Inherits(s) == slots[s].runner = c.runner /\ slots[s].engine = Inherit
    IN /\ c.op = "runner" /\ c.runner \in DOMAIN runtimes
       /\ runtimes' = [runtimes EXCEPT ![c.runner] = c.runtime]
       /\ slots' = [s \in DOMAIN slots |->
                      IF Inherits(s) /\ c.runtime # c.read
                      THEN [slots[s] EXCEPT !.model = Inherit] ELSE slots[s]]
       /\ staleEngine' =
            LET theirs == {s \in DOMAIN slots : Inherits(s)}
            IN IF c.runtime # c.read THEN staleEngine \ theirs
               ELSE IF runtimes[c.runner] # c.read
               THEN staleEngine \cup theirs ELSE staleEngine
       /\ Returned(e)
       /\ UNCHANGED <<crew, usedIds, moves, staleLead>>

(* runner::delete: one transaction; the slots go with the runner.          *)
DeleteRunner(r) ==
    LET gone == {s \in DOMAIN slots : slots[s].runner = r}
        rest == Remaining(gone)
    IN /\ r \in DOMAIN runtimes
       /\ runtimes' = [q \in DOMAIN runtimes \ {r} |-> runtimes[q]]
       /\ slots' = Repacked(IF \E s \in gone : slots[s].lead
                            THEN Promoted(rest) ELSE rest)
       /\ staleLead' = (staleLead /\ DOMAIN rest # {})
       /\ Moving
       /\ UNCHANGED <<crew, usedIds, calls, staleEngine>>

(* crew::delete, of a crew without unarchived missions.                    *)
DeleteCrew ==
    /\ crew
    /\ crew' = FALSE
    /\ slots' = [s \in {} |-> {}]
    /\ staleLead' = FALSE
    /\ Moving
    /\ UNCHANGED <<runtimes, usedIds, calls, staleEngine>>

CrewNext ==
    \/ \E s \in SlotIds, name \in Names, r \in Runners, new \in NewSlots :
         Create(s, name, r, new)
    \/ \E e \in Editors, s \in SlotIds : DeleteReads(e, s) \/ SetLeadReads(e, s)
    \/ \E e \in Editors : DeleteCommits(e) \/ SetLeadCommits(e)
    \/ \E e \in Editors, s \in SlotIds, patch \in Patches :
         UpdateReads(e, s, patch)
    \/ \E e \in Editors : UpdateCommits(e) \/ CallFails(e)
    \/ \E order \in Orders : Reorder(order)
    \/ \E e \in Editors, r \in Runners, engine \in Engines \cup {Omit} :
         RunnerReads(e, r, engine)
    \/ \E e \in Editors : RunnerCommits(e)
    \/ \E r \in Runners : DeleteRunner(r)
    \/ DeleteCrew

CrewSpec == CrewInit /\ [][CrewNext]_crewVars

-----------------------------------------------------------------------------
CallTyped(c) ==
    \/ c = Idle
    \/ c \in [op : {"delete"}, slot : SlotIds, wasLead : BOOLEAN]
    \/ c \in [op : {"setLead"}, slot : SlotIds]
    \/ c \in [op : {"update"}, slot : SlotIds, read : Row, runtime : Engines,
               engine : Engines \cup {Inherit, Omit}, name : Names,
               model : Engines \cup {Inherit, Omit}]
    \/ c \in [op : {"runner"}, runner : Runners, read : Engines,
               runtime : Engines]

(* Types: rows are rows, and every slot's runner exists (the foreign key   *)
(* that runner::delete relies on when it counts on the cascade).           *)
CrewTypeOK ==
    /\ crew \in BOOLEAN
    /\ DOMAIN runtimes \subseteq Runners
    /\ runtimes \in [DOMAIN runtimes -> Engines]
    /\ moves \in 0 .. MaxEdits
    /\ DOMAIN slots \subseteq usedIds /\ usedIds \subseteq SlotIds
    /\ slots \in [DOMAIN slots -> Row]
    /\ \A s \in DOMAIN slots : slots[s].runner \in DOMAIN runtimes
    /\ DOMAIN calls = Editors /\ \A e \in Editors : CallTyped(calls[e])
    /\ staleLead \in BOOLEAN /\ staleEngine \subseteq SlotIds

(* The header of ops/slot.rs: positions are dense, 0, 1, 2, ..., and       *)
(* handles are unique, whatever deletions, reorders, renames and runner    *)
(* deletions come between an operation's read and its transaction.         *)
SlotsAreOrdered ==
    /\ Taken(slots) = 0 .. Cardinality(DOMAIN slots) - 1
    /\ \A s, t \in DOMAIN slots :
          s # t => /\ slots[s].position # slots[t].position
                   /\ slots[s].name # slots[t].name

(* The header of ops/slot.rs: a crew with slots has exactly one lead.  It  *)
(* holds until a delete commits with a lead flag that a set_lead or        *)
(* another delete has changed since it was read, and again after the next  *)
(* set_lead; a mission of a leaderless crew is refused (ops/mission.rs).   *)
OneLeadUnlessStale ==
    staleLead \/ DOMAIN slots = {}
      \/ \E s \in DOMAIN slots : \A t \in DOMAIN slots : slots[t].lead <=> t = s

(* A slot's model is one for the engine that the slot runs on, through     *)
(* changes of the slot's engine, of the runner's, and of both at once:     *)
(* a change of engine clears the models chosen for the old one.  The       *)
(* exception is a slot whose model an update kept although the engine it   *)
(* had read was no longer the engine.                                      *)
ModelFitsEngine ==
    \A s \in DOMAIN slots \ staleEngine :
        slots[s].model \in {Inherit, Engine(slots[s])}
=============================================================================
