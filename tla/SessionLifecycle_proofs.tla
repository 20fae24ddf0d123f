----------------------- MODULE SessionLifecycle_proofs ----------------------
(***************************************************************************)
(* Safety of SessionLifecycle for any number of slots, callers and          *)
(* children.  SessionInv is inductive; the theorems at the end follow from  *)
(* it.  For every action a lemma <Action>Does says once what the action     *)
(* changes; for every part of SessionInv a lemma <Part>Step goes through    *)
(* the actions that touch what the part speaks of.                          *)
(***************************************************************************)
EXTENDS SessionLifecycle, FiniteSetTheorems, TLAPS

-----------------------------------------------------------------------------
(* The inductive invariant.                                                 *)

\* Commands that claim a session: from the claim to the return.
Claiming(k) == call[k].op \in {"resume", "restart"}
Claimed(s)  == \E k \in Callers : Claiming(k) /\ call[k].slot = s

\* The stages of a forwarder between its installation and the end of the handle.
Busy == {"drain", "take", "row", "forget"}
Gone == {"take", "row", "forget", "reap", "reaping", "done"}

\* Processes are numbered as they are forked; what has not been forked has left no
\* trace.
Numbered ==
    /\ \E n \in 0 .. MaxChildren : Born = 1 .. n
    /\ \A c \in Children : child[c] = "none" => slotOf[c] = None /\ fwd[c].pc = "none"
    /\ \A c \in Born : slotOf[c] \in Slots

\* Handles, kills and the threads that fork name children of their own session.
HandlesNamed == \A s \in Slots : handle[s] # 0 => slotOf[handle[s]] = s /\ fwd[handle[s]].pc # "none"
JobsNamed ==
    \A o \in Owners, s \in Slots : job[o][s].step = "stop" =>
        /\ job[o][s].child \in Children /\ slotOf[job[o][s].child] = s
        /\ fwd[job[o][s].child].pc # "none"
KillsNamed == \A c \in Children : child[c] = "killed" => fwd[c].pc # "none"
SpawnerNamed ==
    spawner.pc \in {"recheck", "install", "attach"} =>
        spawner.child \in Children /\ slotOf[spawner.child] = spawner.slot
CallsNamed ==
    \A k \in Callers : call[k].pc \in {"install", "attach"} =>
        call[k].child \in Children /\ slotOf[call[k].child] = call[k].slot
Named == HandlesNamed /\ JobsNamed /\ KillsNamed /\ SpawnerNamed /\ CallsNamed

\* A claim is one caller's.
ClaimsAreSingle ==
    /\ \A k \in Callers :
          /\ Claiming(k) => call[k].pc # "idle" /\ call[k].slot \in Slots /\ resuming[call[k].slot]
          /\ ~Claiming(k) => call[k].pc \in {"idle", "killing"}
    /\ \A j, k \in Callers : Claiming(j) /\ Claiming(k) /\ call[j].slot = call[k].slot => j = k
    /\ \A k \in Callers : Claiming(k) /\ call[k].pc = "killing" => job[k][call[k].slot].step # "none"

\* The spawn thread has each slot once, and cancel is there as long as the thread.
SpawnerStands ==
    /\ spawner.pc \in {"gate", "recheck", "install", "attach", "reap"} => spawner.slot \in Slots
    /\ spawner.slot \notin spawner.todo
    /\ spawner.pc = "done" => spawner.todo = {}
    /\ cancel = "none" <=> spawner.pc = "done"

\* A slot whose fork is still to come has had none, unless a resume overtook it.
Untouched(s) == row[s] = "running" /\ \A c \in Children : slotOf[c] # s
ToSpawn(s) == s \in spawner.todo \/ (spawner.slot = s /\ spawner.pc = "gate")
PendingIsUnclaimed == \A s \in Slots \ overtaken : Pending(s) => ~Claimed(s)
ToSpawnIsUntouched == \A s \in Slots \ overtaken : ToSpawn(s) => Untouched(s)
SpawnedIsLatest ==
    \A s \in Slots \ overtaken :
        spawner.slot = s /\ spawner.pc \in {"recheck", "install"} =>
            row[s] = "running" /\ latest[s] = spawner.child /\ fwd[spawner.child].pc = "none"
SpawnsFirst == PendingIsUnclaimed /\ ToSpawnIsUntouched /\ SpawnedIsLatest

\* Of the processes of a session only the latest may be alive or have a forwarder
\* at work; one whose forwarder has left is dead.
LatestOnly ==
    \A s \in Slots \ overtaken : \A c \in Children : slotOf[c] = s =>
        /\ Alive(c) \/ fwd[c].pc \in Busy => latest[s] = c
        /\ fwd[c].pc \in Gone => ~Alive(c)

\* Processes of s that are left are being stopped.
Leaving(s) == \A c \in AliveIn(s) : stop[c] /\ fwd[c].pc = "drain"
Settled(s) == \A c \in Children : slotOf[c] = s => ~Alive(c) /\ fwd[c].pc \notin Busy

\* What a claim has made sure of before it forks.
Past == {"take", "join", "clear", "ok"}
ClearFor(k) ==
    LET s == call[k].slot IN
    /\ call[k].pc = "killing" /\ job[k][s].step \in Past => Leaving(s)
    /\ call[k].pc = "row" => Leaving(s)
    /\ call[k].pc = "fork" => Settled(s) /\ row[s] = "running"
    /\ call[k].pc = "install" => row[s] = "running" /\ latest[s] = call[k].child
                                 /\ fwd[call[k].child].pc = "none"
ClaimsClear ==
    \A k \in Callers : Claiming(k) /\ call[k].slot \notin overtaken => ClearFor(k)

\* An archive that is under way, or over.
Archiving == mission = "ended" \/ \E k \in Callers : call[k].op = "archive"
ArchiveCloses ==
    Archiving =>
        /\ cancel # "clear"
        /\ spawner.pc = "install" => spawner.slot \in missed
        /\ \A k \in Callers : Claiming(k) /\ call[k].pc # "attach" => call[k].slot \in missed

\* What an archive has to do yet: processes that neither it nor their forwarder nor
\* the spawn thread is about to stop are those it missed, or failed to stop.
ArchiveReaches ==
    \A k \in Callers : call[k].op = "archive" =>
        \A s \in Slots \ (missed \cup overtaken) :
            job[k][s].step \notin {"mark", "stop", "failed"} => \A c \in AliveIn(s) : AboutToStop(c)

\* The mark of a kill stays until the forwarder of the killed process takes it.
Owed(c) ==
    /\ fwd[c].pc \in {"drain", "take"}
    /\ \/ child[c] = "killed"
       \/ \E o \in Owners : job[o][slotOf[c]].step = "stop" /\ job[o][slotOf[c]].child = c
MarksStay ==
    stuck = 0 => \A c \in Children :
        slotOf[c] \in Slots \ (overtaken \cup unmarked) /\ Owed(c) => killed[slotOf[c]]

\* All of it is inductive.
SessionInv ==
    /\ TypeOK /\ Numbered /\ Named /\ ClaimsAreSingle /\ SpawnerStands
    /\ SpawnsFirst /\ LatestOnly /\ ClaimsClear /\ ExitIsTheTruth /\ EveryChildHasItsHandle
    /\ ArchiveCloses /\ ArchiveReaches /\ ArchivedIsDeadUnlessMissed
    /\ MarksStay /\ KilledIsNotACrash

CrewCounted == Cardinality(Crew) \in Nat
\* The crew is finite, so that Room compares numbers.
LEMMA CrewIsCounted == CrewCounted
<1>1. IsFiniteSet(Crew)
  BY LifecycleAssumption, FS_Subset DEF LifecycleAssumption, Crew
<1> QED
  BY <1>1, FS_CardinalityType DEF CrewCounted

\* A move that finds room stays within the bound of the counters.
LEMMA RoomLeft ==
    ASSUME TypeOK, Room
    PROVE  given + 1 \in 0 .. MaxMoves /\ stuck + 1 \in 0 .. MaxMoves
  BY CrewIsCounted, LifecycleAssumption DEF LifecycleAssumption, TypeOK, Room, CrewCounted

-----------------------------------------------------------------------------
(* Types, and what the helpers of the actions do.                           *)

ChildStates == {"none", "alive", "dead", "killed", "stray"}
FwdType  == [pc : {"none", "drain", "take", "row", "forget", "reap", "reaping", "done"},
             wasKilled : BOOLEAN]
SpawnerType == [pc : {"next", "gate", "recheck", "install", "attach", "reap", "reaping", "done"},
                todo : SUBSET Slots, slot : Slots \cup {None}, child : 0 .. MaxChildren]
CallType == [op : Ops \cup {"none"}, slot : Slots \cup {None}, child : 0 .. MaxChildren,
             pc : {"idle", "killing", "row", "fork", "install", "attach"}]
JobType  == [step : Steps, child : 0 .. MaxChildren]

RowsTyped    == mission \in {"running", "ended"} /\ row \in [Slots -> Statuses]
HandleTyped  == handle \in [Slots -> 0 .. MaxChildren] /\ forwarder \in [Slots -> 0 .. MaxChildren]
MarksTyped   == killed \in [Slots -> BOOLEAN]
ClaimsTyped  == resuming \in [Slots -> BOOLEAN]
ProcsTyped   == latest \in [Slots -> 0 .. MaxChildren] /\ slotOf \in [Children -> Slots \cup {None}]
ChildTyped   == child \in [Children -> ChildStates]
StopTyped    == stop \in [Children -> BOOLEAN]
FwdTyped     == fwd \in [Children -> FwdType]
CancelTyped  == cancel \in {"none", "clear", "set"}
SpawnerTyped == spawner \in SpawnerType
CallTyped    == call \in [Callers -> CallType]
JobTyped     == job \in [Owners -> [Slots -> JobType]]
BoundsTyped  == given \in 0 .. MaxMoves /\ stuck \in 0 .. MaxMoves
HistoryTyped == missed \subseteq Slots /\ overtaken \subseteq Slots /\ unmarked \subseteq Slots

\* TypeOK, variable by variable.
LEMMA TypeParts ==
    TypeOK <=> /\ RowsTyped /\ HandleTyped /\ MarksTyped /\ ClaimsTyped /\ ProcsTyped /\ ChildTyped
               /\ StopTyped /\ FwdTyped /\ CancelTyped /\ SpawnerTyped /\ CallTyped /\ JobTyped
               /\ BoundsTyped /\ HistoryTyped
  BY DEF TypeOK, RowsTyped, HandleTyped, MarksTyped, ClaimsTyped, ProcsTyped, ChildTyped, StopTyped,
         FwdTyped, CancelTyped, SpawnerTyped, CallTyped, JobTyped, BoundsTyped, HistoryTyped,
         ChildStates, FwdType, SpawnerType, CallType, JobType

\* What does not change keeps its type.
LEMMA SameTypes ==
    /\ RowsTyped /\ UNCHANGED rows => RowsTyped'
    /\ HandleTyped /\ UNCHANGED <<handle, forwarder>> => HandleTyped'
    /\ MarksTyped /\ UNCHANGED killed => MarksTyped'
    /\ ClaimsTyped /\ UNCHANGED resuming => ClaimsTyped'
    /\ ProcsTyped /\ UNCHANGED <<latest, slotOf>> => ProcsTyped'
    /\ ChildTyped /\ UNCHANGED child => ChildTyped'
    /\ StopTyped /\ UNCHANGED stop => StopTyped'
    /\ FwdTyped /\ UNCHANGED fwd => FwdTyped'
    /\ CancelTyped /\ UNCHANGED cancel => CancelTyped'
    /\ SpawnerTyped /\ UNCHANGED spawner => SpawnerTyped'
    /\ CallTyped /\ UNCHANGED call => CallTyped'
    /\ JobTyped /\ UNCHANGED job => JobTyped'
    /\ BoundsTyped /\ UNCHANGED <<given, stuck>> => BoundsTyped'
    /\ HistoryTyped /\ UNCHANGED <<missed, overtaken, unmarked>> => HistoryTyped'
  BY DEF RowsTyped, HandleTyped, MarksTyped, ClaimsTyped, ProcsTyped, ChildTyped, StopTyped,
         FwdTyped, CancelTyped, SpawnerTyped, CallTyped, JobTyped, BoundsTyped, HistoryTyped, rows

OwnerKinds == Callers \subseteq Owners /\ Spawner \in Owners /\ Children \subseteq Owners
              /\ Callers \cap (Children \cup {Spawner}) = {} /\ Spawner \notin Children
\* Callers, the spawn thread and forwarders are different owners of kills.
LEMMA OwnersAre == OwnerKinds
<1>1. Children \subseteq 0 .. MaxChildren /\ 0 \in 0 .. MaxChildren /\ 0 \notin Children
  BY LifecycleAssumption DEF LifecycleAssumption, Children
<1>2. Callers \cap (0 .. MaxChildren) = {}
  BY LifecycleAssumption DEF LifecycleAssumption
<1> QED
  BY <1>1, <1>2 DEF OwnerKinds, Owners, Spawner

-----------------------------------------------------------------------------
(* What the helpers do.                                                    *)

\* One job moves on.
LEMMA Stepped ==
    ASSUME JobTyped, NEW o \in Owners, NEW s \in Slots, NEW st \in Steps,
           NEW c \in 0 .. MaxChildren,
           Step(o, s, st, c)
    PROVE  /\ JobTyped'
           /\ job'[o][s].step = st /\ job'[o][s].child = c
           /\ \A p \in Owners, t \in Slots : p # o \/ t # s => job'[p][t] = job[p][t]
<1> DEFINE new == [step |-> st, child |-> c]
<1>1. new \in JobType /\ new.step = st /\ new.child = c
  BY DEF JobType
<1>2. job' = [job EXCEPT ![o][s] = new]
  BY DEF Step
<1> HIDE DEF new
<1> QED
  BY <1>1, <1>2 DEF JobTyped

\* The jobs of one owner are replaced.
LEMMA ClearedJobs ==
    ASSUME JobTyped, NEW o \in Owners, job' = Cleared(o)
    PROVE  /\ JobTyped'
           /\ \A s \in Slots : job'[o][s].step = "none"
           /\ \A p \in Owners, t \in Slots : p # o => job'[p][t] = job[p][t]
<1> DEFINE new == [s \in Slots |-> NoJob]
<1>1. new \in [Slots -> JobType] /\ \A s \in Slots : new[s].step = "none"
  BY LifecycleAssumption DEF LifecycleAssumption, JobType, NoJob, Steps
<1>2. job' = [job EXCEPT ![o] = new]
  BY DEF Cleared
<1> HIDE DEF new
<1> QED
  BY <1>1, <1>2 DEF JobTyped

\* KillAll marks the sessions with a handle, and raises the flag of a thread that
\* is still there.
LEMMA KilledAll ==
    ASSUME JobTyped, CancelTyped, NEW o \in Owners, KillAll(o)
    PROVE  /\ JobTyped' /\ CancelTyped'
           /\ cancel' = IF cancel = "clear" THEN "set" ELSE cancel
           /\ \A s \in Slots : job'[o][s].step = IF handle[s] = 0 THEN "none" ELSE "mark"
           /\ \A p \in Owners, t \in Slots : p # o => job'[p][t] = job[p][t]
<1> DEFINE new == [s \in Slots |-> IF handle[s] = 0 THEN NoJob ELSE [step |-> "mark", child |-> 0]]
<1>1. new \in [Slots -> JobType] /\ \A s \in Slots : new[s].step = IF handle[s] = 0 THEN "none" ELSE "mark"
  BY LifecycleAssumption DEF LifecycleAssumption, JobType, NoJob, Steps
<1>2. job' = [job EXCEPT ![o] = new] /\ cancel' = IF cancel = "clear" THEN "set" ELSE cancel
  BY DEF KillAll
<1> HIDE DEF new
<1> QED
  BY <1>1, <1>2 DEF JobTyped, CancelTyped

\* One forwarder moves on.
LEMMA Forwarded ==
    ASSUME FwdTyped, NEW c \in Children,
           NEW to \in {"drain", "take", "row", "forget", "reap", "reaping", "done"},
           fwd' = [fwd EXCEPT ![c].pc = to]
    PROVE  /\ FwdTyped'
           /\ fwd'[c].pc = to /\ fwd'[c].wasKilled = fwd[c].wasKilled
           /\ \A d \in Children : d # c => fwd'[d] = fwd[d]
  BY DEF FwdTyped, FwdType

\* The processes that a stop ends are alive, and the latest of the session.
LEMMA Stopped ==
    ASSUME ChildTyped, NEW s \in Slots, NEW end \in {"dead", "killed"}, StopLatest(s, end)
    PROVE  /\ ChildTyped'
           /\ \A c \in Children : child'[c] = IF c = latest[s] /\ child[c] = "alive" THEN end ELSE child[c]
  BY DEF ChildTyped, StopLatest, ChildStates, Alive

\* A stop that fails is counted, and the process it gives up is alive till then.
LEMMA Strayed ==
    ASSUME ChildTyped, BoundsTyped, ProcsTyped, TypeOK, NEW s \in Slots, StopFails(s)
    PROVE  /\ latest[s] \in Children /\ child[latest[s]] = "alive" /\ stuck' = stuck + 1
           /\ stuck' \in 0 .. MaxMoves
           /\ Strays(s) => /\ ChildTyped'
                           /\ \A c \in Children : child'[c] = IF c = latest[s] THEN "stray" ELSE child[c]
<1>1. latest[s] \in Children /\ child[latest[s]] = "alive" /\ stuck' = stuck + 1 /\ stuck' \in 0 .. MaxMoves
  BY RoomLeft DEF StopFails, Alive, ProcsTyped, Children
<1>2. ASSUME Strays(s)
      PROVE  /\ ChildTyped'
             /\ \A c \in Children : child'[c] = IF c = latest[s] THEN "stray" ELSE child[c]
  BY <1>1, <1>2 DEF Strays, ChildTyped, ChildStates
<1> QED
  BY <1>1, <1>2

\* A fork gives the session the next process, which nothing has named before.
LEMMA Forked ==
    ASSUME ProcsTyped, ChildTyped, Numbered, NEW s \in Slots, Fork(s)
    PROVE  /\ ProcsTyped' /\ ChildTyped' /\ UNCHANGED stop
           /\ NextChild \in Children /\ child[NextChild] = "none"
           /\ child'[NextChild] = "alive" /\ slotOf'[NextChild] = s /\ latest'[s] = NextChild
           /\ \A c \in Children : c # NextChild => child'[c] = child[c] /\ slotOf'[c] = slotOf[c]
           /\ \A t \in Slots : t # s => latest'[t] = latest[t]
           /\ Born' = Born \cup {NextChild}
           /\ \E n \in 0 .. MaxChildren : Born' = 1 .. n
<1>1. PICK n \in 0 .. MaxChildren : Born = 1 .. n
  BY DEF Numbered
<1>2. NextChild = n + 1
  <2>1. Cardinality(1 .. n) = n
    BY <1>1, FS_Interval
  <2> QED
    BY <1>1, <2>1 DEF NextChild
<1>3. NextChild \in Children /\ child[NextChild] = "none"
  BY <1>1, <1>2 DEF Fork, Born
<1> DEFINE new == NextChild
<1>4. /\ child' = [child EXCEPT ![new] = "alive"] /\ slotOf' = [slotOf EXCEPT ![new] = s]
      /\ latest' = [latest EXCEPT ![s] = new] /\ UNCHANGED stop /\ new \in Children
  BY <1>3 DEF Fork
<1>5. new = n + 1 /\ child[new] = "none"
  BY <1>2, <1>3
<1> HIDE DEF new
<1>6. ProcsTyped' /\ ChildTyped'
  BY <1>4 DEF ProcsTyped, ChildTyped, ChildStates, Children
<1>7. /\ child'[new] = "alive" /\ slotOf'[new] = s /\ latest'[s] = new
      /\ \A c \in Children : c # new => child'[c] = child[c] /\ slotOf'[c] = slotOf[c]
      /\ \A t \in Slots : t # s => latest'[t] = latest[t]
  BY <1>4 DEF ProcsTyped, ChildTyped
<1>8. Born' = Born \cup {new}
  BY <1>4, <1>7 DEF Born
<1>9. Born' = 1 .. n + 1 /\ n + 1 \in 0 .. MaxChildren
  BY <1>1, <1>4, <1>5, <1>8 DEF Children
<1> QED
  BY <1>3, <1>4, <1>6, <1>7, <1>8, <1>9 DEF new

\* An installed handle clears the mark and starts the forwarder.
LEMMA HandleInstalled ==
    ASSUME HandleTyped, MarksTyped, FwdTyped, NEW s \in Slots, NEW c \in Children,
           InstallHandle(s, c)
    PROVE  /\ HandleTyped' /\ MarksTyped' /\ FwdTyped'
           /\ handle'[s] = c /\ ~killed'[s]
           /\ \A t \in Slots : t # s => handle'[t] = handle[t] /\ killed'[t] = killed[t]
           /\ fwd'[c].pc = "drain" /\ fwd'[c].wasKilled = fwd[c].wasKilled
           /\ \A d \in Children : d # c => fwd'[d] = fwd[d]
<1>1. FwdTyped' /\ fwd'[c].pc = "drain" /\ fwd'[c].wasKilled = fwd[c].wasKilled
      /\ \A d \in Children : d # c => fwd'[d] = fwd[d]
  BY Forwarded DEF InstallHandle
<1>2. HandleTyped' /\ handle'[s] = c /\ \A t \in Slots : t # s => handle'[t] = handle[t]
  BY LifecycleAssumption DEF LifecycleAssumption, InstallHandle, HandleTyped, Children
<1>3. MarksTyped' /\ ~killed'[s] /\ \A t \in Slots : t # s => killed'[t] = killed[t]
  BY DEF InstallHandle, MarksTyped
<1> QED
  BY <1>1, <1>2, <1>3

\* The join handle comes later than the session handle.
LEMMA ForwarderInstalled ==
    ASSUME HandleTyped, NEW s \in Slots, NEW c \in 0 .. MaxChildren, InstallForwarder(s, c),
           UNCHANGED handle
    PROVE  HandleTyped'
  BY LifecycleAssumption DEF LifecycleAssumption, InstallForwarder, HandleTyped

\* How the spawn thread moves on.
LEMMA SpawnerGoes ==
    ASSUME SpawnerTyped
    PROVE  /\ \A pc \in {"next", "gate", "recheck", "install", "attach", "reap", "reaping", "done"} :
                 SpawnTo(pc) => /\ SpawnerTyped' /\ spawner'.pc = pc /\ spawner'.slot = spawner.slot
                                /\ spawner'.todo = spawner.todo /\ spawner'.child = spawner.child
           /\ SpawnOn => /\ SpawnerTyped' /\ spawner'.pc = "next" /\ spawner'.slot = None
                         /\ spawner'.todo = spawner.todo /\ spawner'.child = 0
<1>1. ASSUME NEW pc \in {"next", "gate", "recheck", "install", "attach", "reap", "reaping", "done"},
             SpawnTo(pc)
      PROVE  /\ SpawnerTyped' /\ spawner'.pc = pc /\ spawner'.slot = spawner.slot
             /\ spawner'.todo = spawner.todo /\ spawner'.child = spawner.child
  BY <1>1 DEF SpawnerTyped, SpawnerType, SpawnTo
<1>2. ASSUME SpawnOn
      PROVE  /\ SpawnerTyped' /\ spawner'.pc = "next" /\ spawner'.slot = None
             /\ spawner'.todo = spawner.todo /\ spawner'.child = 0
  <2>1. 0 \in 0 .. MaxChildren
    BY LifecycleAssumption DEF LifecycleAssumption
  <2> QED
    BY <1>2, <2>1 DEF SpawnerTyped, SpawnerType, SpawnOn
<1> QED
  BY <1>1, <1>2

\* How a command goes on, and returns.
LEMMA Called ==
    ASSUME CallTyped, NEW k \in Callers
    PROVE  /\ \A pc \in {"idle", "killing", "row", "fork", "install", "attach"} :
                 CallTo(k, pc) => /\ CallTyped' /\ call'[k].pc = pc /\ call'[k].op = call[k].op
                                  /\ call'[k].slot = call[k].slot /\ call'[k].child = call[k].child
                                  /\ \A j \in Callers : j # k => call'[j] = call[j]
           /\ Returns(k) => /\ CallTyped' /\ call'[k] = NoCall
                            /\ \A j \in Callers : j # k => call'[j] = call[j]
<1>1. ASSUME NEW pc \in {"idle", "killing", "row", "fork", "install", "attach"}, CallTo(k, pc)
      PROVE  /\ CallTyped' /\ call'[k].pc = pc /\ call'[k].op = call[k].op
             /\ call'[k].slot = call[k].slot /\ call'[k].child = call[k].child
             /\ \A j \in Callers : j # k => call'[j] = call[j]
  BY <1>1 DEF CallTyped, CallType, CallTo
<1>2. ASSUME Returns(k)
      PROVE  CallTyped' /\ call'[k] = NoCall /\ \A j \in Callers : j # k => call'[j] = call[j]
  BY <1>2, LifecycleAssumption DEF LifecycleAssumption, CallTyped, CallType, Returns, NoCall
<1> QED
  BY <1>1, <1>2

\* How a command begins.
LEMMA Given ==
    ASSUME TypeOK, CallTyped, NEW k \in Callers, NEW op, NEW s \in Slots \cup {None},
           NEW pc \in {"killing", "row"}, Gives(k, op, s, pc)
    PROVE  /\ CallTyped' /\ call[k].pc = "idle" /\ given' \in 0 .. MaxMoves /\ op \in Ops
           /\ call'[k].op = op /\ call'[k].pc = pc /\ call'[k].slot = s /\ call'[k].child = 0
           /\ \A j \in Callers : j # k => call'[j] = call[j]
<1> DEFINE new == [op |-> op, pc |-> pc, slot |-> s, child |-> 0]
<1>1. op \in Ops /\ call[k].pc = "idle" /\ given' \in 0 .. MaxMoves
  BY RoomLeft DEF Gives
<1>2. new \in CallType /\ new.op = op /\ new.pc = pc /\ new.slot = s /\ new.child = 0
  BY <1>1, LifecycleAssumption DEF LifecycleAssumption, CallType
<1>3. call' = [call EXCEPT ![k] = new]
  BY DEF Gives
<1> HIDE DEF new
<1> QED
  BY <1>1, <1>2, <1>3 DEF CallTyped

-----------------------------------------------------------------------------
(* What each action does: processes and kills.                              *)

\* TypeOK, variable by variable, after a step.
LEMMA TypePartsNext ==
    TypeOK' <=> /\ RowsTyped' /\ HandleTyped' /\ MarksTyped' /\ ClaimsTyped' /\ ProcsTyped'
                /\ ChildTyped' /\ StopTyped' /\ FwdTyped' /\ CancelTyped' /\ SpawnerTyped'
                /\ CallTyped' /\ JobTyped' /\ BoundsTyped' /\ HistoryTyped'
  BY DEF TypeOK, RowsTyped, HandleTyped, MarksTyped, ClaimsTyped, ProcsTyped, ChildTyped, StopTyped,
         FwdTyped, CancelTyped, SpawnerTyped, CallTyped, JobTyped, BoundsTyped, HistoryTyped,
         ChildStates, FwdType, SpawnerType, CallType, JobType

\* What the steps rely on whatever they do.
Sound == TypeOK /\ Numbered /\ Named /\ ClaimsAreSingle /\ SpawnerStands

\* What has been forked has a session.
LEMMA ForwardersHaveSlots ==
    ASSUME Numbered, NEW c \in Children, fwd[c].pc # "none" \/ child[c] # "none"
    PROVE  slotOf[c] \in Slots /\ child[c] # "none"
  BY DEF Numbered, Born

\* A process ends by itself, and nothing else changes.
LEMMA ChildEndsDoes ==
    ASSUME Sound, NEW c \in Children, ChildEnds(c)
    PROVE  /\ TypeOK' /\ child[c] = "alive"
           /\ \A d \in Children : child'[d] = IF d = c THEN "dead" ELSE child[d]
           /\ UNCHANGED <<mission, row, handle, forwarder, killed, resuming, latest, slotOf, stop,
                          fwd, cancel, spawner, call, job, given, stuck, missed, overtaken, unmarked>>
<1>1. ChildTyped' /\ \A d \in Children : child'[d] = IF d = c THEN "dead" ELSE child[d]
  BY TypeParts DEF Sound, ChildEnds, ChildTyped, ChildStates
<1>2. UNCHANGED <<mission, row, handle, forwarder, killed, resuming, latest, slotOf, stop,
                  fwd, cancel, spawner, call, job, given, stuck, missed, overtaken, unmarked>>
  BY DEF ChildEnds, rows, handles, bounds, history
<1>3. TypeOK'
  BY <1>1, <1>2, TypeParts, TypePartsNext, SameTypes DEF Sound, rows
<1> QED
  BY <1>1, <1>2, <1>3 DEF ChildEnds, Alive

\* The first half of a kill: without a handle there is nothing to do.
LEMMA Marked ==
    ASSUME TypeOK, NEW o \in Owners, NEW s \in Slots, Marks(o, s)
    PROVE  /\ JobTyped' /\ MarksTyped'
           /\ handle[s] = 0 => job'[o][s].step = "ok" /\ UNCHANGED killed
           /\ handle[s] # 0 => /\ handle[s] \in Children /\ killed'[s]
                               /\ job'[o][s].step = "stop" /\ job'[o][s].child = handle[s]
           /\ \A t \in Slots : t # s => killed'[t] = killed[t]
           /\ \A p \in Owners, t \in Slots : p # o \/ t # s => job'[p][t] = job[p][t]
<1>0. JobTyped /\ MarksTyped /\ HandleTyped /\ "ok" \in Steps /\ "stop" \in Steps
      /\ 0 \in 0 .. MaxChildren /\ handle[s] \in 0 .. MaxChildren
  BY TypeParts, LifecycleAssumption DEF LifecycleAssumption, Steps, HandleTyped
<1>1. CASE handle[s] = 0
  <2>1. Step(o, s, "ok", 0) /\ UNCHANGED killed
    BY <1>1 DEF Marks
  <2>2. MarksTyped' /\ \A t \in Slots : t # s => killed'[t] = killed[t]
    BY <1>0, <2>1 DEF MarksTyped
  <2> QED
    BY <1>0, <1>1, <2>1, <2>2, Stepped
<1>2. CASE handle[s] # 0
  <2>1. Step(o, s, "stop", handle[s]) /\ killed' = [killed EXCEPT ![s] = TRUE] /\ handle[s] \in Children
    BY <1>0, <1>2 DEF Marks, Children
  <2>2. MarksTyped' /\ killed'[s] /\ \A t \in Slots : t # s => killed'[t] = killed[t]
    BY <1>0, <2>1 DEF MarksTyped
  <2> QED
    BY <1>0, <1>2, <2>1, <2>2, Stepped
<1> QED
  BY <1>1, <1>2

\* A kill of the mission marks one session.
LEMMA KillMarksDoes ==
    ASSUME Sound, NEW o \in Owners, NEW s \in Slots, KillMarks(o, s)
    PROVE  /\ TypeOK' /\ job[o][s].step = "mark"
           /\ handle[s] = 0 => job'[o][s].step = "ok" /\ UNCHANGED killed
           /\ handle[s] # 0 => /\ handle[s] \in Children /\ killed'[s]
                               /\ job'[o][s].step = "stop" /\ job'[o][s].child = handle[s]
           /\ \A t \in Slots : t # s => killed'[t] = killed[t]
           /\ \A p \in Owners, t \in Slots : p # o \/ t # s => job'[p][t] = job[p][t]
           /\ UNCHANGED <<mission, row, handle, forwarder, resuming, latest, child, slotOf, stop,
                          fwd, cancel, spawner, call, given, stuck, missed, overtaken, unmarked>>
<1>1. Marks(o, s) /\ job[o][s].step = "mark"
  BY DEF KillMarks
<1>2. UNCHANGED <<mission, row, handle, forwarder, resuming, latest, child, slotOf, stop,
                  fwd, cancel, spawner, call, given, stuck, missed, overtaken, unmarked>>
  BY DEF KillMarks, rows, procs, bounds, history
<1>3. TypeOK'
  BY <1>1, <1>2, TypeParts, TypePartsNext, SameTypes, Marked DEF Sound, rows
<1> QED
  BY <1>1, <1>2, <1>3, Marked DEF Sound

\* The runtime stops the latest process of the session, or fails to.
LEMMA KillStopsDoes ==
    ASSUME Sound, NEW o \in Owners, NEW s \in Slots, KillStops(o, s)
    PROVE  /\ TypeOK' /\ job[o][s].step = "stop"
           /\ \/ /\ job'[o][s].step = "take" /\ UNCHANGED <<killed, stuck>>
                 /\ \A c \in Children : child'[c] =
                       IF c = latest[s] /\ child[c] = "alive"
                       THEN (IF latest[s] = job[o][s].child THEN "killed" ELSE "dead") ELSE child[c]
              \/ /\ job'[o][s].step = "failed" /\ stuck' = stuck + 1 /\ stuck' # 0 /\ UNCHANGED child
                 /\ latest[s] \in Children /\ child[latest[s]] = "alive"
                 /\ \A t \in Slots : t # s => killed'[t] = killed[t]
           /\ \A p \in Owners, t \in Slots : p # o \/ t # s => job'[p][t] = job[p][t]
           /\ UNCHANGED <<mission, row, handle, forwarder, resuming, latest, slotOf, stop,
                          fwd, cancel, spawner, call, given, missed, overtaken, unmarked>>
<1>0. JobTyped /\ MarksTyped /\ ChildTyped /\ BoundsTyped /\ ProcsTyped /\ TypeOK
      /\ "take" \in Steps /\ "failed" \in Steps /\ 0 \in 0 .. MaxChildren
  BY TypeParts, LifecycleAssumption DEF Sound, LifecycleAssumption, Steps
<1>1. UNCHANGED <<mission, row, handle, forwarder, resuming, latest, slotOf, stop,
                  fwd, cancel, spawner, call, given, missed, overtaken, unmarked>>
      /\ job[o][s].step = "stop"
  BY DEF KillStops, rows, history
<1>2. ASSUME StopLatest(s, IF latest[s] = job[o][s].child THEN "killed" ELSE "dead"),
             Step(o, s, "take", 0), UNCHANGED <<killed, stuck>>
      PROVE  /\ TypeOK' /\ job'[o][s].step = "take" /\ UNCHANGED <<killed, stuck>>
             /\ \A c \in Children : child'[c] =
                   IF c = latest[s] /\ child[c] = "alive"
                   THEN (IF latest[s] = job[o][s].child THEN "killed" ELSE "dead") ELSE child[c]
             /\ \A p \in Owners, t \in Slots : p # o \/ t # s => job'[p][t] = job[p][t]
  <2> DEFINE end == IF latest[s] = job[o][s].child THEN "killed" ELSE "dead"
  <2>1. end \in {"dead", "killed"} /\ StopLatest(s, end)
    BY <1>2
  <2> HIDE DEF end
  <2>2. ChildTyped' /\ \A c \in Children : child'[c] = IF c = latest[s] /\ child[c] = "alive" THEN end ELSE child[c]
    BY <1>0, <2>1, Stopped
  <2>3. JobTyped' /\ job'[o][s].step = "take"
        /\ \A p \in Owners, t \in Slots : p # o \/ t # s => job'[p][t] = job[p][t]
    BY <1>0, <1>2, Stepped
  <2>4. TypeOK'
    BY <1>0, <1>1, <1>2, <2>2, <2>3, TypeParts, TypePartsNext, SameTypes DEF rows
  <2> QED
    BY <1>2, <2>2, <2>3, <2>4 DEF end
<1>3. ASSUME StopFails(s), Step(o, s, "failed", 0), killed' = [killed EXCEPT ![s] = FALSE],
             UNCHANGED child
      PROVE  /\ TypeOK' /\ job'[o][s].step = "failed" /\ stuck' = stuck + 1 /\ stuck' # 0
             /\ latest[s] \in Children /\ child[latest[s]] = "alive"
             /\ \A t \in Slots : t # s => killed'[t] = killed[t]
             /\ \A p \in Owners, t \in Slots : p # o \/ t # s => job'[p][t] = job[p][t]
  <2>1. latest[s] \in Children /\ child[latest[s]] = "alive" /\ stuck' = stuck + 1
        /\ stuck' \in 0 .. MaxMoves
    BY <1>0, <1>3, Strayed
  <2>2. JobTyped' /\ job'[o][s].step = "failed"
        /\ \A p \in Owners, t \in Slots : p # o \/ t # s => job'[p][t] = job[p][t]
    BY <1>0, <1>3, Stepped
  <2>3. MarksTyped' /\ \A t \in Slots : t # s => killed'[t] = killed[t]
    BY <1>0, <1>3 DEF MarksTyped
  <2>4. BoundsTyped' /\ stuck' # 0
    BY <1>0, <1>1, <2>1 DEF BoundsTyped
  <2>5. TypeOK'
    BY <1>0, <1>1, <1>3, <2>2, <2>3, <2>4, TypeParts, TypePartsNext, SameTypes DEF rows
  <2> QED
    BY <1>3, <2>1, <2>2, <2>3, <2>4, <2>5
<1>4. \/ /\ StopLatest(s, IF latest[s] = job[o][s].child THEN "killed" ELSE "dead")
         /\ Step(o, s, "take", 0) /\ UNCHANGED <<killed, stuck>>
      \/ /\ StopFails(s) /\ Step(o, s, "failed", 0) /\ killed' = [killed EXCEPT ![s] = FALSE]
         /\ UNCHANGED child
  BY DEF KillStops
<1> QED
  BY <1>1, <1>2, <1>3, <1>4

-----------------------------------------------------------------------------
(* What each action does: forwarders.                                       *)

\* A kill takes the handle and tells the forwarder to stop.
LEMMA KillTakesDoes ==
    ASSUME Sound, NEW o \in Owners, NEW s \in Slots, KillTakes(o, s)
    PROVE  /\ TypeOK' /\ job[o][s].step = "take"
           /\ \/ /\ handle[s] = 0 /\ job'[o][s].step = "ok" /\ UNCHANGED <<handle, stop>>
              \/ /\ handle[s] \in Children /\ job'[o][s].step \in {"join", "clear"}
                 /\ handle'[s] = 0 /\ \A t \in Slots : t # s => handle'[t] = handle[t]
                 /\ stop'[handle[s]] /\ \A c \in Children : c # handle[s] => stop'[c] = stop[c]
           /\ \A p \in Owners, t \in Slots : p # o \/ t # s => job'[p][t] = job[p][t]
           /\ UNCHANGED <<mission, row, killed, resuming, latest, child, slotOf,
                          fwd, cancel, spawner, call, given, stuck, missed, overtaken, unmarked>>
<1>0. JobTyped /\ HandleTyped /\ StopTyped /\ TypeOK /\ {"ok", "clear", "join"} \subseteq Steps
      /\ 0 \in 0 .. MaxChildren /\ handle[s] \in 0 .. MaxChildren /\ forwarder[s] \in 0 .. MaxChildren
  BY TypeParts, LifecycleAssumption DEF Sound, LifecycleAssumption, Steps, HandleTyped
<1>1. UNCHANGED <<mission, row, killed, resuming, latest, child, slotOf,
                  fwd, cancel, spawner, call, given, stuck, missed, overtaken, unmarked>>
      /\ job[o][s].step = "take"
  BY DEF KillTakes, rows, bounds, history
<1>2. CASE handle[s] = 0
  <2>1. Step(o, s, "ok", 0) /\ UNCHANGED <<handle, forwarder, stop>>
    BY <1>2 DEF KillTakes
  <2>2. JobTyped' /\ job'[o][s].step = "ok"
        /\ \A p \in Owners, t \in Slots : p # o \/ t # s => job'[p][t] = job[p][t]
    BY <1>0, <2>1, Stepped
  <2>3. TypeOK'
    BY <1>0, <1>1, <2>1, <2>2, TypeParts, TypePartsNext, SameTypes DEF rows
  <2> QED
    BY <1>1, <1>2, <2>1, <2>2, <2>3
<1>3. CASE handle[s] # 0
  <2> DEFINE step == IF forwarder[s] = 0 THEN "clear" ELSE "join"
  <2>1. /\ Step(o, s, step, forwarder[s])
        /\ stop' = [stop EXCEPT ![handle[s]] = TRUE]
        /\ handle' = [handle EXCEPT ![s] = 0] /\ forwarder' = [forwarder EXCEPT ![s] = 0]
    BY <1>3 DEF KillTakes
  <2>2. step \in {"join", "clear"} /\ step \in Steps /\ handle[s] \in Children
    BY <1>0, <1>3 DEF Children
  <2> HIDE DEF step
  <2>3. JobTyped' /\ job'[o][s].step = step
        /\ \A p \in Owners, t \in Slots : p # o \/ t # s => job'[p][t] = job[p][t]
    BY <1>0, <2>1, <2>2, Stepped
  <2>4. HandleTyped' /\ handle'[s] = 0 /\ \A t \in Slots : t # s => handle'[t] = handle[t]
    BY <1>0, <2>1 DEF HandleTyped
  <2>5. StopTyped' /\ stop'[handle[s]] /\ \A c \in Children : c # handle[s] => stop'[c] = stop[c]
    BY <1>0, <2>1, <2>2 DEF StopTyped
  <2>6. TypeOK'
    BY <1>0, <1>1, <2>3, <2>4, <2>5, TypeParts, TypePartsNext, SameTypes DEF rows
  <2> QED
    BY <1>1, <2>2, <2>3, <2>4, <2>5, <2>6
<1> QED
  BY <1>2, <1>3

\* A kill has waited for the forwarder to be done.
LEMMA KillJoinsDoes ==
    ASSUME Sound, NEW o \in Owners, NEW s \in Slots, KillJoins(o, s)
    PROVE  /\ TypeOK' /\ job[o][s].step = "join" /\ job'[o][s].step = "clear"
           /\ \A p \in Owners, t \in Slots : p # o \/ t # s => job'[p][t] = job[p][t]
           /\ UNCHANGED <<mission, row, handle, forwarder, killed, resuming, latest, child, slotOf, stop,
                          fwd, cancel, spawner, call, given, stuck, missed, overtaken, unmarked>>
<1>0. JobTyped /\ TypeOK /\ "clear" \in Steps /\ 0 \in 0 .. MaxChildren
  BY TypeParts, LifecycleAssumption DEF Sound, LifecycleAssumption, Steps
<1>1. UNCHANGED <<mission, row, handle, forwarder, killed, resuming, latest, child, slotOf, stop,
                  fwd, cancel, spawner, call, given, stuck, missed, overtaken, unmarked>>
      /\ job[o][s].step = "join" /\ Step(o, s, "clear", 0)
  BY DEF KillJoins, rows, handles, procs, bounds, history
<1>2. JobTyped' /\ job'[o][s].step = "clear"
      /\ \A p \in Owners, t \in Slots : p # o \/ t # s => job'[p][t] = job[p][t]
  BY <1>0, <1>1, Stepped
<1>3. TypeOK'
  BY <1>0, <1>1, <1>2, TypeParts, TypePartsNext, SameTypes DEF rows
<1> QED
  BY <1>1, <1>2, <1>3

\* A kill clears the mark it set, or one that is still owed.
LEMMA KillClearsDoes ==
    ASSUME Sound, NEW o \in Owners, NEW s \in Slots, KillClears(o, s)
    PROVE  /\ TypeOK' /\ job[o][s].step = "clear" /\ job'[o][s].step = "ok"
           /\ \A p \in Owners, t \in Slots : p # o \/ t # s => job'[p][t] = job[p][t]
           /\ \A t \in Slots : t # s => killed'[t] = killed[t]
           /\ unmarked \subseteq unmarked' /\ (killed[s] => s \in unmarked')
           /\ UNCHANGED <<mission, row, handle, forwarder, resuming, latest, child, slotOf, stop,
                          fwd, cancel, spawner, call, given, stuck, missed, overtaken>>
<1>0. JobTyped /\ TypeOK /\ MarksTyped /\ HistoryTyped /\ "ok" \in Steps /\ 0 \in 0 .. MaxChildren
  BY TypeParts, LifecycleAssumption DEF Sound, LifecycleAssumption, Steps
<1>1. UNCHANGED <<mission, row, handle, forwarder, resuming, latest, child, slotOf, stop,
                  fwd, cancel, spawner, call, given, stuck, missed, overtaken>>
      /\ job[o][s].step = "clear" /\ Step(o, s, "ok", 0) /\ killed' = [killed EXCEPT ![s] = FALSE]
      /\ unmarked' = IF killed[s] THEN unmarked \cup {s} ELSE unmarked
  BY DEF KillClears, rows, procs, bounds
<1>2. JobTyped' /\ job'[o][s].step = "ok"
      /\ \A p \in Owners, t \in Slots : p # o \/ t # s => job'[p][t] = job[p][t]
  BY <1>0, <1>1, Stepped
<1>3. MarksTyped' /\ \A t \in Slots : t # s => killed'[t] = killed[t]
  BY <1>0, <1>1 DEF MarksTyped
<1>4. HistoryTyped' /\ unmarked \subseteq unmarked' /\ (killed[s] => s \in unmarked')
  BY <1>0, <1>1 DEF HistoryTyped
<1>5. TypeOK'
  BY <1>0, <1>1, <1>2, <1>3, <1>4, TypeParts, TypePartsNext, SameTypes DEF rows
<1> QED
  BY <1>1, <1>2, <1>3, <1>4, <1>5

-----------------------------------------------------------------------------
(* The forwarders.                                                         *)

\* The best-effort stop of whatever process has the session's id: it ends, or is
\* left to itself and counted.
Ended(s) ==
    \/ /\ UNCHANGED stuck
       /\ \A c \in Children : child'[c] = IF c = latest[s] /\ child[c] = "alive" THEN "dead" ELSE child[c]
    \/ /\ stuck' = stuck + 1 /\ stuck' # 0 /\ latest[s] \in Children /\ child[latest[s]] = "alive"
       /\ \A c \in Children : child'[c] = IF c = latest[s] THEN "stray" ELSE child[c]

\* A best-effort stop ends the latest process, or leaves it and counts that.
LEMMA BestEffort ==
    ASSUME TypeOK, NEW s \in Slots,
           (StopLatest(s, "dead") /\ UNCHANGED stuck) \/ (StopFails(s) /\ Strays(s)), UNCHANGED given
    PROVE  ChildTyped' /\ BoundsTyped' /\ Ended(s)
<1>0. ChildTyped /\ BoundsTyped /\ ProcsTyped
  BY TypeParts
<1>1. CASE StopLatest(s, "dead") /\ UNCHANGED stuck
  <2>1. ChildTyped' /\ \A c \in Children : child'[c] =
                                 IF c = latest[s] /\ child[c] = "alive" THEN "dead" ELSE child[c]
    BY <1>0, <1>1, Stopped
  <2> QED
    BY <1>0, <1>1, <2>1, SameTypes DEF Ended
<1>2. CASE StopFails(s) /\ Strays(s)
  <2>1. /\ latest[s] \in Children /\ child[latest[s]] = "alive" /\ stuck' = stuck + 1
        /\ stuck' \in 0 .. MaxMoves /\ ChildTyped'
        /\ \A c \in Children : child'[c] = IF c = latest[s] THEN "stray" ELSE child[c]
    BY <1>0, <1>2, Strayed
  <2>2. BoundsTyped' /\ stuck' # 0
    BY <1>0, <2>1 DEF BoundsTyped
  <2> QED
    BY <2>1, <2>2 DEF Ended
<1> QED
  BY <1>1, <1>2

\* A forwarder leaves its loop, by the flag or by the end of the process.
LEMMA ForwarderLeavesDoes ==
    ASSUME Sound, NEW c \in Children, ForwarderLeaves(c)
    PROVE  /\ TypeOK' /\ fwd[c].pc = "drain" /\ (stop[c] \/ child[c] # "alive")
           /\ slotOf[c] \in Slots /\ child[c] # "none"
           /\ Ended(slotOf[c])
           /\ fwd'[c].pc = "take" /\ fwd'[c].wasKilled = fwd[c].wasKilled
           /\ \A d \in Children : d # c => fwd'[d] = fwd[d]
           /\ UNCHANGED <<mission, row, handle, forwarder, killed, resuming, latest, slotOf, stop,
                          cancel, spawner, call, job, given, missed, overtaken, unmarked>>
<1>1. /\ fwd[c].pc = "drain" /\ (stop[c] \/ child[c] # "alive") /\ fwd' = [fwd EXCEPT ![c].pc = "take"]
      /\ (StopLatest(slotOf[c], "dead") /\ UNCHANGED stuck) \/ (StopFails(slotOf[c]) /\ Strays(slotOf[c]))
      /\ UNCHANGED <<mission, row, handle, forwarder, killed, resuming, latest, slotOf, stop,
                     cancel, spawner, call, job, given, missed, overtaken, unmarked>>
  BY DEF ForwarderLeaves, Alive, rows, handles, history
<1>2. slotOf[c] \in Slots /\ child[c] # "none"
  BY <1>1, ForwardersHaveSlots DEF Sound
<1>3. ChildTyped' /\ BoundsTyped' /\ Ended(slotOf[c])
  BY <1>1, <1>2, BestEffort DEF Sound
<1>4. /\ FwdTyped' /\ fwd'[c].pc = "take" /\ fwd'[c].wasKilled = fwd[c].wasKilled
      /\ \A d \in Children : d # c => fwd'[d] = fwd[d]
  BY <1>1, Forwarded, TypeParts DEF Sound
<1>5. TypeOK'
  BY <1>1, <1>3, <1>4, TypeParts, TypePartsNext, SameTypes DEF Sound, rows
<1> QED
  BY <1>1, <1>2, <1>3, <1>4, <1>5

\* A forwarder takes the mark of its session.
LEMMA ForwarderTakesKilledDoes ==
    ASSUME Sound, NEW c \in Children, ForwarderTakesKilled(c)
    PROVE  /\ TypeOK' /\ fwd[c].pc = "take" /\ slotOf[c] \in Slots /\ child[c] # "none"
           /\ fwd'[c].pc = "row" /\ fwd'[c].wasKilled = killed[slotOf[c]]
           /\ \A d \in Children : d # c => fwd'[d] = fwd[d]
           /\ \A t \in Slots : t # slotOf[c] => killed'[t] = killed[t]
           /\ UNCHANGED <<mission, row, handle, forwarder, resuming, latest, child, slotOf, stop,
                          cancel, spawner, call, job, given, stuck, missed, overtaken, unmarked>>
<1>1. /\ fwd[c].pc = "take" /\ fwd' = [fwd EXCEPT ![c].pc = "row", ![c].wasKilled = killed[slotOf[c]]]
      /\ killed' = [killed EXCEPT ![slotOf[c]] = FALSE]
      /\ UNCHANGED <<mission, row, handle, forwarder, resuming, latest, child, slotOf, stop,
                     cancel, spawner, call, job, given, stuck, missed, overtaken, unmarked>>
  BY DEF ForwarderTakesKilled, rows, procs, bounds, history
<1>2. slotOf[c] \in Slots /\ child[c] # "none" /\ FwdTyped /\ MarksTyped
  BY <1>1, ForwardersHaveSlots, TypeParts DEF Sound
<1> DEFINE mark == killed[slotOf[c]]
<1>3. mark \in BOOLEAN /\ fwd' = [fwd EXCEPT ![c].pc = "row", ![c].wasKilled = mark]
  BY <1>1, <1>2 DEF MarksTyped
<1> HIDE DEF mark
<1>4. FwdTyped'
  BY <1>2, <1>3 DEF FwdTyped, FwdType
<1>5. fwd'[c].pc = "row" /\ fwd'[c].wasKilled = mark /\ \A d \in Children : d # c => fwd'[d] = fwd[d]
  BY <1>2, <1>3 DEF FwdTyped, FwdType
<1>6. MarksTyped' /\ \A t \in Slots : t # slotOf[c] => killed'[t] = killed[t]
  BY <1>1, <1>2 DEF MarksTyped
<1>7. TypeOK'
  BY <1>1, <1>4, <1>6, TypeParts, TypePartsNext, SameTypes DEF Sound, rows
<1> QED
  BY <1>1, <1>2, <1>5, <1>6, <1>7 DEF mark

\* A forwarder writes the row's exit.
LEMMA ForwarderWritesExitDoes ==
    ASSUME Sound, NEW c \in Children, ForwarderWritesExit(c)
    PROVE  /\ TypeOK' /\ fwd[c].pc = "row" /\ slotOf[c] \in Slots /\ child[c] # "none"
           /\ fwd'[c].pc = "forget" /\ fwd'[c].wasKilled = fwd[c].wasKilled
           /\ \A d \in Children : d # c => fwd'[d] = fwd[d]
           /\ row'[slotOf[c]] = "exited" /\ \A t \in Slots : t # slotOf[c] => row'[t] = row[t]
           /\ UNCHANGED <<mission, handle, forwarder, killed, resuming, latest, child, slotOf, stop,
                          cancel, spawner, call, job, given, stuck, missed, overtaken, unmarked>>
<1>1. /\ fwd[c].pc = "row" /\ fwd' = [fwd EXCEPT ![c].pc = "forget"]
      /\ row' = [row EXCEPT ![slotOf[c]] = "exited"]
      /\ UNCHANGED <<mission, handle, forwarder, killed, resuming, latest, child, slotOf, stop,
                     cancel, spawner, call, job, given, stuck, missed, overtaken, unmarked>>
  BY DEF ForwarderWritesExit, Forwards, handles, procs, bounds, history
<1>2. slotOf[c] \in Slots /\ child[c] # "none" /\ FwdTyped /\ RowsTyped
  BY <1>1, ForwardersHaveSlots, TypeParts DEF Sound
<1>3. /\ FwdTyped' /\ fwd'[c].pc = "forget" /\ fwd'[c].wasKilled = fwd[c].wasKilled
      /\ \A d \in Children : d # c => fwd'[d] = fwd[d]
  BY <1>1, <1>2, Forwarded
<1>4. RowsTyped' /\ row'[slotOf[c]] = "exited" /\ \A t \in Slots : t # slotOf[c] => row'[t] = row[t]
  BY <1>1, <1>2 DEF RowsTyped, Statuses
<1>5. TypeOK'
  BY <1>1, <1>3, <1>4, TypeParts, TypePartsNext, SameTypes DEF Sound
<1> QED
  BY <1>1, <1>2, <1>3, <1>4, <1>5

\* A forwarder drops the handle, if it is still its own.
LEMMA ForwarderForgetsDoes ==
    ASSUME Sound, NEW c \in Children, ForwarderForgets(c)
    PROVE  /\ TypeOK' /\ fwd[c].pc = "forget" /\ slotOf[c] \in Slots /\ child[c] # "none"
           /\ fwd'[c].pc \in {"done", "reap"} /\ fwd'[c].wasKilled = fwd[c].wasKilled
           /\ \A d \in Children : d # c => fwd'[d] = fwd[d]
           /\ handle'[slotOf[c]] = 0 /\ \A t \in Slots : t # slotOf[c] => handle'[t] = handle[t]
           /\ UNCHANGED <<mission, row, killed, resuming, latest, child, slotOf, stop,
                          cancel, spawner, call, job, given, stuck, missed, overtaken, unmarked>>
<1> DEFINE to == IF fwd[c].wasKilled THEN "done" ELSE "reap"
<1>1. /\ fwd[c].pc = "forget" /\ fwd' = [fwd EXCEPT ![c].pc = to]
      /\ handle' = [handle EXCEPT ![slotOf[c]] = 0] /\ forwarder' = [forwarder EXCEPT ![slotOf[c]] = 0]
      /\ UNCHANGED <<mission, row, killed, resuming, latest, child, slotOf, stop,
                     cancel, spawner, call, job, given, stuck, missed, overtaken, unmarked>>
  BY DEF ForwarderForgets, rows, procs, bounds, history
<1>2. slotOf[c] \in Slots /\ child[c] # "none" /\ FwdTyped /\ HandleTyped
  BY <1>1, ForwardersHaveSlots, TypeParts DEF Sound
<1>3. to \in {"done", "reap"} /\ 0 \in 0 .. MaxChildren
  BY LifecycleAssumption DEF LifecycleAssumption
<1> HIDE DEF to
<1>4. /\ FwdTyped' /\ fwd'[c].pc = to /\ fwd'[c].wasKilled = fwd[c].wasKilled
      /\ \A d \in Children : d # c => fwd'[d] = fwd[d]
  BY <1>1, <1>2, <1>3, Forwarded
<1>5. HandleTyped' /\ handle'[slotOf[c]] = 0 /\ \A t \in Slots : t # slotOf[c] => handle'[t] = handle[t]
  BY <1>1, <1>2, <1>3 DEF HandleTyped
<1>6. TypeOK'
  BY <1>1, <1>4, <1>5, TypeParts, TypePartsNext, SameTypes DEF Sound, rows
<1> QED
  BY <1>1, <1>2, <1>3, <1>4, <1>5, <1>6

\* A reap or a stop of the mission sends its jobs out and raises the flag.
SentAll(o) ==
    /\ cancel' = IF cancel = "clear" THEN "set" ELSE cancel
    /\ \A s \in Slots : job'[o][s].step = IF handle[s] = 0 THEN "none" ELSE "mark"
    /\ \A p \in Owners, t \in Slots : p # o => job'[p][t] = job[p][t]

\* A forwarder that saw a crash kills the rest of the mission.
LEMMA ForwarderReapsDoes ==
    ASSUME Sound, NEW c \in Children, ForwarderReaps(c)
    PROVE  /\ TypeOK' /\ fwd[c].pc = "reap" /\ fwd'[c].pc \in {"reaping", "done"}
           /\ fwd'[c].wasKilled = fwd[c].wasKilled
           /\ \A d \in Children : d # c => fwd'[d] = fwd[d]
           /\ SentAll(c) \/ UNCHANGED <<cancel, job>>
           /\ UNCHANGED <<mission, row, handle, forwarder, killed, resuming, latest, child, slotOf, stop,
                          spawner, call, given, stuck, missed, overtaken, unmarked>>
<1>1. /\ UNCHANGED <<mission, row, handle, forwarder, killed, resuming, latest, child, slotOf, stop,
                     spawner, call, given, stuck, missed, overtaken, unmarked>>
      /\ fwd[c].pc = "reap"
      /\ \/ KillAll(c) /\ fwd' = [fwd EXCEPT ![c].pc = "reaping"]
         \/ UNCHANGED <<cancel, job>> /\ fwd' = [fwd EXCEPT ![c].pc = "done"]
  BY DEF ForwarderReaps, Reap, Forwards, rows, handles, procs, bounds, history
<1>2. FwdTyped /\ JobTyped /\ CancelTyped /\ c \in Owners
  BY TypeParts, OwnersAre DEF Sound, OwnerKinds
<1>3. ASSUME NEW to \in {"reaping", "done"}, fwd' = [fwd EXCEPT ![c].pc = to]
      PROVE  /\ FwdTyped' /\ fwd'[c].pc \in {"reaping", "done"} /\ fwd'[c].wasKilled = fwd[c].wasKilled
             /\ \A d \in Children : d # c => fwd'[d] = fwd[d]
  BY <1>2, <1>3, Forwarded
<1>4. /\ FwdTyped' /\ fwd'[c].pc \in {"reaping", "done"} /\ fwd'[c].wasKilled = fwd[c].wasKilled
      /\ \A d \in Children : d # c => fwd'[d] = fwd[d]
  BY <1>1, <1>3
<1>5. JobTyped' /\ CancelTyped' /\ (SentAll(c) \/ UNCHANGED <<cancel, job>>)
  <2>1. CASE KillAll(c)
    BY <1>2, <2>1, KilledAll DEF SentAll
  <2>2. CASE UNCHANGED <<cancel, job>>
    BY <1>2, <2>2, SameTypes
  <2> QED
    BY <1>1, <2>1, <2>2
<1>6. TypeOK'
  BY <1>1, <1>4, <1>5, TypeParts, TypePartsNext, SameTypes DEF Sound, rows
<1> QED
  BY <1>1, <1>4, <1>5, <1>6

\* A forwarder's kills are over.
LEMMA ForwarderEndsDoes ==
    ASSUME Sound, NEW c \in Children, ForwarderEnds(c)
    PROVE  /\ TypeOK' /\ fwd[c].pc = "reaping" /\ fwd'[c].pc = "done"
           /\ fwd'[c].wasKilled = fwd[c].wasKilled
           /\ \A d \in Children : d # c => fwd'[d] = fwd[d]
           /\ \A s \in Slots : job'[c][s].step = "none"
           /\ \A p \in Owners, t \in Slots : p # c => job'[p][t] = job[p][t]
           /\ UNCHANGED <<mission, row, handle, forwarder, killed, resuming, latest, child, slotOf, stop,
                          cancel, spawner, call, given, stuck, missed, overtaken, unmarked>>
<1>1. /\ UNCHANGED <<mission, row, handle, forwarder, killed, resuming, latest, child, slotOf, stop,
                     cancel, spawner, call, given, stuck, missed, overtaken, unmarked>>
      /\ fwd[c].pc = "reaping" /\ fwd' = [fwd EXCEPT ![c].pc = "done"] /\ job' = Cleared(c)
  BY DEF ForwarderEnds, Forwards, rows, handles, procs, bounds, history
<1>2. FwdTyped /\ JobTyped /\ c \in Owners
  BY TypeParts, OwnersAre DEF Sound, OwnerKinds
<1>3. /\ FwdTyped' /\ fwd'[c].pc = "done" /\ fwd'[c].wasKilled = fwd[c].wasKilled
      /\ \A d \in Children : d # c => fwd'[d] = fwd[d]
  BY <1>1, <1>2, Forwarded
<1>4. /\ JobTyped' /\ \A s \in Slots : job'[c][s].step = "none"
      /\ \A p \in Owners, t \in Slots : p # c => job'[p][t] = job[p][t]
  BY <1>1, <1>2, ClearedJobs
<1>5. TypeOK'
  BY <1>1, <1>3, <1>4, TypeParts, TypePartsNext, SameTypes DEF Sound, rows
<1> QED
  BY <1>1, <1>3, <1>4, <1>5

-----------------------------------------------------------------------------
(* What each action does: the spawn thread.                                 *)

\* A fork for s makes n its latest process.
ForkedFor(s, n) ==
    /\ n \in Children /\ child[n] = "none" /\ child'[n] = "alive" /\ slotOf'[n] = s /\ latest'[s] = n
    /\ \A c \in Children : c # n => child'[c] = child[c] /\ slotOf'[c] = slotOf[c]
    /\ \A t \in Slots : t # s => latest'[t] = latest[t]
    /\ \E m \in 0 .. MaxChildren : Born' = 1 .. m

\* The spawn thread takes a slot of those left.
LEMMA SpawnNextDoes ==
    ASSUME Sound, SpawnNext
    PROVE  /\ TypeOK' /\ spawner.pc = "next"
           /\ \E s \in spawner.todo :
                 /\ s \in Slots /\ spawner'.todo = spawner.todo \ {s}
                 /\ \/ /\ cancel = "set" /\ spawner'.pc = "next" /\ spawner'.slot = spawner.slot
                       /\ spawner'.child = spawner.child
                       /\ row'[s] = "exited" /\ \A t \in Slots : t # s => row'[t] = row[t]
                    \/ /\ cancel # "set" /\ spawner'.pc = "gate" /\ spawner'.slot = s
                       /\ UNCHANGED row
           /\ UNCHANGED <<mission, handle, forwarder, killed, resuming, latest, child, slotOf, stop,
                          fwd, cancel, call, job, given, stuck, missed, overtaken, unmarked>>
<1>0. SpawnerTyped /\ RowsTyped
  BY TypeParts DEF Sound
<1>1. PICK s \in spawner.todo :
          \/ /\ cancel = "set" /\ row' = [row EXCEPT ![s] = "exited"] /\ UNCHANGED mission
             /\ spawner' = [spawner EXCEPT !.todo = spawner.todo \ {s}]
          \/ /\ cancel # "set" /\ UNCHANGED <<mission, row>>
             /\ spawner' = [spawner EXCEPT !.pc = "gate", !.slot = s, !.todo = spawner.todo \ {s}]
  BY Zenon DEF SpawnNext, SpawnCancelled, rows
<1>2. /\ UNCHANGED <<handle, forwarder, killed, resuming, latest, child, slotOf, stop,
                     fwd, cancel, call, job, given, stuck, missed, overtaken, unmarked>>
      /\ spawner.pc = "next"
  BY DEF SpawnNext, SpawnCancelled, rows, handles, procs, history
<1>3. s \in Slots /\ spawner.todo \ {s} \in SUBSET Slots
  BY <1>0, <1>1 DEF SpawnerTyped, SpawnerType
<1>4. ASSUME cancel = "set", row' = [row EXCEPT ![s] = "exited"], UNCHANGED mission,
             spawner' = [spawner EXCEPT !.todo = spawner.todo \ {s}]
      PROVE  /\ RowsTyped' /\ SpawnerTyped' /\ UNCHANGED mission
             /\ spawner'.todo = spawner.todo \ {s} /\ spawner'.pc = "next" /\ spawner'.slot = spawner.slot
             /\ spawner'.child = spawner.child
             /\ row'[s] = "exited" /\ \A t \in Slots : t # s => row'[t] = row[t]
  <2>1. RowsTyped' /\ row'[s] = "exited" /\ \A t \in Slots : t # s => row'[t] = row[t]
    BY <1>0, <1>3, <1>4 DEF RowsTyped, Statuses
  <2>2. /\ SpawnerTyped' /\ spawner'.todo = spawner.todo \ {s} /\ spawner'.pc = "next"
        /\ spawner'.slot = spawner.slot /\ spawner'.child = spawner.child
    BY <1>0, <1>2, <1>3, <1>4 DEF SpawnerTyped, SpawnerType
  <2> QED
    BY <1>4, <2>1, <2>2
<1>5. ASSUME cancel # "set", UNCHANGED <<mission, row>>,
             spawner' = [spawner EXCEPT !.pc = "gate", !.slot = s, !.todo = spawner.todo \ {s}]
      PROVE  /\ RowsTyped' /\ SpawnerTyped' /\ UNCHANGED <<mission, row>>
             /\ spawner'.todo = spawner.todo \ {s} /\ spawner'.pc = "gate" /\ spawner'.slot = s
  BY <1>0, <1>2, <1>3, <1>5 DEF SpawnerTyped, SpawnerType, RowsTyped
<1>6. TypeOK'
  BY <1>1, <1>2, <1>4, <1>5, TypeParts, TypePartsNext, SameTypes DEF Sound
<1> QED
  BY <1>1, <1>2, <1>3, <1>4, <1>5, <1>6

\* The spawn thread ends, and its flag with it.
LEMMA SpawnDrainedDoes ==
    ASSUME Sound, SpawnDrained
    PROVE  /\ TypeOK' /\ spawner.pc = "next" /\ spawner.todo = {}
           /\ spawner'.pc = "done" /\ spawner'.todo = {} /\ spawner'.slot = spawner.slot
           /\ spawner'.child = spawner.child /\ cancel' = "none"
           /\ UNCHANGED <<mission, row, handle, forwarder, killed, resuming, latest, child, slotOf, stop,
                          fwd, call, job, given, stuck, missed, overtaken, unmarked>>
<1>1. /\ UNCHANGED <<mission, row, handle, forwarder, killed, resuming, latest, child, slotOf, stop,
                     fwd, call, job, given, stuck, missed, overtaken, unmarked>>
      /\ spawner.pc = "next" /\ spawner.todo = {} /\ SpawnTo("done") /\ cancel' = "none"
  BY DEF SpawnDrained, rows, handles, procs, bounds, history
<1>2. SpawnerTyped' /\ spawner'.pc = "done" /\ spawner'.todo = {} /\ spawner'.slot = spawner.slot
      /\ spawner'.child = spawner.child /\ CancelTyped'
  BY <1>1, SpawnerGoes, TypeParts DEF Sound, CancelTyped
<1>3. TypeOK'
  BY <1>1, <1>2, TypeParts, TypePartsNext, SameTypes DEF Sound, rows
<1> QED
  BY <1>1, <1>2, <1>3

\* The spawn thread forks for its slot.
LEMMA SpawnForksDoes ==
    ASSUME Sound, SpawnForks
    PROVE  /\ TypeOK' /\ spawner.pc = "gate" /\ cancel # "set" /\ spawner.slot \in Slots
           /\ spawner'.pc = "recheck" /\ spawner'.todo = spawner.todo /\ spawner'.slot = spawner.slot
           /\ ForkedFor(spawner.slot, spawner'.child)
           /\ UNCHANGED <<mission, row, handle, forwarder, killed, resuming, stop,
                          fwd, cancel, call, job, given, stuck, missed, overtaken, unmarked>>
<1>0. SpawnerTyped /\ ChildTyped /\ ProcsTyped /\ Numbered
  BY TypeParts DEF Sound
<1>1. /\ UNCHANGED <<mission, row, handle, forwarder, killed, resuming, stop,
                     fwd, cancel, call, job, given, stuck, missed, overtaken, unmarked>>
      /\ spawner.pc = "gate" /\ cancel # "set" /\ Fork(spawner.slot)
      /\ spawner' = [spawner EXCEPT !.pc = "recheck", !.child = NextChild]
  BY DEF SpawnForks, Fork, rows, handles, bounds, history
<1>2. spawner.slot \in Slots
  BY <1>1 DEF Sound, SpawnerStands
<1> DEFINE new == NextChild
<1>3. ProcsTyped' /\ ChildTyped' /\ ForkedFor(spawner.slot, new)
  BY <1>0, <1>1, <1>2, Forked DEF ForkedFor
<1>4. new \in 0 .. MaxChildren /\ spawner' = [spawner EXCEPT !.pc = "recheck", !.child = new]
  BY <1>1, <1>3 DEF ForkedFor, Children
<1> HIDE DEF new
<1>5. SpawnerTyped' /\ spawner'.pc = "recheck" /\ spawner'.todo = spawner.todo
      /\ spawner'.slot = spawner.slot /\ spawner'.child = new
  BY <1>0, <1>4 DEF SpawnerTyped, SpawnerType
<1>6. TypeOK'
  BY <1>1, <1>3, <1>5, TypeParts, TypePartsNext, SameTypes DEF Sound, rows
<1> QED
  BY <1>1, <1>2, <1>3, <1>5, <1>6

\* The spawn thread finds the flag raised before it forks.
LEMMA SpawnCancelledInGateDoes ==
    ASSUME Sound, SpawnCancelledInGate
    PROVE  /\ TypeOK' /\ spawner.pc = "gate" /\ cancel = "set" /\ spawner.slot \in Slots
           /\ spawner'.pc = "next" /\ spawner'.todo = spawner.todo /\ spawner'.slot = None
           /\ spawner'.child = 0
           /\ row'[spawner.slot] = "exited" /\ \A t \in Slots : t # spawner.slot => row'[t] = row[t]
           /\ UNCHANGED <<mission, handle, forwarder, killed, resuming, latest, child, slotOf, stop,
                          fwd, cancel, call, job, given, stuck, missed, overtaken, unmarked>>
<1>1. /\ UNCHANGED <<mission, handle, forwarder, killed, resuming, latest, child, slotOf, stop,
                     fwd, cancel, call, job, given, stuck, missed, overtaken, unmarked>>
      /\ spawner.pc = "gate" /\ cancel = "set" /\ SpawnOn
      /\ row' = [row EXCEPT ![spawner.slot] = "exited"]
  BY DEF SpawnCancelledInGate, SpawnCancelled, handles, procs, history
<1>2. spawner.slot \in Slots /\ RowsTyped /\ SpawnerTyped
  BY <1>1, TypeParts DEF Sound, SpawnerStands
<1>3. RowsTyped' /\ row'[spawner.slot] = "exited" /\ \A t \in Slots : t # spawner.slot => row'[t] = row[t]
  BY <1>1, <1>2 DEF RowsTyped, Statuses
<1>4. SpawnerTyped' /\ spawner'.pc = "next" /\ spawner'.todo = spawner.todo /\ spawner'.slot = None
      /\ spawner'.child = 0
  BY <1>1, <1>2, SpawnerGoes
<1>5. TypeOK'
  BY <1>1, <1>3, <1>4, TypeParts, TypePartsNext, SameTypes DEF Sound
<1> QED
  BY <1>1, <1>2, <1>3, <1>4, <1>5

\* A fork of the spawn thread fails.
LEMMA SpawnFailsDoes ==
    ASSUME Sound, SpawnFails
    PROVE  /\ TypeOK' /\ spawner.pc = "gate" /\ cancel # "set" /\ spawner.slot \in Slots
           /\ spawner'.pc = "reap" /\ spawner'.todo = spawner.todo /\ spawner'.slot = spawner.slot
           /\ spawner'.child = spawner.child
           /\ row'[spawner.slot] = "exited" /\ \A t \in Slots : t # spawner.slot => row'[t] = row[t]
           /\ UNCHANGED <<mission, handle, forwarder, killed, resuming, latest, child, slotOf, stop,
                          fwd, cancel, call, job, given, stuck, missed, overtaken, unmarked>>
<1>1. /\ UNCHANGED <<mission, handle, forwarder, killed, resuming, latest, child, slotOf, stop,
                     fwd, cancel, call, job, given, stuck, missed, overtaken, unmarked>>
      /\ spawner.pc = "gate" /\ cancel # "set" /\ SpawnTo("reap")
      /\ row' = [row EXCEPT ![spawner.slot] = "exited"]
  BY DEF SpawnFails, handles, procs, bounds, history
<1>2. spawner.slot \in Slots /\ RowsTyped /\ SpawnerTyped
  BY <1>1, TypeParts DEF Sound, SpawnerStands
<1>3. RowsTyped' /\ row'[spawner.slot] = "exited" /\ \A t \in Slots : t # spawner.slot => row'[t] = row[t]
  BY <1>1, <1>2 DEF RowsTyped, Statuses
<1>4. SpawnerTyped' /\ spawner'.pc = "reap" /\ spawner'.todo = spawner.todo
      /\ spawner'.slot = spawner.slot /\ spawner'.child = spawner.child
  BY <1>1, <1>2, SpawnerGoes
<1>5. TypeOK'
  BY <1>1, <1>3, <1>4, TypeParts, TypePartsNext, SameTypes DEF Sound
<1> QED
  BY <1>1, <1>2, <1>3, <1>4, <1>5

\* After a failed fork the spawn thread kills the mission's sessions.
LEMMA SpawnReapsDoes ==
    ASSUME Sound, SpawnReaps
    PROVE  /\ TypeOK' /\ spawner.pc = "reap" /\ spawner'.todo = spawner.todo
           /\ \/ spawner'.pc = "reaping" /\ spawner'.slot = spawner.slot /\ SentAll(Spawner)
              \/ spawner'.pc = "next" /\ spawner'.slot = None /\ UNCHANGED <<cancel, job>>
           /\ UNCHANGED <<mission, row, handle, forwarder, killed, resuming, latest, child, slotOf, stop,
                          fwd, call, given, stuck, missed, overtaken, unmarked>>
<1>1. /\ UNCHANGED <<mission, row, handle, forwarder, killed, resuming, latest, child, slotOf, stop,
                     fwd, call, given, stuck, missed, overtaken, unmarked>>
      /\ spawner.pc = "reap"
      /\ \/ KillAll(Spawner) /\ SpawnTo("reaping")
         \/ SpawnOn /\ UNCHANGED <<cancel, job>>
  BY DEF SpawnReaps, Reap, rows, handles, procs, bounds, history
<1>2. SpawnerTyped /\ JobTyped /\ CancelTyped /\ Spawner \in Owners
  BY TypeParts, OwnersAre DEF Sound, OwnerKinds
<1>3. CASE KillAll(Spawner) /\ SpawnTo("reaping")
  <2>1. JobTyped' /\ CancelTyped' /\ SentAll(Spawner)
    BY <1>2, <1>3, KilledAll DEF SentAll
  <2>2. SpawnerTyped' /\ spawner'.pc = "reaping" /\ spawner'.slot = spawner.slot
        /\ spawner'.todo = spawner.todo
    BY <1>2, <1>3, SpawnerGoes
  <2>3. TypeOK'
    BY <1>1, <2>1, <2>2, TypeParts, TypePartsNext, SameTypes DEF Sound, rows
  <2> QED
    BY <1>1, <2>1, <2>2, <2>3
<1>4. CASE SpawnOn /\ UNCHANGED <<cancel, job>>
  <2>1. SpawnerTyped' /\ spawner'.pc = "next" /\ spawner'.slot = None /\ spawner'.todo = spawner.todo
    BY <1>2, <1>4, SpawnerGoes
  <2>2. TypeOK'
    BY <1>1, <1>4, <2>1, TypeParts, TypePartsNext, SameTypes DEF Sound, rows
  <2> QED
    BY <1>1, <1>4, <2>1, <2>2
<1> QED
  BY <1>1, <1>3, <1>4

\* The spawn thread's kills are over.
LEMMA SpawnReapedDoes ==
    ASSUME Sound, SpawnReaped
    PROVE  /\ TypeOK' /\ spawner.pc = "reaping" /\ spawner'.todo = spawner.todo
           /\ spawner'.pc = "next" /\ spawner'.slot = None
           /\ \A s \in Slots : job'[Spawner][s].step = "none"
           /\ \A p \in Owners, t \in Slots : p # Spawner => job'[p][t] = job[p][t]
           /\ UNCHANGED <<mission, row, handle, forwarder, killed, resuming, latest, child, slotOf, stop,
                          fwd, cancel, call, given, stuck, missed, overtaken, unmarked>>
<1>1. /\ UNCHANGED <<mission, row, handle, forwarder, killed, resuming, latest, child, slotOf, stop,
                     fwd, cancel, call, given, stuck, missed, overtaken, unmarked>>
      /\ spawner.pc = "reaping" /\ SpawnOn /\ job' = Cleared(Spawner)
  BY DEF SpawnReaped, rows, handles, procs, bounds, history
<1>2. SpawnerTyped /\ JobTyped /\ Spawner \in Owners
  BY TypeParts, OwnersAre DEF Sound, OwnerKinds
<1>3. /\ JobTyped' /\ \A s \in Slots : job'[Spawner][s].step = "none"
      /\ \A p \in Owners, t \in Slots : p # Spawner => job'[p][t] = job[p][t]
  BY <1>1, <1>2, ClearedJobs
<1>4. SpawnerTyped' /\ spawner'.pc = "next" /\ spawner'.slot = None /\ spawner'.todo = spawner.todo
  BY <1>1, <1>2, SpawnerGoes
<1>5. TypeOK'
  BY <1>1, <1>3, <1>4, TypeParts, TypePartsNext, SameTypes DEF Sound, rows
<1> QED
  BY <1>1, <1>3, <1>4, <1>5

\* The spawn thread looks at the flag once more after the fork.
LEMMA SpawnRechecksDoes ==
    ASSUME Sound, SpawnRechecks
    PROVE  /\ TypeOK' /\ spawner.pc = "recheck" /\ spawner'.todo = spawner.todo /\ spawner.slot \in Slots
           /\ \/ /\ cancel = "set" /\ spawner'.pc = "next" /\ spawner'.slot = None /\ spawner'.child = 0
                 /\ row'[spawner.slot] = "exited" /\ \A t \in Slots : t # spawner.slot => row'[t] = row[t]
                 /\ Ended(spawner.slot)
              \/ /\ cancel # "set" /\ spawner'.pc = "install" /\ spawner'.slot = spawner.slot
                 /\ spawner'.child = spawner.child
                 /\ UNCHANGED <<row, child, stuck>>
           /\ UNCHANGED <<mission, handle, forwarder, killed, resuming, latest, slotOf, stop,
                          fwd, cancel, call, job, given, missed, overtaken, unmarked>>
<1>1. /\ UNCHANGED <<mission, handle, forwarder, killed, resuming, latest, slotOf, stop,
                     fwd, cancel, call, job, given, missed, overtaken, unmarked>>
      /\ spawner.pc = "recheck"
      /\ \/ /\ cancel = "set" /\ row' = [row EXCEPT ![spawner.slot] = "exited"] /\ SpawnOn
            /\ (StopLatest(spawner.slot, "dead") /\ UNCHANGED stuck)
               \/ (StopFails(spawner.slot) /\ Strays(spawner.slot))
         \/ cancel # "set" /\ SpawnTo("install") /\ UNCHANGED <<row, child, stuck>>
  BY DEF SpawnRechecks, SpawnCancelled, rows, handles, bounds, history
<1>2. spawner.slot \in Slots /\ RowsTyped /\ SpawnerTyped /\ BoundsTyped
  BY <1>1, TypeParts DEF Sound, SpawnerStands
<1>3. CASE /\ cancel = "set" /\ row' = [row EXCEPT ![spawner.slot] = "exited"] /\ SpawnOn
           /\ (StopLatest(spawner.slot, "dead") /\ UNCHANGED stuck)
              \/ (StopFails(spawner.slot) /\ Strays(spawner.slot))
  <2>1. RowsTyped' /\ row'[spawner.slot] = "exited" /\ \A t \in Slots : t # spawner.slot => row'[t] = row[t]
    BY <1>1, <1>2, <1>3 DEF RowsTyped, Statuses
  <2>2. SpawnerTyped' /\ spawner'.pc = "next" /\ spawner'.todo = spawner.todo /\ spawner'.slot = None
        /\ spawner'.child = 0
    BY <1>2, <1>3, SpawnerGoes
  <2>3. ChildTyped' /\ BoundsTyped' /\ Ended(spawner.slot)
    BY <1>1, <1>2, <1>3, BestEffort DEF Sound
  <2>4. TypeOK'
    BY <1>1, <2>1, <2>2, <2>3, TypeParts, TypePartsNext, SameTypes DEF Sound
  <2> QED
    BY <1>1, <1>2, <1>3, <2>1, <2>2, <2>3, <2>4
<1>4. CASE cancel # "set" /\ SpawnTo("install") /\ UNCHANGED <<row, child, stuck>>
  <2>1. SpawnerTyped' /\ spawner'.pc = "install" /\ spawner'.todo = spawner.todo
        /\ spawner'.slot = spawner.slot /\ spawner'.child = spawner.child
    BY <1>2, <1>4, SpawnerGoes
  <2>2. TypeOK'
    BY <1>1, <1>4, <2>1, TypeParts, TypePartsNext, SameTypes DEF Sound, rows
  <2> QED
    BY <1>1, <1>2, <1>4, <2>1, <2>2
<1> QED
  BY <1>1, <1>3, <1>4

\* A handle for c, of the slot s, and its forwarder.
Handled(s, c) ==
    /\ handle'[s] = c /\ ~killed'[s]
    /\ \A t \in Slots : t # s => handle'[t] = handle[t] /\ killed'[t] = killed[t]
    /\ fwd'[c].pc = "drain" /\ fwd'[c].wasKilled = fwd[c].wasKilled
    /\ \A d \in Children : d # c => fwd'[d] = fwd[d]

\* The spawn thread installs the handle of the new process.
LEMMA SpawnInstallsDoes ==
    ASSUME Sound, SpawnInstalls
    PROVE  /\ TypeOK' /\ spawner.pc = "install" /\ spawner'.pc = "attach"
           /\ spawner'.todo = spawner.todo /\ spawner'.slot = spawner.slot /\ spawner'.child = spawner.child
           /\ spawner.slot \in Slots /\ spawner.child \in Children
           /\ Handled(spawner.slot, spawner.child)
           /\ UNCHANGED <<mission, row, resuming, latest, child, slotOf, stop,
                          cancel, call, job, given, stuck, missed, overtaken, unmarked>>
<1>1. /\ UNCHANGED <<mission, row, resuming, latest, child, slotOf, stop,
                     cancel, call, job, given, stuck, missed, overtaken, unmarked>>
      /\ spawner.pc = "install" /\ SpawnTo("attach") /\ InstallHandle(spawner.slot, spawner.child)
  BY DEF SpawnInstalls, rows, procs, bounds, history
<1>2. /\ spawner.slot \in Slots /\ spawner.child \in Children /\ SpawnerTyped /\ HandleTyped
      /\ MarksTyped /\ FwdTyped
  BY <1>1, TypeParts DEF Sound, SpawnerStands, Named, SpawnerNamed
<1>3. HandleTyped' /\ MarksTyped' /\ FwdTyped' /\ Handled(spawner.slot, spawner.child)
  BY <1>1, <1>2, HandleInstalled DEF Handled
<1>4. SpawnerTyped' /\ spawner'.pc = "attach" /\ spawner'.todo = spawner.todo
      /\ spawner'.slot = spawner.slot /\ spawner'.child = spawner.child
  BY <1>1, <1>2, SpawnerGoes
<1>5. TypeOK'
  BY <1>1, <1>3, <1>4, TypeParts, TypePartsNext, SameTypes DEF Sound, rows
<1> QED
  BY <1>1, <1>2, <1>3, <1>4, <1>5

\* The spawn thread adds the join handle and goes on to the next slot.
LEMMA SpawnAttachesDoes ==
    ASSUME Sound, SpawnAttaches
    PROVE  /\ TypeOK' /\ spawner.pc = "attach" /\ spawner'.pc = "next"
           /\ spawner'.todo = spawner.todo /\ spawner'.slot = None
           /\ UNCHANGED <<mission, row, handle, killed, resuming, latest, child, slotOf, stop, fwd,
                          cancel, call, job, given, stuck, missed, overtaken, unmarked>>
<1>1. /\ UNCHANGED <<mission, row, handle, killed, resuming, latest, child, slotOf, stop, fwd,
                     cancel, call, job, given, stuck, missed, overtaken, unmarked>>
      /\ spawner.pc = "attach" /\ SpawnOn /\ InstallForwarder(spawner.slot, spawner.child)
  BY DEF SpawnAttaches, rows, procs, bounds, history
<1>2. spawner.slot \in Slots /\ spawner.child \in 0 .. MaxChildren /\ SpawnerTyped /\ HandleTyped
  BY <1>1, TypeParts DEF Sound, SpawnerStands, SpawnerTyped, SpawnerType
<1>3. HandleTyped'
  BY <1>1, <1>2, ForwarderInstalled
<1>4. SpawnerTyped' /\ spawner'.pc = "next" /\ spawner'.todo = spawner.todo /\ spawner'.slot = None
  BY <1>1, <1>2, SpawnerGoes
<1>5. TypeOK'
  BY <1>1, <1>3, <1>4, TypeParts, TypePartsNext, SameTypes DEF Sound, rows
<1> QED
  BY <1>1, <1>3, <1>4, <1>5

-----------------------------------------------------------------------------
(* What each action does: commands.                                         *)

-----------------------------------------------------------------------------
(* The commands.                                                           *)

\* The sessions past the last check of their fork are slots.
LEMMA InFlightAreSlots ==
    ASSUME Sound
    PROVE  InFlight \subseteq Slots
<1>1. ASSUME NEW k \in Callers, call[k].op \in {"resume", "restart"}
      PROVE  call[k].slot \in Slots
  BY <1>1 DEF Sound, ClaimsAreSingle, Claiming
<1>2. spawner.pc = "install" => spawner.slot \in Slots
  BY DEF Sound, SpawnerStands
<1> QED
  BY <1>1, <1>2 DEF InFlight

\* mission_stop, and the first half of mission_archive.
LEMMA StopMissionDoes ==
    ASSUME Sound, NEW k \in Callers, NEW op \in {"stop", "archive"}, StopMission(k, op)
    PROVE  /\ TypeOK' /\ call[k].pc = "idle"
           /\ call'[k].op = op /\ call'[k].pc = "killing" /\ call'[k].slot = None
           /\ \A j \in Callers : j # k => call'[j] = call[j]
           /\ SentAll(k)
           /\ missed' = IF op = "archive" THEN missed \cup InFlight ELSE missed
           /\ UNCHANGED <<mission, row, handle, forwarder, killed, resuming, latest, child, slotOf, stop,
                          fwd, spawner, stuck, overtaken, unmarked>>
<1>1. /\ UNCHANGED <<mission, row, handle, forwarder, killed, resuming, latest, child, slotOf, stop,
                     fwd, spawner, stuck, overtaken, unmarked>>
      /\ Gives(k, op, None, "killing") /\ KillAll(k)
      /\ missed' = IF op = "archive" THEN missed \cup InFlight ELSE missed
  BY DEF StopMission, rows, handles, procs
<1>2. CallTyped /\ JobTyped /\ CancelTyped /\ HistoryTyped /\ BoundsTyped /\ k \in Owners
  BY TypeParts, OwnersAre DEF Sound, OwnerKinds
<1>3. /\ CallTyped' /\ call[k].pc = "idle" /\ given' \in 0 .. MaxMoves
      /\ call'[k].op = op /\ call'[k].pc = "killing" /\ call'[k].slot = None
      /\ \A j \in Callers : j # k => call'[j] = call[j]
  BY <1>1, <1>2, Given DEF Sound
<1>4. JobTyped' /\ CancelTyped' /\ SentAll(k)
  BY <1>1, <1>2, KilledAll DEF SentAll
<1>5. HistoryTyped'
  BY <1>1, <1>2, InFlightAreSlots DEF HistoryTyped
<1>6. BoundsTyped'
  BY <1>1, <1>2, <1>3 DEF BoundsTyped
<1>7. TypeOK'
  BY <1>1, <1>3, <1>4, <1>5, <1>6, TypeParts, TypePartsNext, SameTypes DEF Sound, rows
<1> QED
  BY <1>1, <1>3, <1>4, <1>7

\* session_kill begins.
LEMMA KillSessionDoes ==
    ASSUME Sound, NEW k \in Callers, NEW s \in Slots, KillSession(k, s)
    PROVE  /\ TypeOK' /\ call[k].pc = "idle"
           /\ call'[k].op = "kill" /\ call'[k].pc = "killing" /\ call'[k].slot = s
           /\ \A j \in Callers : j # k => call'[j] = call[j]
           /\ handle[s] = 0 => job'[k][s].step = "ok" /\ UNCHANGED killed
           /\ handle[s] # 0 => /\ handle[s] \in Children /\ killed'[s]
                               /\ job'[k][s].step = "stop" /\ job'[k][s].child = handle[s]
           /\ \A t \in Slots : t # s => killed'[t] = killed[t]
           /\ \A p \in Owners, t \in Slots : p # k \/ t # s => job'[p][t] = job[p][t]
           /\ UNCHANGED <<mission, row, handle, forwarder, resuming, latest, child, slotOf, stop,
                          fwd, cancel, spawner, stuck, missed, overtaken, unmarked>>
<1>1. /\ UNCHANGED <<mission, row, handle, forwarder, resuming, latest, child, slotOf, stop,
                     fwd, cancel, spawner, stuck, missed, overtaken, unmarked>>
      /\ Gives(k, "kill", s, "killing") /\ Marks(k, s)
  BY DEF KillSession, rows, procs, history
<1>2. CallTyped /\ BoundsTyped /\ TypeOK /\ k \in Owners
  BY TypeParts, OwnersAre DEF Sound, OwnerKinds
<1>3. /\ CallTyped' /\ call[k].pc = "idle" /\ given' \in 0 .. MaxMoves
      /\ call'[k].op = "kill" /\ call'[k].pc = "killing" /\ call'[k].slot = s
      /\ \A j \in Callers : j # k => call'[j] = call[j]
  BY <1>1, <1>2, Given
<1>4. BoundsTyped'
  BY <1>1, <1>2, <1>3 DEF BoundsTyped
<1>5. TypeOK'
  BY <1>1, <1>2, <1>3, <1>4, Marked, TypeParts, TypePartsNext, SameTypes DEF rows
<1> QED
  BY <1>1, <1>2, <1>3, <1>5, Marked

\* A command that killed returns; an archive that succeeded ends the mission.
LEMMA KillReturnsDoes ==
    ASSUME Sound, NEW k \in Callers, KillReturns(k)
    PROVE  /\ TypeOK' /\ call[k].op \in {"stop", "archive", "kill"} /\ call'[k] = NoCall
           /\ \A j \in Callers : j # k => call'[j] = call[j]
           /\ \A s \in Slots : job[k][s].step \in {"none", "ok", "failed"} /\ job'[k][s].step = "none"
           /\ \A p \in Owners, t \in Slots : p # k => job'[p][t] = job[p][t]
           /\ \/ UNCHANGED mission
              \/ /\ call[k].op = "archive" /\ mission' = "ended"
                 /\ \A s \in Slots : job[k][s].step \in {"none", "ok"}
           /\ UNCHANGED <<row, handle, forwarder, killed, resuming, latest, child, slotOf, stop,
                          fwd, cancel, spawner, given, stuck, missed, overtaken, unmarked>>
<1>1. /\ UNCHANGED <<row, handle, forwarder, killed, resuming, latest, child, slotOf, stop,
                     fwd, cancel, spawner, given, stuck, missed, overtaken, unmarked>>
      /\ call[k].op \in {"stop", "archive", "kill"} /\ Returns(k) /\ job' = Cleared(k)
      /\ mission' = IF call[k].op = "archive" /\ Succeeded(k) THEN "ended" ELSE mission
  BY DEF KillReturns, handles, procs, bounds, history
<1>2. CallTyped /\ JobTyped /\ RowsTyped /\ k \in Owners
  BY TypeParts, OwnersAre DEF Sound, OwnerKinds
<1>3. CallTyped' /\ call'[k] = NoCall /\ \A j \in Callers : j # k => call'[j] = call[j]
  BY <1>1, <1>2, Called
<1>4. /\ JobTyped' /\ \A s \in Slots : job'[k][s].step = "none"
      /\ \A p \in Owners, t \in Slots : p # k => job'[p][t] = job[p][t]
  BY <1>1, <1>2, ClearedJobs
<1>5. \A s \in Slots : job[k][s].step \in {"none", "ok", "failed"}
  BY DEF KillReturns, Finished
<1>6. /\ RowsTyped'
      /\ \/ UNCHANGED mission
         \/ /\ call[k].op = "archive" /\ mission' = "ended"
            /\ \A s \in Slots : job[k][s].step \in {"none", "ok"}
  BY <1>1, <1>2 DEF RowsTyped, Succeeded
<1>7. TypeOK'
  BY <1>1, <1>3, <1>4, <1>6, TypeParts, TypePartsNext, SameTypes DEF Sound
<1> QED
  BY <1>1, <1>3, <1>4, <1>5, <1>6, <1>7

\* A resume or restart claims its session.
LEMMA ResumeDoes ==
    ASSUME Sound, NEW k \in Callers, NEW op \in Ops, NEW s \in Slots, Resume(k, op, s)
    PROVE  /\ TypeOK' /\ call[k].pc = "idle" /\ op \in {"resume", "restart"} /\ s \in Crew
           /\ mission = "running" /\ ~resuming[s] /\ resuming'[s]
           /\ \A t \in Slots : t # s => resuming'[t] = resuming[t]
           /\ call'[k].op = op /\ call'[k].slot = s
           /\ \A j \in Callers : j # k => call'[j] = call[j]
           /\ \/ /\ call'[k].pc = "killing" /\ job'[k][s].step = "mark"
                 /\ \A p \in Owners, t \in Slots : p # k \/ t # s => job'[p][t] = job[p][t]
              \/ call'[k].pc = "row" /\ UNCHANGED job /\ row[s] # "running"
           /\ overtaken' = IF Exiting(s) \/ Pending(s) THEN overtaken \cup {s} ELSE overtaken
           /\ missed' = IF \E j \in Callers : call[j].op = "archive" THEN missed \cup {s} ELSE missed
           /\ UNCHANGED <<mission, row, handle, forwarder, killed, latest, child, slotOf, stop,
                          fwd, cancel, spawner, stuck, unmarked>>
<1>1. /\ UNCHANGED <<mission, row, handle, forwarder, killed, latest, child, slotOf, stop,
                     fwd, cancel, spawner, stuck, unmarked>>
      /\ op \in {"resume", "restart"} /\ s \in Crew /\ mission = "running" /\ ~resuming[s]
      /\ resuming' = [resuming EXCEPT ![s] = TRUE]
      /\ overtaken' = IF Exiting(s) \/ Pending(s) THEN overtaken \cup {s} ELSE overtaken
      /\ missed' = IF \E j \in Callers : call[j].op = "archive" THEN missed \cup {s} ELSE missed
  BY DEF Resume, MayResume, Overtakes, rows, procs
<1>2. \/ Gives(k, op, s, "killing") /\ Step(k, s, "mark", 0)
      \/ Gives(k, op, s, "row") /\ UNCHANGED job /\ row[s] # "running"
  BY DEF Resume, MayResume
<1>3. /\ CallTyped /\ JobTyped /\ BoundsTyped /\ ClaimsTyped /\ HistoryTyped /\ TypeOK /\ k \in Owners
      /\ "mark" \in Steps /\ 0 \in 0 .. MaxChildren
  BY TypeParts, OwnersAre, LifecycleAssumption DEF Sound, OwnerKinds, LifecycleAssumption, Steps
<1>4. ClaimsTyped' /\ resuming'[s] /\ \A t \in Slots : t # s => resuming'[t] = resuming[t]
  BY <1>1, <1>3 DEF ClaimsTyped
<1>5. HistoryTyped'
  BY <1>1, <1>3 DEF HistoryTyped
<1>6. ASSUME NEW pc \in {"killing", "row"}, Gives(k, op, s, pc)
      PROVE  /\ CallTyped' /\ call[k].pc = "idle" /\ given' \in 0 .. MaxMoves
             /\ call'[k].op = op /\ call'[k].pc = pc /\ call'[k].slot = s
             /\ \A j \in Callers : j # k => call'[j] = call[j]
  BY <1>3, <1>6, Given
<1>7. /\ CallTyped' /\ call[k].pc = "idle" /\ given' \in 0 .. MaxMoves
      /\ call'[k].op = op /\ call'[k].slot = s
      /\ \A j \in Callers : j # k => call'[j] = call[j]
  BY <1>2, <1>6
<1>8. /\ JobTyped'
      /\ \/ /\ call'[k].pc = "killing" /\ job'[k][s].step = "mark"
            /\ \A p \in Owners, t \in Slots : p # k \/ t # s => job'[p][t] = job[p][t]
         \/ call'[k].pc = "row" /\ UNCHANGED job /\ row[s] # "running"
  <2>1. CASE Gives(k, op, s, "killing") /\ Step(k, s, "mark", 0)
    BY <1>3, <1>6, <2>1, Stepped
  <2>2. CASE Gives(k, op, s, "row") /\ UNCHANGED job /\ row[s] # "running"
    BY <1>3, <1>6, <2>2, SameTypes
  <2> QED
    BY <1>2, <2>1, <2>2
<1>9. BoundsTyped'
  BY <1>1, <1>3, <1>7 DEF BoundsTyped
<1>10. TypeOK'
  BY <1>1, <1>3, <1>4, <1>5, <1>7, <1>8, <1>9, TypeParts, TypePartsNext, SameTypes DEF rows
<1> QED
  BY <1>1, <1>4, <1>7, <1>8, <1>10

\* A restart goes on after its kill, or gives its claim back.
LEMMA RestartKilledDoes ==
    ASSUME Sound, NEW k \in Callers, RestartKilled(k)
    PROVE  /\ TypeOK' /\ call[k].op = "restart" /\ call[k].pc = "killing" /\ call[k].slot \in Slots
           /\ \A j \in Callers : j # k => call'[j] = call[j]
           /\ \A s \in Slots : job'[k][s].step = "none"
           /\ \A p \in Owners, t \in Slots : p # k => job'[p][t] = job[p][t]
           /\ \A t \in Slots : t # call[k].slot => resuming'[t] = resuming[t]
           /\ \/ /\ \A s \in Slots : job[k][s].step \in {"none", "ok"}
                 /\ call'[k].pc = "row" /\ call'[k].op = "restart" /\ call'[k].slot = call[k].slot
                 /\ UNCHANGED resuming
              \/ call'[k] = NoCall
           /\ UNCHANGED <<mission, row, handle, forwarder, killed, latest, child, slotOf, stop,
                          fwd, cancel, spawner, given, stuck, missed, overtaken, unmarked>>
<1>1. /\ UNCHANGED <<mission, row, handle, forwarder, killed, latest, child, slotOf, stop,
                     fwd, cancel, spawner, given, stuck, missed, overtaken, unmarked>>
      /\ call[k].op = "restart" /\ call[k].pc = "killing" /\ job' = Cleared(k)
      /\ \/ Succeeded(k) /\ CallTo(k, "row") /\ UNCHANGED resuming
         \/ Returns(k) /\ resuming' = [resuming EXCEPT ![call[k].slot] = FALSE]
  BY DEF RestartKilled, rows, procs, bounds, history
<1>2. CallTyped /\ JobTyped /\ ClaimsTyped /\ k \in Owners /\ call[k].slot \in Slots
  BY <1>1, TypeParts, OwnersAre DEF Sound, OwnerKinds, ClaimsAreSingle, Claiming
<1>3. /\ JobTyped' /\ \A s \in Slots : job'[k][s].step = "none"
      /\ \A p \in Owners, t \in Slots : p # k => job'[p][t] = job[p][t]
  BY <1>1, <1>2, ClearedJobs
<1>4. CASE Succeeded(k) /\ CallTo(k, "row") /\ UNCHANGED resuming
  <2>1. /\ CallTyped' /\ call'[k].pc = "row" /\ call'[k].op = "restart" /\ call'[k].slot = call[k].slot
        /\ \A j \in Callers : j # k => call'[j] = call[j]
    BY <1>1, <1>2, <1>4, Called
  <2>2. \A s \in Slots : job[k][s].step \in {"none", "ok"}
    BY <1>4 DEF Succeeded
  <2>3. TypeOK'
    BY <1>1, <1>3, <1>4, <2>1, TypeParts, TypePartsNext, SameTypes DEF Sound, rows
  <2> QED
    BY <1>1, <1>2, <1>3, <1>4, <2>1, <2>2, <2>3
<1>5. CASE Returns(k) /\ resuming' = [resuming EXCEPT ![call[k].slot] = FALSE]
  <2>1. CallTyped' /\ call'[k] = NoCall /\ \A j \in Callers : j # k => call'[j] = call[j]
    BY <1>2, <1>5, Called
  <2>2. ClaimsTyped' /\ \A t \in Slots : t # call[k].slot => resuming'[t] = resuming[t]
    BY <1>2, <1>5 DEF ClaimsTyped
  <2>3. TypeOK'
    BY <1>1, <1>3, <2>1, <2>2, TypeParts, TypePartsNext, SameTypes DEF Sound, rows
  <2> QED
    BY <1>1, <1>2, <1>3, <2>1, <2>2, <2>3
<1> QED
  BY <1>1, <1>4, <1>5

\* Past the kill of a restart the caller holds a claim.
LEMMA RowAndLater ==
    ASSUME Sound, NEW k \in Callers, call[k].pc \in {"row", "fork", "install", "attach"}
    PROVE  Claiming(k) /\ call[k].slot \in Slots
  BY DEF Sound, ClaimsAreSingle

\* A resume writes the running row.
LEMMA ResumeInPlaceDoes ==
    ASSUME Sound, NEW k \in Callers, ResumeInPlace(k)
    PROVE  /\ TypeOK' /\ call[k].pc = "row" /\ Claiming(k) /\ call[k].slot \in Slots
           /\ call'[k].pc = "fork" /\ call'[k].op = call[k].op /\ call'[k].slot = call[k].slot
           /\ \A j \in Callers : j # k => call'[j] = call[j]
           /\ row'[call[k].slot] = "running" /\ \A t \in Slots : t # call[k].slot => row'[t] = row[t]
           /\ overtaken' = IF Exiting(call[k].slot) \/ Pending(call[k].slot)
                           THEN overtaken \cup {call[k].slot} ELSE overtaken
           /\ UNCHANGED <<mission, handle, forwarder, killed, resuming, latest, child, slotOf, stop,
                          fwd, cancel, spawner, job, given, stuck, missed, unmarked>>
<1>1. /\ UNCHANGED <<mission, handle, forwarder, killed, resuming, latest, child, slotOf, stop,
                     fwd, cancel, spawner, job, given, stuck, missed, unmarked>>
      /\ call[k].pc = "row" /\ row' = [row EXCEPT ![call[k].slot] = "running"] /\ CallTo(k, "fork")
      /\ overtaken' = IF Exiting(call[k].slot) \/ Pending(call[k].slot)
                      THEN overtaken \cup {call[k].slot} ELSE overtaken
  BY DEF ResumeInPlace, Overtakes, handles, procs, bounds
<1>2. CallTyped /\ RowsTyped /\ HistoryTyped /\ Claiming(k) /\ call[k].slot \in Slots
  BY <1>1, TypeParts, RowAndLater DEF Sound
<1>3. /\ CallTyped' /\ call'[k].pc = "fork" /\ call'[k].op = call[k].op /\ call'[k].slot = call[k].slot
      /\ \A j \in Callers : j # k => call'[j] = call[j]
  BY <1>1, <1>2, Called
<1>4. /\ RowsTyped' /\ row'[call[k].slot] = "running"
      /\ \A t \in Slots : t # call[k].slot => row'[t] = row[t]
  BY <1>1, <1>2 DEF RowsTyped, Statuses
<1>5. HistoryTyped'
  BY <1>1, <1>2 DEF HistoryTyped
<1>6. TypeOK'
  BY <1>1, <1>3, <1>4, <1>5, TypeParts, TypePartsNext, SameTypes DEF Sound
<1> QED
  BY <1>1, <1>2, <1>3, <1>4, <1>6

\* A resume forks, or fails, writes the exit and gives its claim back.
LEMMA ResumeForksDoes ==
    ASSUME Sound, NEW k \in Callers, ResumeForks(k)
    PROVE  /\ TypeOK' /\ call[k].pc = "fork" /\ Claiming(k) /\ call[k].slot \in Slots
           /\ \A j \in Callers : j # k => call'[j] = call[j]
           /\ \A t \in Slots : t # call[k].slot => row'[t] = row[t] /\ resuming'[t] = resuming[t]
           /\ \/ /\ ForkedFor(call[k].slot, call'[k].child)
                 /\ call'[k].pc = "install" /\ call'[k].op = call[k].op /\ call'[k].slot = call[k].slot
                 /\ UNCHANGED <<row, resuming>>
              \/ /\ row'[call[k].slot] = "exited" /\ call'[k] = NoCall
                 /\ UNCHANGED <<latest, child, slotOf>>
           /\ UNCHANGED <<mission, handle, forwarder, killed, stop,
                          fwd, cancel, spawner, job, given, stuck, missed, overtaken, unmarked>>
<1>1. /\ UNCHANGED <<mission, handle, forwarder, killed, stop,
                     fwd, cancel, spawner, job, given, stuck, missed, overtaken, unmarked>>
      /\ call[k].pc = "fork"
      /\ \/ /\ Fork(call[k].slot) /\ UNCHANGED <<row, resuming>>
            /\ call' = [call EXCEPT ![k].pc = "install", ![k].child = NextChild]
         \/ /\ row' = [row EXCEPT ![call[k].slot] = "exited"] /\ Returns(k)
            /\ resuming' = [resuming EXCEPT ![call[k].slot] = FALSE]
            /\ UNCHANGED <<latest, child, slotOf>>
  BY DEF ResumeForks, Fork, procs, bounds, history
<1>2. /\ CallTyped /\ RowsTyped /\ ClaimsTyped /\ ChildTyped /\ ProcsTyped /\ Numbered
      /\ Claiming(k) /\ call[k].slot \in Slots
  BY <1>1, TypeParts, RowAndLater DEF Sound
<1> DEFINE s == call[k].slot
<1>3. ASSUME Fork(s), UNCHANGED <<row, resuming>>,
             call' = [call EXCEPT ![k].pc = "install", ![k].child = NextChild]
      PROVE  /\ TypeOK' /\ ForkedFor(s, call'[k].child)
             /\ call'[k].pc = "install" /\ call'[k].op = call[k].op /\ call'[k].slot = s
             /\ \A j \in Callers : j # k => call'[j] = call[j]
             /\ UNCHANGED <<row, resuming>>
  <2> DEFINE new == NextChild
  <2>1. ProcsTyped' /\ ChildTyped' /\ ForkedFor(s, new)
    BY <1>2, <1>3, Forked DEF ForkedFor
  <2>2. new \in 0 .. MaxChildren /\ call' = [call EXCEPT ![k].pc = "install", ![k].child = new]
    BY <1>3, <2>1 DEF ForkedFor, Children
  <2> HIDE DEF new, s
  <2>3. /\ CallTyped' /\ call'[k].pc = "install" /\ call'[k].op = call[k].op
        /\ call'[k].slot = call[k].slot /\ call'[k].child = new
        /\ \A j \in Callers : j # k => call'[j] = call[j]
    BY <1>2, <2>2 DEF CallTyped, CallType
  <2>4. TypeOK'
    BY <1>1, <1>3, <2>1, <2>3, TypeParts, TypePartsNext, SameTypes DEF Sound, rows
  <2> QED
    BY <1>3, <2>1, <2>3, <2>4 DEF s
<1>4. ASSUME row' = [row EXCEPT ![s] = "exited"], Returns(k), resuming' = [resuming EXCEPT ![s] = FALSE],
             UNCHANGED <<latest, child, slotOf>>
      PROVE  /\ TypeOK' /\ row'[s] = "exited" /\ call'[k] = NoCall
             /\ \A j \in Callers : j # k => call'[j] = call[j]
             /\ \A t \in Slots : t # s => row'[t] = row[t] /\ resuming'[t] = resuming[t]
  <2>1. CallTyped' /\ call'[k] = NoCall /\ \A j \in Callers : j # k => call'[j] = call[j]
    BY <1>2, <1>4, Called
  <2>2. RowsTyped' /\ row'[s] = "exited" /\ \A t \in Slots : t # s => row'[t] = row[t]
    BY <1>1, <1>2, <1>4 DEF RowsTyped, Statuses
  <2>3. ClaimsTyped' /\ \A t \in Slots : t # s => resuming'[t] = resuming[t]
    BY <1>2, <1>4 DEF ClaimsTyped
  <2>4. TypeOK'
    BY <1>1, <1>4, <2>1, <2>2, <2>3, TypeParts, TypePartsNext, SameTypes DEF Sound
  <2> QED
    BY <2>1, <2>2, <2>3, <2>4
<1> QED
  BY <1>1, <1>2, <1>3, <1>4

\* A resume installs the handle of the new process.
LEMMA ResumeInstallsDoes ==
    ASSUME Sound, NEW k \in Callers, ResumeInstalls(k)
    PROVE  /\ TypeOK' /\ call[k].pc = "install" /\ Claiming(k) /\ call[k].slot \in Slots
           /\ call[k].child \in Children
           /\ call'[k].pc = "attach" /\ call'[k].op = call[k].op /\ call'[k].slot = call[k].slot
           /\ call'[k].child = call[k].child
           /\ \A j \in Callers : j # k => call'[j] = call[j]
           /\ Handled(call[k].slot, call[k].child)
           /\ UNCHANGED <<mission, row, resuming, latest, child, slotOf, stop,
                          cancel, spawner, job, given, stuck, missed, overtaken, unmarked>>
<1>1. /\ UNCHANGED <<mission, row, resuming, latest, child, slotOf, stop,
                     cancel, spawner, job, given, stuck, missed, overtaken, unmarked>>
      /\ call[k].pc = "install" /\ CallTo(k, "attach") /\ InstallHandle(call[k].slot, call[k].child)
  BY DEF ResumeInstalls, rows, procs, bounds, history
<1>2. /\ CallTyped /\ HandleTyped /\ MarksTyped /\ FwdTyped /\ Claiming(k) /\ call[k].slot \in Slots
      /\ call[k].child \in Children
  BY <1>1, TypeParts, RowAndLater DEF Sound, Named, CallsNamed
<1>3. HandleTyped' /\ MarksTyped' /\ FwdTyped' /\ Handled(call[k].slot, call[k].child)
  BY <1>1, <1>2, HandleInstalled DEF Handled
<1>4. /\ CallTyped' /\ call'[k].pc = "attach" /\ call'[k].op = call[k].op /\ call'[k].slot = call[k].slot
      /\ call'[k].child = call[k].child /\ \A j \in Callers : j # k => call'[j] = call[j]
  BY <1>1, <1>2, Called
<1>5. TypeOK'
  BY <1>1, <1>3, <1>4, TypeParts, TypePartsNext, SameTypes DEF Sound, rows
<1> QED
  BY <1>1, <1>2, <1>3, <1>4, <1>5

\* A resume adds the join handle and gives its claim back.
LEMMA ResumeReturnsDoes ==
    ASSUME Sound, NEW k \in Callers, ResumeReturns(k)
    PROVE  /\ TypeOK' /\ call[k].pc = "attach" /\ Claiming(k) /\ call[k].slot \in Slots
           /\ call'[k] = NoCall
           /\ \A j \in Callers : j # k => call'[j] = call[j]
           /\ \A t \in Slots : t # call[k].slot => resuming'[t] = resuming[t]
           /\ UNCHANGED <<mission, row, handle, killed, latest, child, slotOf, stop, fwd,
                          cancel, spawner, job, given, stuck, missed, overtaken, unmarked>>
<1>1. /\ UNCHANGED <<mission, row, handle, killed, latest, child, slotOf, stop, fwd,
                     cancel, spawner, job, given, stuck, missed, overtaken, unmarked>>
      /\ call[k].pc = "attach" /\ Returns(k) /\ InstallForwarder(call[k].slot, call[k].child)
      /\ resuming' = [resuming EXCEPT ![call[k].slot] = FALSE]
  BY DEF ResumeReturns, rows, procs, bounds, history
<1>2. /\ CallTyped /\ HandleTyped /\ ClaimsTyped /\ Claiming(k) /\ call[k].slot \in Slots
      /\ call[k].child \in 0 .. MaxChildren
  BY <1>1, TypeParts, RowAndLater DEF Sound, CallTyped, CallType
<1>3. CallTyped' /\ call'[k] = NoCall /\ \A j \in Callers : j # k => call'[j] = call[j]
  BY <1>1, <1>2, Called
<1>4. HandleTyped'
  BY <1>1, <1>2, ForwarderInstalled
<1>5. ClaimsTyped' /\ \A t \in Slots : t # call[k].slot => resuming'[t] = resuming[t]
  BY <1>1, <1>2 DEF ClaimsTyped
<1>6. TypeOK'
  BY <1>1, <1>3, <1>4, <1>5, TypeParts, TypePartsNext, SameTypes DEF Sound, rows
<1> QED
  BY <1>1, <1>2, <1>3, <1>5, <1>6

-----------------------------------------------------------------------------
(* Types and numbers are kept.                                              *)

\* Every step keeps the types.
LEMMA TypesStep ==
    ASSUME Sound, [Next]_vars
    PROVE  TypeOK'
<1>1. ASSUME UNCHANGED vars
      PROVE  TypeOK'
  BY <1>1, TypeParts, TypePartsNext, SameTypes DEF Sound, vars, rows, handles, procs, bounds,
     history
<1>2. ASSUME NEW c \in Children, ChildEnds(c)
      PROVE  TypeOK'
  BY <1>2, ChildEndsDoes
<1>3. ASSUME NEW o \in Owners, NEW s \in Slots, KillMarks(o, s)
      PROVE  TypeOK'
  BY <1>3, KillMarksDoes
<1>4. ASSUME NEW o \in Owners, NEW s \in Slots, KillStops(o, s)
      PROVE  TypeOK'
  BY <1>4, KillStopsDoes
<1>5. ASSUME NEW o \in Owners, NEW s \in Slots, KillTakes(o, s)
      PROVE  TypeOK'
  BY <1>5, KillTakesDoes
<1>6. ASSUME NEW o \in Owners, NEW s \in Slots, KillJoins(o, s)
      PROVE  TypeOK'
  BY <1>6, KillJoinsDoes
<1>7. ASSUME NEW o \in Owners, NEW s \in Slots, KillClears(o, s)
      PROVE  TypeOK'
  BY <1>7, KillClearsDoes
<1>8. ASSUME NEW c \in Children, ForwarderLeaves(c)
      PROVE  TypeOK'
  BY <1>8, ForwarderLeavesDoes
<1>9. ASSUME NEW c \in Children, ForwarderTakesKilled(c)
      PROVE  TypeOK'
  BY <1>9, ForwarderTakesKilledDoes
<1>10. ASSUME NEW c \in Children, ForwarderWritesExit(c)
      PROVE  TypeOK'
  BY <1>10, ForwarderWritesExitDoes
<1>11. ASSUME NEW c \in Children, ForwarderForgets(c)
      PROVE  TypeOK'
  BY <1>11, ForwarderForgetsDoes
<1>12. ASSUME NEW c \in Children, ForwarderReaps(c)
      PROVE  TypeOK'
  BY <1>12, ForwarderReapsDoes
<1>13. ASSUME NEW c \in Children, ForwarderEnds(c)
      PROVE  TypeOK'
  BY <1>13, ForwarderEndsDoes
<1>14. ASSUME SpawnNext
      PROVE  TypeOK'
  BY <1>14, SpawnNextDoes
<1>15. ASSUME SpawnDrained
      PROVE  TypeOK'
  BY <1>15, SpawnDrainedDoes
<1>16. ASSUME SpawnForks
      PROVE  TypeOK'
  BY <1>16, SpawnForksDoes
<1>17. ASSUME SpawnCancelledInGate
      PROVE  TypeOK'
  BY <1>17, SpawnCancelledInGateDoes
<1>18. ASSUME SpawnFails
      PROVE  TypeOK'
  BY <1>18, SpawnFailsDoes
<1>19. ASSUME SpawnReaps
      PROVE  TypeOK'
  BY <1>19, SpawnReapsDoes
<1>20. ASSUME SpawnReaped
      PROVE  TypeOK'
  BY <1>20, SpawnReapedDoes
<1>21. ASSUME SpawnRechecks
      PROVE  TypeOK'
  BY <1>21, SpawnRechecksDoes
<1>22. ASSUME SpawnInstalls
      PROVE  TypeOK'
  BY <1>22, SpawnInstallsDoes
<1>23. ASSUME SpawnAttaches
      PROVE  TypeOK'
  BY <1>23, SpawnAttachesDoes
<1>24. ASSUME NEW k \in Callers, NEW op \in {"stop", "archive"}, StopMission(k, op)
      PROVE  TypeOK'
  BY <1>24, StopMissionDoes
<1>25. ASSUME NEW k \in Callers, NEW s \in Slots, KillSession(k, s)
      PROVE  TypeOK'
  BY <1>25, KillSessionDoes
<1>26. ASSUME NEW k \in Callers, NEW op \in Ops, NEW s \in Slots, Resume(k, op, s)
      PROVE  TypeOK'
  BY <1>26, ResumeDoes
<1>27. ASSUME NEW k \in Callers, KillReturns(k)
      PROVE  TypeOK'
  BY <1>27, KillReturnsDoes
<1>28. ASSUME NEW k \in Callers, RestartKilled(k)
      PROVE  TypeOK'
  BY <1>28, RestartKilledDoes
<1>29. ASSUME NEW k \in Callers, ResumeInPlace(k)
      PROVE  TypeOK'
  BY <1>29, ResumeInPlaceDoes
<1>30. ASSUME NEW k \in Callers, ResumeForks(k)
      PROVE  TypeOK'
  BY <1>30, ResumeForksDoes
<1>31. ASSUME NEW k \in Callers, ResumeInstalls(k)
      PROVE  TypeOK'
  BY <1>31, ResumeInstallsDoes
<1>32. ASSUME NEW k \in Callers, ResumeReturns(k)
      PROVE  TypeOK'
  BY <1>32, ResumeReturnsDoes
<1> QED
  BY <1>1, <1>2, <1>3, <1>4, <1>5, <1>6, <1>7, <1>8, <1>9, <1>10, <1>11, <1>12, <1>13, <1>14,
     <1>15, <1>16, <1>17, <1>18, <1>19, <1>20, <1>21, <1>22, <1>23, <1>24, <1>25, <1>26, <1>27,
     <1>28, <1>29, <1>30, <1>31, <1>32
  DEF Next, Proceed, Go, Give, Spawning, Forwarder, Killing

\* A process stays what it was as to having been forked.
LEMMA NumbersStay ==
    ASSUME Numbered, UNCHANGED slotOf,
           \A c \in Children : child'[c] = "none" <=> child[c] = "none",
           \A c \in Children : fwd'[c].pc # "none" => fwd[c].pc # "none" \/ child[c] # "none"
    PROVE  Numbered'
<1>1. Born' = Born
  BY DEF Born
<1> QED
  BY <1>1 DEF Numbered

\* A fork keeps the numbering.
LEMMA ForkNumbers ==
    ASSUME Numbered, NEW s \in Slots, NEW n, ForkedFor(s, n), UNCHANGED fwd
    PROVE  Numbered'
  BY DEF Numbered, ForkedFor, Born

\* Processes are numbered as they are forked.
LEMMA NumberedStep ==
    ASSUME SessionInv, [Next]_vars
    PROVE  Numbered'
<1>0. Sound /\ Numbered
  BY DEF SessionInv, Sound
<1>1. ASSUME UNCHANGED <<child, slotOf, fwd>>
      PROVE  Numbered'
  BY <1>0, <1>1 DEF Numbered, Born
<1>2. ASSUME NEW o \in Owners, NEW s \in Slots, KillMarks(o, s) \/ KillTakes(o, s) \/
                                                KillJoins(o, s) \/ KillClears(o, s)
      PROVE  Numbered'
  <2>1. UNCHANGED <<child, slotOf, fwd>>
    BY <1>2 DEF KillMarks, KillTakes, KillJoins, KillClears, SpawnCancelled, Fork, Forwards, rows,
                handles, procs, bounds, history
  <2> QED
    BY <1>1, <2>1
<1>3. ASSUME SpawnNext \/ SpawnDrained \/ SpawnCancelledInGate \/ SpawnFails \/ SpawnReaps \/
             SpawnReaped \/ SpawnAttaches
      PROVE  Numbered'
  <2>1. UNCHANGED <<child, slotOf, fwd>>
    BY <1>3 DEF SpawnNext, SpawnDrained, SpawnCancelledInGate, SpawnFails, SpawnReaps,
                SpawnReaped, SpawnAttaches, SpawnCancelled, Fork, Forwards, rows, handles, procs,
                bounds, history
  <2> QED
    BY <1>1, <2>1
<1>4. ASSUME NEW k \in Callers, NEW op \in {"stop", "archive"}, StopMission(k, op)
      PROVE  Numbered'
  <2>1. UNCHANGED <<child, slotOf, fwd>>
    BY <1>4 DEF StopMission, SpawnCancelled, Fork, Forwards, rows, handles, procs, bounds, history
  <2> QED
    BY <1>1, <2>1
<1>5. ASSUME NEW k \in Callers, NEW s \in Slots, KillSession(k, s)
      PROVE  Numbered'
  <2>1. UNCHANGED <<child, slotOf, fwd>>
    BY <1>5 DEF KillSession, SpawnCancelled, Fork, Forwards, rows, handles, procs, bounds, history
  <2> QED
    BY <1>1, <2>1
<1>6. ASSUME NEW k \in Callers, NEW op \in Ops, NEW s \in Slots, Resume(k, op, s)
      PROVE  Numbered'
  <2>1. UNCHANGED <<child, slotOf, fwd>>
    BY <1>6 DEF Resume, SpawnCancelled, Fork, Forwards, rows, handles, procs, bounds, history
  <2> QED
    BY <1>1, <2>1
<1>7. ASSUME NEW k \in Callers, KillReturns(k) \/ RestartKilled(k) \/ ResumeInPlace(k) \/
                                ResumeReturns(k)
      PROVE  Numbered'
  <2>1. UNCHANGED <<child, slotOf, fwd>>
    BY <1>7 DEF KillReturns, RestartKilled, ResumeInPlace, ResumeReturns, SpawnCancelled, Fork,
                Forwards, rows, handles, procs, bounds, history
  <2> QED
    BY <1>1, <2>1
<1>8. ASSUME NEW c \in Children, ChildEnds(c)
      PROVE  Numbered'
  BY <1>0, <1>8, ChildEndsDoes, NumbersStay DEF Numbered, Born
<1>9. ASSUME NEW o \in Owners, NEW s \in Slots, KillStops(o, s)
      PROVE  Numbered'
  BY <1>0, <1>9, KillStopsDoes, NumbersStay
<1>10. ASSUME NEW c \in Children, ForwarderLeaves(c)
      PROVE  Numbered'
  BY <1>0, <1>10, ForwarderLeavesDoes, NumbersStay DEF Ended
<1>11. ASSUME NEW c \in Children, ForwarderTakesKilled(c)
      PROVE  Numbered'
  BY <1>0, <1>11, ForwarderTakesKilledDoes, NumbersStay DEF Numbered, Born
<1>12. ASSUME NEW c \in Children, ForwarderWritesExit(c)
      PROVE  Numbered'
  BY <1>0, <1>12, ForwarderWritesExitDoes, NumbersStay DEF Numbered, Born
<1>13. ASSUME NEW c \in Children, ForwarderForgets(c)
      PROVE  Numbered'
  BY <1>0, <1>13, ForwarderForgetsDoes, NumbersStay DEF Numbered, Born
<1>14. ASSUME NEW c \in Children, ForwarderReaps(c)
      PROVE  Numbered'
  BY <1>0, <1>14, ForwarderReapsDoes, NumbersStay DEF Numbered, Born
<1>15. ASSUME NEW c \in Children, ForwarderEnds(c)
      PROVE  Numbered'
  BY <1>0, <1>15, ForwarderEndsDoes, NumbersStay DEF Numbered, Born
<1>16. ASSUME SpawnForks
      PROVE  Numbered'
  BY <1>0, <1>16, SpawnForksDoes, ForkNumbers
<1>17. ASSUME SpawnRechecks
      PROVE  Numbered'
  BY <1>0, <1>17, SpawnRechecksDoes, NumbersStay DEF Ended
<1>18. ASSUME SpawnInstalls
      PROVE  Numbered'
  <2>1. child[spawner.child] # "none"
    BY <1>0, <1>18, SpawnInstallsDoes, LifecycleAssumption DEF LifecycleAssumption, Sound, Named,
       SpawnerNamed, CallsNamed, Numbered
  <2> QED
    BY <1>0, <1>18, <2>1, SpawnInstallsDoes, NumbersStay DEF Handled
<1>19. ASSUME NEW k \in Callers, ResumeForks(k)
      PROVE  Numbered'
  BY <1>0, <1>19, ResumeForksDoes, ForkNumbers, NumbersStay
<1>20. ASSUME NEW k \in Callers, ResumeInstalls(k)
      PROVE  Numbered'
  <2>1. child[call[k].child] # "none"
    BY <1>0, <1>20, ResumeInstallsDoes, LifecycleAssumption DEF LifecycleAssumption, Sound, Named,
       SpawnerNamed, CallsNamed, Numbered
  <2> QED
    BY <1>0, <1>20, <2>1, ResumeInstallsDoes, NumbersStay DEF Handled
<1> QED
  BY <1>1, <1>2, <1>3, <1>4, <1>5, <1>6, <1>7, <1>8, <1>9, <1>10, <1>11, <1>12, <1>13, <1>14,
     <1>15, <1>16, <1>17, <1>18, <1>19, <1>20
  DEF Next, Proceed, Go, Give, Spawning, Forwarder, Killing, vars, rows, handles, procs, bounds,
      history

-----------------------------------------------------------------------------
(* Handles, kills and forks name children of their session.                 *)

\* Forwarders once started, and the slots of processes, stay.
Grows == \A c \in Children : /\ fwd[c].pc # "none" => fwd'[c].pc # "none"
                             /\ slotOf[c] \in Slots => slotOf'[c] = slotOf[c]

\* A forwarder once started and the slot of a process stay.
LEMMA GrowsStep ==
    ASSUME SessionInv, [Next]_vars
    PROVE  Grows
<1>0. Sound /\ Numbered
  BY DEF SessionInv, Sound
<1>1. ASSUME UNCHANGED <<slotOf, fwd>>
      PROVE  Grows
  BY <1>0, <1>1 DEF Grows
<1>2. ASSUME NEW c \in Children, ChildEnds(c)
      PROVE  Grows
  <2>1. UNCHANGED <<slotOf, fwd>>
    BY <1>2 DEF ChildEnds, SpawnCancelled, Fork, Forwards, rows, handles, procs, bounds, history
  <2> QED
    BY <1>1, <2>1
<1>3. ASSUME NEW o \in Owners, NEW s \in Slots, KillMarks(o, s) \/ KillStops(o, s) \/
                                                KillTakes(o, s) \/ KillJoins(o, s) \/
                                                KillClears(o, s)
      PROVE  Grows
  <2>1. UNCHANGED <<slotOf, fwd>>
    BY <1>3 DEF KillMarks, KillStops, KillTakes, KillJoins, KillClears, SpawnCancelled, Fork,
                Forwards, rows, handles, procs, bounds, history
  <2> QED
    BY <1>1, <2>1
<1>4. ASSUME SpawnNext \/ SpawnDrained \/ SpawnCancelledInGate \/ SpawnFails \/ SpawnReaps \/
             SpawnReaped \/ SpawnRechecks \/ SpawnAttaches
      PROVE  Grows
  <2>1. UNCHANGED <<slotOf, fwd>>
    BY <1>4 DEF SpawnNext, SpawnDrained, SpawnCancelledInGate, SpawnFails, SpawnReaps,
                SpawnReaped, SpawnRechecks, SpawnAttaches, SpawnCancelled, Fork, Forwards, rows,
                handles, procs, bounds, history
  <2> QED
    BY <1>1, <2>1
<1>5. ASSUME NEW k \in Callers, NEW op \in {"stop", "archive"}, StopMission(k, op)
      PROVE  Grows
  <2>1. UNCHANGED <<slotOf, fwd>>
    BY <1>5 DEF StopMission, SpawnCancelled, Fork, Forwards, rows, handles, procs, bounds, history
  <2> QED
    BY <1>1, <2>1
<1>6. ASSUME NEW k \in Callers, NEW s \in Slots, KillSession(k, s)
      PROVE  Grows
  <2>1. UNCHANGED <<slotOf, fwd>>
    BY <1>6 DEF KillSession, SpawnCancelled, Fork, Forwards, rows, handles, procs, bounds, history
  <2> QED
    BY <1>1, <2>1
<1>7. ASSUME NEW k \in Callers, NEW op \in Ops, NEW s \in Slots, Resume(k, op, s)
      PROVE  Grows
  <2>1. UNCHANGED <<slotOf, fwd>>
    BY <1>7 DEF Resume, SpawnCancelled, Fork, Forwards, rows, handles, procs, bounds, history
  <2> QED
    BY <1>1, <2>1
<1>8. ASSUME NEW k \in Callers, KillReturns(k) \/ RestartKilled(k) \/ ResumeInPlace(k) \/
                                ResumeReturns(k)
      PROVE  Grows
  <2>1. UNCHANGED <<slotOf, fwd>>
    BY <1>8 DEF KillReturns, RestartKilled, ResumeInPlace, ResumeReturns, SpawnCancelled, Fork,
                Forwards, rows, handles, procs, bounds, history
  <2> QED
    BY <1>1, <2>1
<1>9. ASSUME NEW c \in Children, ForwarderLeaves(c)
      PROVE  Grows
  BY <1>0, <1>9, ForwarderLeavesDoes DEF Grows
<1>10. ASSUME NEW c \in Children, ForwarderTakesKilled(c)
      PROVE  Grows
  BY <1>0, <1>10, ForwarderTakesKilledDoes DEF Grows
<1>11. ASSUME NEW c \in Children, ForwarderWritesExit(c)
      PROVE  Grows
  BY <1>0, <1>11, ForwarderWritesExitDoes DEF Grows
<1>12. ASSUME NEW c \in Children, ForwarderForgets(c)
      PROVE  Grows
  BY <1>0, <1>12, ForwarderForgetsDoes DEF Grows
<1>13. ASSUME NEW c \in Children, ForwarderReaps(c)
      PROVE  Grows
  BY <1>0, <1>13, ForwarderReapsDoes DEF Grows
<1>14. ASSUME NEW c \in Children, ForwarderEnds(c)
      PROVE  Grows
  BY <1>0, <1>14, ForwarderEndsDoes DEF Grows
<1>15. ASSUME SpawnForks
      PROVE  Grows
  <2>1. \A c \in Children : child[c] = "none" => slotOf[c] \notin Slots
    BY <1>0, LifecycleAssumption DEF LifecycleAssumption, Numbered
  <2> QED
    BY <1>0, <1>15, <2>1, SpawnForksDoes DEF Grows, ForkedFor
<1>16. ASSUME SpawnInstalls
      PROVE  Grows
  BY <1>0, <1>16, SpawnInstallsDoes DEF Grows, Handled
<1>17. ASSUME NEW k \in Callers, ResumeForks(k)
      PROVE  Grows
  <2>1. \A c \in Children : child[c] = "none" => slotOf[c] \notin Slots
    BY <1>0, LifecycleAssumption DEF LifecycleAssumption, Numbered
  <2> QED
    BY <1>0, <1>17, <2>1, ResumeForksDoes DEF Grows, ForkedFor
<1>18. ASSUME NEW k \in Callers, ResumeInstalls(k)
      PROVE  Grows
  BY <1>0, <1>18, ResumeInstallsDoes DEF Grows, Handled
<1> QED
  BY <1>1, <1>2, <1>3, <1>4, <1>5, <1>6, <1>7, <1>8, <1>9, <1>10, <1>11, <1>12, <1>13, <1>14,
     <1>15, <1>16, <1>17, <1>18
  DEF Next, Proceed, Go, Give, Spawning, Forwarder, Killing, vars, rows, handles, procs, bounds,
      history

\* Handles stay or go.
LEMMA HandlesStay ==
    ASSUME Sound, Grows, HandlesNamed, \A s \in Slots : handle'[s] \in {0, handle[s]}
    PROVE  HandlesNamed'
<1>1. \A s \in Slots : handle[s] # 0 => handle[s] \in Children
  BY TypeParts DEF Sound, HandleTyped, Children
<1> QED
  BY <1>1 DEF HandlesNamed, Grows

\* A new handle is one of its session.
LEMMA NewHandleNamed ==
    ASSUME Sound, Grows, HandlesNamed, NEW s \in Slots, NEW c \in Children, slotOf[c] = s,
           Handled(s, c)
    PROVE  HandlesNamed'
<1>1. \A t \in Slots : handle[t] # 0 => handle[t] \in Children
  BY TypeParts DEF Sound, HandleTyped, Children
<1>2. slotOf'[c] = s /\ fwd'[c].pc # "none" /\ handle'[s] = c
  BY DEF Handled, Grows
<1>3. \A t \in Slots : t # s => handle'[t] = handle[t]
  BY DEF Handled
<1> QED
  BY <1>1, <1>2, <1>3 DEF HandlesNamed, Grows

\* Kills go on, and none starts to stop.
LEMMA JobsStay ==
    ASSUME Grows, JobsNamed,
           \A o \in Owners, s \in Slots : job'[o][s] = job[o][s] \/ job'[o][s].step # "stop"
    PROVE  JobsNamed'
  BY DEF JobsNamed, Grows

\* A kill that starts to stop names the handle of its session.
LEMMA JobsMarked ==
    ASSUME Sound, Grows, JobsNamed, HandlesNamed, NEW o \in Owners, NEW s \in Slots,
           handle[s] = 0 => job'[o][s].step # "stop",
           handle[s] # 0 => handle[s] \in Children /\ job'[o][s].child = handle[s],
           \A p \in Owners, t \in Slots : p # o \/ t # s => job'[p][t] = job[p][t]
    PROVE  JobsNamed'
<1>1. ASSUME NEW p \in Owners, NEW t \in Slots, job'[p][t].step = "stop"
      PROVE  /\ job'[p][t].child \in Children /\ slotOf'[job'[p][t].child] = t
             /\ fwd'[job'[p][t].child].pc # "none"
  <2>1. CASE p = o /\ t = s
    BY <1>1, <2>1 DEF HandlesNamed, Grows
  <2>2. CASE p # o \/ t # s
    BY <1>1, <2>2 DEF JobsNamed, Grows
  <2> QED
    BY <2>1, <2>2
<1> QED
  BY <1>1 DEF JobsNamed

\* No process is killed in the step.
LEMMA KillsStay ==
    ASSUME Grows, KillsNamed, \A c \in Children : child'[c] = "killed" => child[c] = "killed"
    PROVE  KillsNamed'
  BY DEF KillsNamed, Grows

\* The spawn thread keeps its process until it is through with it.
LEMMA SpawnerStays ==
    ASSUME Grows, SpawnerNamed, Sound,
           spawner'.pc \in {"recheck", "install", "attach"} =>
               /\ spawner.pc \in {"recheck", "install", "attach"}
               /\ spawner'.child = spawner.child /\ spawner'.slot = spawner.slot
    PROVE  SpawnerNamed'
  BY DEF SpawnerNamed, Grows, Sound, SpawnerStands

\* What a caller has to do with a process: it stays what it was, or the call is not
\* that far.
LEMMA CallsStay ==
    ASSUME Grows, CallsNamed, Sound,
           \A k \in Callers : \/ call'[k] = call[k]
                              \/ call'[k].pc \notin {"install", "attach"}
                              \/ /\ call[k].pc = "install" /\ call'[k].child = call[k].child
                                 /\ call'[k].slot = call[k].slot
    PROVE  CallsNamed'
<1>1. \A k \in Callers : call[k].pc \in {"install", "attach"} => call[k].slot \in Slots
  BY RowAndLater
<1> QED
  BY <1>1 DEF CallsNamed, Grows

\* Handles name children of their own session.
LEMMA HandlesNamedStep ==
    ASSUME SessionInv, [Next]_vars
    PROVE  HandlesNamed'
<1>0. Sound /\ HandlesNamed /\ Grows
  BY GrowsStep DEF SessionInv, Sound, Named
<1>1. ASSUME UNCHANGED <<handle, slotOf, fwd>>
      PROVE  HandlesNamed'
  BY <1>0, <1>1, HandlesStay
<1>2. ASSUME NEW c \in Children, ChildEnds(c)
      PROVE  HandlesNamed'
  <2>1. UNCHANGED <<handle, slotOf, fwd>>
    BY <1>2 DEF ChildEnds, SpawnCancelled, Fork, Forwards, rows, handles, procs, bounds, history
  <2> QED
    BY <1>1, <2>1
<1>3. ASSUME NEW o \in Owners, NEW s \in Slots, KillMarks(o, s) \/ KillStops(o, s) \/
                                                KillJoins(o, s) \/ KillClears(o, s)
      PROVE  HandlesNamed'
  <2>1. UNCHANGED <<handle, slotOf, fwd>>
    BY <1>3 DEF KillMarks, KillStops, KillJoins, KillClears, SpawnCancelled, Fork, Forwards, rows,
                handles, procs, bounds, history
  <2> QED
    BY <1>1, <2>1
<1>4. ASSUME SpawnNext \/ SpawnDrained \/ SpawnCancelledInGate \/ SpawnFails \/ SpawnReaps \/
             SpawnReaped \/ SpawnRechecks \/ SpawnAttaches
      PROVE  HandlesNamed'
  <2>1. UNCHANGED <<handle, slotOf, fwd>>
    BY <1>4 DEF SpawnNext, SpawnDrained, SpawnCancelledInGate, SpawnFails, SpawnReaps,
                SpawnReaped, SpawnRechecks, SpawnAttaches, SpawnCancelled, Fork, Forwards, rows,
                handles, procs, bounds, history
  <2> QED
    BY <1>1, <2>1
<1>5. ASSUME NEW k \in Callers, NEW op \in {"stop", "archive"}, StopMission(k, op)
      PROVE  HandlesNamed'
  <2>1. UNCHANGED <<handle, slotOf, fwd>>
    BY <1>5 DEF StopMission, SpawnCancelled, Fork, Forwards, rows, handles, procs, bounds, history
  <2> QED
    BY <1>1, <2>1
<1>6. ASSUME NEW k \in Callers, NEW s \in Slots, KillSession(k, s)
      PROVE  HandlesNamed'
  <2>1. UNCHANGED <<handle, slotOf, fwd>>
    BY <1>6 DEF KillSession, SpawnCancelled, Fork, Forwards, rows, handles, procs, bounds, history
  <2> QED
    BY <1>1, <2>1
<1>7. ASSUME NEW k \in Callers, NEW op \in Ops, NEW s \in Slots, Resume(k, op, s)
      PROVE  HandlesNamed'
  <2>1. UNCHANGED <<handle, slotOf, fwd>>
    BY <1>7 DEF Resume, SpawnCancelled, Fork, Forwards, rows, handles, procs, bounds, history
  <2> QED
    BY <1>1, <2>1
<1>8. ASSUME NEW k \in Callers, KillReturns(k) \/ RestartKilled(k) \/ ResumeInPlace(k) \/
                                ResumeReturns(k)
      PROVE  HandlesNamed'
  <2>1. UNCHANGED <<handle, slotOf, fwd>>
    BY <1>8 DEF KillReturns, RestartKilled, ResumeInPlace, ResumeReturns, SpawnCancelled, Fork,
                Forwards, rows, handles, procs, bounds, history
  <2> QED
    BY <1>1, <2>1
<1>9. ASSUME NEW o \in Owners, NEW s \in Slots, KillTakes(o, s)
      PROVE  HandlesNamed'
  BY <1>0, <1>9, KillTakesDoes, HandlesStay
<1>10. ASSUME NEW c \in Children, ForwarderLeaves(c)
      PROVE  HandlesNamed'
  BY <1>0, <1>10, ForwarderLeavesDoes, HandlesStay
<1>11. ASSUME NEW c \in Children, ForwarderTakesKilled(c)
      PROVE  HandlesNamed'
  BY <1>0, <1>11, ForwarderTakesKilledDoes, HandlesStay
<1>12. ASSUME NEW c \in Children, ForwarderWritesExit(c)
      PROVE  HandlesNamed'
  BY <1>0, <1>12, ForwarderWritesExitDoes, HandlesStay
<1>13. ASSUME NEW c \in Children, ForwarderForgets(c)
      PROVE  HandlesNamed'
  BY <1>0, <1>13, ForwarderForgetsDoes, HandlesStay
<1>14. ASSUME NEW c \in Children, ForwarderReaps(c)
      PROVE  HandlesNamed'
  BY <1>0, <1>14, ForwarderReapsDoes, HandlesStay
<1>15. ASSUME NEW c \in Children, ForwarderEnds(c)
      PROVE  HandlesNamed'
  BY <1>0, <1>15, ForwarderEndsDoes, HandlesStay
<1>16. ASSUME SpawnForks
      PROVE  HandlesNamed'
  BY <1>0, <1>16, SpawnForksDoes, HandlesStay
<1>17. ASSUME SpawnInstalls
      PROVE  HandlesNamed'
  BY <1>0, <1>17, SpawnInstallsDoes, NewHandleNamed DEF Sound, Named, SpawnerNamed
<1>18. ASSUME NEW k \in Callers, ResumeForks(k)
      PROVE  HandlesNamed'
  BY <1>0, <1>18, ResumeForksDoes, HandlesStay
<1>19. ASSUME NEW k \in Callers, ResumeInstalls(k)
      PROVE  HandlesNamed'
  BY <1>0, <1>19, ResumeInstallsDoes, NewHandleNamed DEF Sound, Named, CallsNamed
<1> QED
  BY <1>1, <1>2, <1>3, <1>4, <1>5, <1>6, <1>7, <1>8, <1>9, <1>10, <1>11, <1>12, <1>13, <1>14,
     <1>15, <1>16, <1>17, <1>18, <1>19
  DEF Next, Proceed, Go, Give, Spawning, Forwarder, Killing, vars, rows, handles, procs, bounds,
      history

\* Kills name children of their own session.
LEMMA JobsNamedStep ==
    ASSUME SessionInv, [Next]_vars
    PROVE  JobsNamed'
<1>0. Sound /\ JobsNamed /\ Grows /\ HandlesNamed
  BY GrowsStep DEF SessionInv, Sound, Named
<1>1. ASSUME UNCHANGED <<job, slotOf, fwd>>
      PROVE  JobsNamed'
  BY <1>0, <1>1, JobsStay
<1>2. ASSUME NEW c \in Children, ChildEnds(c)
      PROVE  JobsNamed'
  <2>1. UNCHANGED <<job, slotOf, fwd>>
    BY <1>2 DEF ChildEnds, SpawnCancelled, Fork, Forwards, rows, handles, procs, bounds, history
  <2> QED
    BY <1>1, <2>1
<1>3. ASSUME SpawnNext \/ SpawnDrained \/ SpawnCancelledInGate \/ SpawnFails \/ SpawnRechecks \/
             SpawnAttaches
      PROVE  JobsNamed'
  <2>1. UNCHANGED <<job, slotOf, fwd>>
    BY <1>3 DEF SpawnNext, SpawnDrained, SpawnCancelledInGate, SpawnFails, SpawnRechecks,
                SpawnAttaches, SpawnCancelled, Fork, Forwards, rows, handles, procs, bounds,
                history
  <2> QED
    BY <1>1, <2>1
<1>4. ASSUME NEW k \in Callers, ResumeInPlace(k) \/ ResumeReturns(k)
      PROVE  JobsNamed'
  <2>1. UNCHANGED <<job, slotOf, fwd>>
    BY <1>4 DEF ResumeInPlace, ResumeReturns, SpawnCancelled, Fork, Forwards, rows, handles,
                procs, bounds, history
  <2> QED
    BY <1>1, <2>1
<1>5. ASSUME NEW o \in Owners, NEW s \in Slots, KillMarks(o, s)
      PROVE  JobsNamed'
  BY <1>0, <1>5, KillMarksDoes, JobsMarked
<1>6. ASSUME NEW o \in Owners, NEW s \in Slots, KillStops(o, s)
      PROVE  JobsNamed'
  BY <1>0, <1>6, KillStopsDoes, JobsStay
<1>7. ASSUME NEW o \in Owners, NEW s \in Slots, KillTakes(o, s)
      PROVE  JobsNamed'
  BY <1>0, <1>7, KillTakesDoes, JobsStay
<1>8. ASSUME NEW o \in Owners, NEW s \in Slots, KillJoins(o, s)
      PROVE  JobsNamed'
  BY <1>0, <1>8, KillJoinsDoes, JobsStay
<1>9. ASSUME NEW o \in Owners, NEW s \in Slots, KillClears(o, s)
      PROVE  JobsNamed'
  BY <1>0, <1>9, KillClearsDoes, JobsStay
<1>10. ASSUME NEW c \in Children, ForwarderLeaves(c)
      PROVE  JobsNamed'
  BY <1>0, <1>10, ForwarderLeavesDoes, JobsStay
<1>11. ASSUME NEW c \in Children, ForwarderTakesKilled(c)
      PROVE  JobsNamed'
  BY <1>0, <1>11, ForwarderTakesKilledDoes, JobsStay
<1>12. ASSUME NEW c \in Children, ForwarderWritesExit(c)
      PROVE  JobsNamed'
  BY <1>0, <1>12, ForwarderWritesExitDoes, JobsStay
<1>13. ASSUME NEW c \in Children, ForwarderForgets(c)
      PROVE  JobsNamed'
  BY <1>0, <1>13, ForwarderForgetsDoes, JobsStay
<1>14. ASSUME NEW c \in Children, ForwarderReaps(c)
      PROVE  JobsNamed'
  BY <1>0, <1>14, ForwarderReapsDoes, JobsStay, OwnersAre DEF SentAll, OwnerKinds
<1>15. ASSUME NEW c \in Children, ForwarderEnds(c)
      PROVE  JobsNamed'
  BY <1>0, <1>15, ForwarderEndsDoes, JobsStay, OwnersAre DEF OwnerKinds
<1>16. ASSUME SpawnForks
      PROVE  JobsNamed'
  BY <1>0, <1>16, SpawnForksDoes, JobsStay
<1>17. ASSUME SpawnReaps
      PROVE  JobsNamed'
  BY <1>0, <1>17, SpawnReapsDoes, JobsStay, OwnersAre DEF SentAll, OwnerKinds
<1>18. ASSUME SpawnReaped
      PROVE  JobsNamed'
  BY <1>0, <1>18, SpawnReapedDoes, JobsStay, OwnersAre DEF OwnerKinds
<1>19. ASSUME SpawnInstalls
      PROVE  JobsNamed'
  BY <1>0, <1>19, SpawnInstallsDoes, JobsStay
<1>20. ASSUME NEW k \in Callers, NEW op \in {"stop", "archive"}, StopMission(k, op)
      PROVE  JobsNamed'
  BY <1>0, <1>20, StopMissionDoes, JobsStay, OwnersAre DEF SentAll, OwnerKinds
<1>21. ASSUME NEW k \in Callers, NEW s \in Slots, KillSession(k, s)
      PROVE  JobsNamed'
  BY <1>0, <1>21, KillSessionDoes, JobsMarked, OwnersAre DEF OwnerKinds
<1>22. ASSUME NEW k \in Callers, NEW op \in Ops, NEW s \in Slots, Resume(k, op, s)
      PROVE  JobsNamed'
  BY <1>0, <1>22, ResumeDoes, JobsStay, OwnersAre DEF OwnerKinds
<1>23. ASSUME NEW k \in Callers, KillReturns(k)
      PROVE  JobsNamed'
  BY <1>0, <1>23, KillReturnsDoes, JobsStay, OwnersAre DEF OwnerKinds
<1>24. ASSUME NEW k \in Callers, RestartKilled(k)
      PROVE  JobsNamed'
  BY <1>0, <1>24, RestartKilledDoes, JobsStay, OwnersAre DEF OwnerKinds
<1>25. ASSUME NEW k \in Callers, ResumeForks(k)
      PROVE  JobsNamed'
  BY <1>0, <1>25, ResumeForksDoes, JobsStay
<1>26. ASSUME NEW k \in Callers, ResumeInstalls(k)
      PROVE  JobsNamed'
  BY <1>0, <1>26, ResumeInstallsDoes, JobsStay
<1> QED
  BY <1>1, <1>2, <1>3, <1>4, <1>5, <1>6, <1>7, <1>8, <1>9, <1>10, <1>11, <1>12, <1>13, <1>14,
     <1>15, <1>16, <1>17, <1>18, <1>19, <1>20, <1>21, <1>22, <1>23, <1>24, <1>25, <1>26
  DEF Next, Proceed, Go, Give, Spawning, Forwarder, Killing, vars, rows, handles, procs, bounds,
      history

\* Only a process with a forwarder is killed.
LEMMA KillsNamedStep ==
    ASSUME SessionInv, [Next]_vars
    PROVE  KillsNamed'
<1>0. Sound /\ KillsNamed /\ Grows /\ JobsNamed
  BY GrowsStep DEF SessionInv, Sound, Named
<1>1. ASSUME UNCHANGED <<child, fwd>>
      PROVE  KillsNamed'
  BY <1>0, <1>1, KillsStay
<1>2. ASSUME NEW o \in Owners, NEW s \in Slots, KillMarks(o, s) \/ KillTakes(o, s) \/
                                                KillJoins(o, s) \/ KillClears(o, s)
      PROVE  KillsNamed'
  <2>1. UNCHANGED <<child, fwd>>
    BY <1>2 DEF KillMarks, KillTakes, KillJoins, KillClears, SpawnCancelled, Fork, Forwards, rows,
                handles, procs, bounds, history
  <2> QED
    BY <1>1, <2>1
<1>3. ASSUME SpawnNext \/ SpawnDrained \/ SpawnCancelledInGate \/ SpawnFails \/ SpawnReaps \/
             SpawnReaped \/ SpawnAttaches
      PROVE  KillsNamed'
  <2>1. UNCHANGED <<child, fwd>>
    BY <1>3 DEF SpawnNext, SpawnDrained, SpawnCancelledInGate, SpawnFails, SpawnReaps,
                SpawnReaped, SpawnAttaches, SpawnCancelled, Fork, Forwards, rows, handles, procs,
                bounds, history
  <2> QED
    BY <1>1, <2>1
<1>4. ASSUME NEW k \in Callers, NEW op \in {"stop", "archive"}, StopMission(k, op)
      PROVE  KillsNamed'
  <2>1. UNCHANGED <<child, fwd>>
    BY <1>4 DEF StopMission, SpawnCancelled, Fork, Forwards, rows, handles, procs, bounds, history
  <2> QED
    BY <1>1, <2>1
<1>5. ASSUME NEW k \in Callers, NEW s \in Slots, KillSession(k, s)
      PROVE  KillsNamed'
  <2>1. UNCHANGED <<child, fwd>>
    BY <1>5 DEF KillSession, SpawnCancelled, Fork, Forwards, rows, handles, procs, bounds, history
  <2> QED
    BY <1>1, <2>1
<1>6. ASSUME NEW k \in Callers, NEW op \in Ops, NEW s \in Slots, Resume(k, op, s)
      PROVE  KillsNamed'
  <2>1. UNCHANGED <<child, fwd>>
    BY <1>6 DEF Resume, SpawnCancelled, Fork, Forwards, rows, handles, procs, bounds, history
  <2> QED
    BY <1>1, <2>1
<1>7. ASSUME NEW k \in Callers, KillReturns(k) \/ RestartKilled(k) \/ ResumeInPlace(k) \/
                                ResumeReturns(k)
      PROVE  KillsNamed'
  <2>1. UNCHANGED <<child, fwd>>
    BY <1>7 DEF KillReturns, RestartKilled, ResumeInPlace, ResumeReturns, SpawnCancelled, Fork,
                Forwards, rows, handles, procs, bounds, history
  <2> QED
    BY <1>1, <2>1
<1>8. ASSUME NEW c \in Children, ChildEnds(c)
      PROVE  KillsNamed'
  BY <1>0, <1>8, ChildEndsDoes, KillsStay
<1>9. ASSUME NEW o \in Owners, NEW s \in Slots, KillStops(o, s)
      PROVE  KillsNamed'
  BY <1>0, <1>9, KillStopsDoes DEF KillsNamed, JobsNamed, Grows
<1>10. ASSUME NEW c \in Children, ForwarderLeaves(c)
      PROVE  KillsNamed'
  BY <1>0, <1>10, ForwarderLeavesDoes, KillsStay DEF Ended
<1>11. ASSUME NEW c \in Children, ForwarderTakesKilled(c)
      PROVE  KillsNamed'
  BY <1>0, <1>11, ForwarderTakesKilledDoes, KillsStay
<1>12. ASSUME NEW c \in Children, ForwarderWritesExit(c)
      PROVE  KillsNamed'
  BY <1>0, <1>12, ForwarderWritesExitDoes, KillsStay
<1>13. ASSUME NEW c \in Children, ForwarderForgets(c)
      PROVE  KillsNamed'
  BY <1>0, <1>13, ForwarderForgetsDoes, KillsStay
<1>14. ASSUME NEW c \in Children, ForwarderReaps(c)
      PROVE  KillsNamed'
  BY <1>0, <1>14, ForwarderReapsDoes, KillsStay
<1>15. ASSUME NEW c \in Children, ForwarderEnds(c)
      PROVE  KillsNamed'
  BY <1>0, <1>15, ForwarderEndsDoes, KillsStay
<1>16. ASSUME SpawnForks
      PROVE  KillsNamed'
  BY <1>0, <1>16, SpawnForksDoes, KillsStay DEF ForkedFor
<1>17. ASSUME SpawnRechecks
      PROVE  KillsNamed'
  BY <1>0, <1>17, SpawnRechecksDoes, KillsStay DEF Ended
<1>18. ASSUME SpawnInstalls
      PROVE  KillsNamed'
  BY <1>0, <1>18, SpawnInstallsDoes, KillsStay
<1>19. ASSUME NEW k \in Callers, ResumeForks(k)
      PROVE  KillsNamed'
  BY <1>0, <1>19, ResumeForksDoes, KillsStay DEF ForkedFor
<1>20. ASSUME NEW k \in Callers, ResumeInstalls(k)
      PROVE  KillsNamed'
  BY <1>0, <1>20, ResumeInstallsDoes, KillsStay
<1> QED
  BY <1>1, <1>2, <1>3, <1>4, <1>5, <1>6, <1>7, <1>8, <1>9, <1>10, <1>11, <1>12, <1>13, <1>14,
     <1>15, <1>16, <1>17, <1>18, <1>19, <1>20
  DEF Next, Proceed, Go, Give, Spawning, Forwarder, Killing, vars, rows, handles, procs, bounds,
      history

\* The spawn thread names a child of the slot it is at.
LEMMA SpawnerNamedStep ==
    ASSUME SessionInv, [Next]_vars
    PROVE  SpawnerNamed'
<1>0. Sound /\ SpawnerNamed /\ Grows
  BY GrowsStep DEF SessionInv, Sound, Named
<1>1. ASSUME UNCHANGED <<spawner, slotOf, fwd>>
      PROVE  SpawnerNamed'
  BY <1>0, <1>1, SpawnerStays
<1>2. ASSUME NEW c \in Children, ChildEnds(c)
      PROVE  SpawnerNamed'
  <2>1. UNCHANGED <<spawner, slotOf, fwd>>
    BY <1>2 DEF ChildEnds, SpawnCancelled, Fork, Forwards, rows, handles, procs, bounds, history
  <2> QED
    BY <1>1, <2>1
<1>3. ASSUME NEW o \in Owners, NEW s \in Slots, KillMarks(o, s) \/ KillStops(o, s) \/
                                                KillTakes(o, s) \/ KillJoins(o, s) \/
                                                KillClears(o, s)
      PROVE  SpawnerNamed'
  <2>1. UNCHANGED <<spawner, slotOf, fwd>>
    BY <1>3 DEF KillMarks, KillStops, KillTakes, KillJoins, KillClears, SpawnCancelled, Fork,
                Forwards, rows, handles, procs, bounds, history
  <2> QED
    BY <1>1, <2>1
<1>4. ASSUME NEW k \in Callers, NEW op \in {"stop", "archive"}, StopMission(k, op)
      PROVE  SpawnerNamed'
  <2>1. UNCHANGED <<spawner, slotOf, fwd>>
    BY <1>4 DEF StopMission, SpawnCancelled, Fork, Forwards, rows, handles, procs, bounds, history
  <2> QED
    BY <1>1, <2>1
<1>5. ASSUME NEW k \in Callers, NEW s \in Slots, KillSession(k, s)
      PROVE  SpawnerNamed'
  <2>1. UNCHANGED <<spawner, slotOf, fwd>>
    BY <1>5 DEF KillSession, SpawnCancelled, Fork, Forwards, rows, handles, procs, bounds, history
  <2> QED
    BY <1>1, <2>1
<1>6. ASSUME NEW k \in Callers, NEW op \in Ops, NEW s \in Slots, Resume(k, op, s)
      PROVE  SpawnerNamed'
  <2>1. UNCHANGED <<spawner, slotOf, fwd>>
    BY <1>6 DEF Resume, SpawnCancelled, Fork, Forwards, rows, handles, procs, bounds, history
  <2> QED
    BY <1>1, <2>1
<1>7. ASSUME NEW k \in Callers, KillReturns(k) \/ RestartKilled(k) \/ ResumeInPlace(k) \/
                                ResumeReturns(k)
      PROVE  SpawnerNamed'
  <2>1. UNCHANGED <<spawner, slotOf, fwd>>
    BY <1>7 DEF KillReturns, RestartKilled, ResumeInPlace, ResumeReturns, SpawnCancelled, Fork,
                Forwards, rows, handles, procs, bounds, history
  <2> QED
    BY <1>1, <2>1
<1>8. ASSUME NEW c \in Children, ForwarderLeaves(c)
      PROVE  SpawnerNamed'
  BY <1>0, <1>8, ForwarderLeavesDoes, SpawnerStays
<1>9. ASSUME NEW c \in Children, ForwarderTakesKilled(c)
      PROVE  SpawnerNamed'
  BY <1>0, <1>9, ForwarderTakesKilledDoes, SpawnerStays
<1>10. ASSUME NEW c \in Children, ForwarderWritesExit(c)
      PROVE  SpawnerNamed'
  BY <1>0, <1>10, ForwarderWritesExitDoes, SpawnerStays
<1>11. ASSUME NEW c \in Children, ForwarderForgets(c)
      PROVE  SpawnerNamed'
  BY <1>0, <1>11, ForwarderForgetsDoes, SpawnerStays
<1>12. ASSUME NEW c \in Children, ForwarderReaps(c)
      PROVE  SpawnerNamed'
  BY <1>0, <1>12, ForwarderReapsDoes, SpawnerStays
<1>13. ASSUME NEW c \in Children, ForwarderEnds(c)
      PROVE  SpawnerNamed'
  BY <1>0, <1>13, ForwarderEndsDoes, SpawnerStays
<1>14. ASSUME SpawnNext
      PROVE  SpawnerNamed'
  BY <1>0, <1>14, SpawnNextDoes, SpawnerStays
<1>15. ASSUME SpawnDrained
      PROVE  SpawnerNamed'
  BY <1>0, <1>15, SpawnDrainedDoes, SpawnerStays
<1>16. ASSUME SpawnForks
      PROVE  SpawnerNamed'
  BY <1>0, <1>16, SpawnForksDoes DEF SpawnerNamed, ForkedFor
<1>17. ASSUME SpawnCancelledInGate
      PROVE  SpawnerNamed'
  BY <1>0, <1>17, SpawnCancelledInGateDoes, SpawnerStays
<1>18. ASSUME SpawnFails
      PROVE  SpawnerNamed'
  BY <1>0, <1>18, SpawnFailsDoes, SpawnerStays
<1>19. ASSUME SpawnReaps
      PROVE  SpawnerNamed'
  BY <1>0, <1>19, SpawnReapsDoes, SpawnerStays
<1>20. ASSUME SpawnReaped
      PROVE  SpawnerNamed'
  BY <1>0, <1>20, SpawnReapedDoes, SpawnerStays
<1>21. ASSUME SpawnRechecks
      PROVE  SpawnerNamed'
  BY <1>0, <1>21, SpawnRechecksDoes, SpawnerStays
<1>22. ASSUME SpawnInstalls
      PROVE  SpawnerNamed'
  BY <1>0, <1>22, SpawnInstallsDoes, SpawnerStays
<1>23. ASSUME SpawnAttaches
      PROVE  SpawnerNamed'
  BY <1>0, <1>23, SpawnAttachesDoes, SpawnerStays
<1>24. ASSUME NEW k \in Callers, ResumeForks(k)
      PROVE  SpawnerNamed'
  BY <1>0, <1>24, ResumeForksDoes, SpawnerStays
<1>25. ASSUME NEW k \in Callers, ResumeInstalls(k)
      PROVE  SpawnerNamed'
  BY <1>0, <1>25, ResumeInstallsDoes, SpawnerStays
<1> QED
  BY <1>1, <1>2, <1>3, <1>4, <1>5, <1>6, <1>7, <1>8, <1>9, <1>10, <1>11, <1>12, <1>13, <1>14,
     <1>15, <1>16, <1>17, <1>18, <1>19, <1>20, <1>21, <1>22, <1>23, <1>24, <1>25
  DEF Next, Proceed, Go, Give, Spawning, Forwarder, Killing, vars, rows, handles, procs, bounds,
      history

\* A call names a child of its session.
LEMMA CallsNamedStep ==
    ASSUME SessionInv, [Next]_vars
    PROVE  CallsNamed'
<1>0. Sound /\ CallsNamed /\ Grows
  BY GrowsStep DEF SessionInv, Sound, Named
<1>1. ASSUME UNCHANGED <<call, slotOf, fwd>>
      PROVE  CallsNamed'
  BY <1>0, <1>1, CallsStay
<1>2. ASSUME NEW c \in Children, ChildEnds(c)
      PROVE  CallsNamed'
  <2>1. UNCHANGED <<call, slotOf, fwd>>
    BY <1>2 DEF ChildEnds, SpawnCancelled, Fork, Forwards, rows, handles, procs, bounds, history
  <2> QED
    BY <1>1, <2>1
<1>3. ASSUME NEW o \in Owners, NEW s \in Slots, KillMarks(o, s) \/ KillStops(o, s) \/
                                                KillTakes(o, s) \/ KillJoins(o, s) \/
                                                KillClears(o, s)
      PROVE  CallsNamed'
  <2>1. UNCHANGED <<call, slotOf, fwd>>
    BY <1>3 DEF KillMarks, KillStops, KillTakes, KillJoins, KillClears, SpawnCancelled, Fork,
                Forwards, rows, handles, procs, bounds, history
  <2> QED
    BY <1>1, <2>1
<1>4. ASSUME SpawnNext \/ SpawnDrained \/ SpawnCancelledInGate \/ SpawnFails \/ SpawnReaps \/
             SpawnReaped \/ SpawnRechecks \/ SpawnAttaches
      PROVE  CallsNamed'
  <2>1. UNCHANGED <<call, slotOf, fwd>>
    BY <1>4 DEF SpawnNext, SpawnDrained, SpawnCancelledInGate, SpawnFails, SpawnReaps,
                SpawnReaped, SpawnRechecks, SpawnAttaches, SpawnCancelled, Fork, Forwards, rows,
                handles, procs, bounds, history
  <2> QED
    BY <1>1, <2>1
<1>5. ASSUME NEW c \in Children, ForwarderLeaves(c)
      PROVE  CallsNamed'
  BY <1>0, <1>5, ForwarderLeavesDoes, CallsStay
<1>6. ASSUME NEW c \in Children, ForwarderTakesKilled(c)
      PROVE  CallsNamed'
  BY <1>0, <1>6, ForwarderTakesKilledDoes, CallsStay
<1>7. ASSUME NEW c \in Children, ForwarderWritesExit(c)
      PROVE  CallsNamed'
  BY <1>0, <1>7, ForwarderWritesExitDoes, CallsStay
<1>8. ASSUME NEW c \in Children, ForwarderForgets(c)
      PROVE  CallsNamed'
  BY <1>0, <1>8, ForwarderForgetsDoes, CallsStay
<1>9. ASSUME NEW c \in Children, ForwarderReaps(c)
      PROVE  CallsNamed'
  BY <1>0, <1>9, ForwarderReapsDoes, CallsStay
<1>10. ASSUME NEW c \in Children, ForwarderEnds(c)
      PROVE  CallsNamed'
  BY <1>0, <1>10, ForwarderEndsDoes, CallsStay
<1>11. ASSUME SpawnForks
      PROVE  CallsNamed'
  BY <1>0, <1>11, SpawnForksDoes, CallsStay
<1>12. ASSUME SpawnInstalls
      PROVE  CallsNamed'
  BY <1>0, <1>12, SpawnInstallsDoes, CallsStay
<1>13. ASSUME NEW k \in Callers, NEW op \in {"stop", "archive"}, StopMission(k, op)
      PROVE  CallsNamed'
  BY <1>0, <1>13, StopMissionDoes, CallsStay
<1>14. ASSUME NEW k \in Callers, NEW s \in Slots, KillSession(k, s)
      PROVE  CallsNamed'
  BY <1>0, <1>14, KillSessionDoes, CallsStay
<1>15. ASSUME NEW k \in Callers, NEW op \in Ops, NEW s \in Slots, Resume(k, op, s)
      PROVE  CallsNamed'
  BY <1>0, <1>15, ResumeDoes, CallsStay
<1>16. ASSUME NEW k \in Callers, KillReturns(k)
      PROVE  CallsNamed'
  BY <1>0, <1>16, KillReturnsDoes, CallsStay DEF NoCall
<1>17. ASSUME NEW k \in Callers, RestartKilled(k)
      PROVE  CallsNamed'
  BY <1>0, <1>17, RestartKilledDoes, CallsStay DEF NoCall
<1>18. ASSUME NEW k \in Callers, ResumeInPlace(k)
      PROVE  CallsNamed'
  BY <1>0, <1>18, ResumeInPlaceDoes, CallsStay
<1>19. ASSUME NEW k \in Callers, ResumeForks(k)
      PROVE  CallsNamed'
  <2>1. \A j \in Callers : j # k /\ call[j].pc \in {"install", "attach"} => call[j].slot \in Slots
    BY <1>0, RowAndLater
  <2> QED
    BY <1>0, <1>19, <2>1, ResumeForksDoes DEF CallsNamed, ForkedFor, Grows, NoCall
<1>20. ASSUME NEW k \in Callers, ResumeInstalls(k)
      PROVE  CallsNamed'
  BY <1>0, <1>20, ResumeInstallsDoes, CallsStay
<1>21. ASSUME NEW k \in Callers, ResumeReturns(k)
      PROVE  CallsNamed'
  BY <1>0, <1>21, ResumeReturnsDoes, CallsStay DEF NoCall
<1> QED
  BY <1>1, <1>2, <1>3, <1>4, <1>5, <1>6, <1>7, <1>8, <1>9, <1>10, <1>11, <1>12, <1>13, <1>14,
     <1>15, <1>16, <1>17, <1>18, <1>19, <1>20, <1>21
  DEF Next, Proceed, Go, Give, Spawning, Forwarder, Killing, vars, rows, handles, procs, bounds,
      history

\* Handles, kills and forks name children of their session.
LEMMA NamedStep ==
    ASSUME SessionInv, [Next]_vars
    PROVE  Named'
  BY HandlesNamedStep, JobsNamedStep, KillsNamedStep, SpawnerNamedStep, CallsNamedStep DEF Named

-----------------------------------------------------------------------------
(* Claims and the spawn thread are kept.                                    *)

\* None is not a slot.
LEMMA NoneIsNoSlot ==
    ASSUME Sound
    PROVE  None \notin Slots /\ None \notin spawner.todo
  BY TypeParts, LifecycleAssumption DEF LifecycleAssumption, Sound, SpawnerTyped, SpawnerType

\* The jobs of a claiming restart are under way, or done.
LEMMA JobsKeepClaims ==
    ASSUME ClaimsAreSingle, UNCHANGED <<call, resuming>>,
           \A k \in Callers, s \in Slots : job'[k][s].step = "none" => job[k][s].step = "none"
    PROVE  ClaimsAreSingle'
  BY DEF ClaimsAreSingle, Claiming

\* A call that holds no claim and gets none.
LEMMA CallsKeepClaims ==
    ASSUME ClaimsAreSingle, UNCHANGED resuming, NEW k \in Callers, ~Claiming(k),
           call'[k].op \notin {"resume", "restart"}, call'[k].pc \in {"idle", "killing"},
           \A j \in Callers : j # k => call'[j] = call[j] /\ \A t \in Slots : job'[j][t] = job[j][t]
    PROVE  ClaimsAreSingle'
<1>1. ~Claiming(k)'
  BY DEF Claiming
<1>2. \A j \in Callers : j # k => (Claiming(j)' <=> Claiming(j))
  BY DEF Claiming
<1> QED
  BY <1>1, <1>2 DEF ClaimsAreSingle

\* A claim is given up.
LEMMA ClaimGivenUp ==
    ASSUME ClaimsAreSingle, NEW k \in Callers, Claiming(k), call'[k] = NoCall,
           \A j \in Callers : j # k => call'[j] = call[j] /\ \A t \in Slots : job'[j][t] = job[j][t],
           \A t \in Slots : t # call[k].slot => resuming'[t] = resuming[t]
    PROVE  ClaimsAreSingle'
<1>1. ~Claiming(k)' /\ call'[k].pc = "idle"
  BY DEF Claiming, NoCall
<1>2. \A j \in Callers : j # k => (Claiming(j)' <=> Claiming(j))
  BY DEF Claiming
<1> QED
  BY <1>1, <1>2 DEF ClaimsAreSingle

\* A claim goes on.
LEMMA ClaimGoesOn ==
    ASSUME ClaimsAreSingle, UNCHANGED resuming, NEW k \in Callers, Claiming(k),
           call'[k].op = call[k].op, call'[k].slot = call[k].slot,
           call'[k].pc \in {"row", "fork", "install", "attach"},
           \A j \in Callers : j # k => call'[j] = call[j] /\ \A t \in Slots : job'[j][t] = job[j][t]
    PROVE  ClaimsAreSingle'
<1>1. Claiming(k)'
  BY DEF Claiming
<1>2. \A j \in Callers : j # k => (Claiming(j)' <=> Claiming(j))
  BY DEF Claiming
<1> QED
  BY <1>1, <1>2 DEF ClaimsAreSingle

\* A claim that is taken is of a session nobody had claimed.
LEMMA ClaimTaken ==
    ASSUME ClaimsAreSingle, NEW k \in Callers, NEW s \in Slots, ~resuming[s], resuming'[s],
           ~Claiming(k),
           \A t \in Slots : t # s => resuming'[t] = resuming[t],
           call'[k].op \in {"resume", "restart"}, call'[k].slot = s,
           \/ call'[k].pc = "killing" /\ job'[k][s].step # "none"
           \/ call'[k].pc = "row",
           \A j \in Callers : j # k => call'[j] = call[j] /\ \A t \in Slots : job'[j][t] = job[j][t]
    PROVE  ClaimsAreSingle'
<1>1. Claiming(k)'
  BY DEF Claiming
<1>2. \A j \in Callers : j # k => (Claiming(j)' <=> Claiming(j))
  BY DEF Claiming
<1>3. \A j \in Callers : Claiming(j) => call[j].slot # s
  BY DEF ClaimsAreSingle
<1> QED
  BY <1>1, <1>2, <1>3 DEF ClaimsAreSingle

\* A claim is one caller's.
LEMMA ClaimsAreSingleStep ==
    ASSUME SessionInv, [Next]_vars
    PROVE  ClaimsAreSingle'
<1>0. Sound /\ ClaimsAreSingle
  BY DEF SessionInv, Sound
<1>1. ASSUME UNCHANGED <<call, resuming, job>>
      PROVE  ClaimsAreSingle'
  BY <1>0, <1>1 DEF ClaimsAreSingle, Claiming
<1>2. ASSUME NEW c \in Children, ChildEnds(c) \/ ForwarderLeaves(c) \/ ForwarderTakesKilled(c) \/
                                 ForwarderWritesExit(c) \/ ForwarderForgets(c)
      PROVE  ClaimsAreSingle'
  <2>1. UNCHANGED <<call, resuming, job>>
    BY <1>2 DEF ChildEnds, ForwarderLeaves, ForwarderTakesKilled, ForwarderWritesExit,
                ForwarderForgets, SpawnCancelled, Fork, Forwards, rows, handles, procs, bounds,
                history
  <2> QED
    BY <1>1, <2>1
<1>3. ASSUME SpawnNext \/ SpawnDrained \/ SpawnForks \/ SpawnCancelledInGate \/ SpawnFails \/
             SpawnRechecks \/ SpawnInstalls \/ SpawnAttaches
      PROVE  ClaimsAreSingle'
  <2>1. UNCHANGED <<call, resuming, job>>
    BY <1>3 DEF SpawnNext, SpawnDrained, SpawnForks, SpawnCancelledInGate, SpawnFails,
                SpawnRechecks, SpawnInstalls, SpawnAttaches, SpawnCancelled, Fork, Forwards, rows,
                handles, procs, bounds, history
  <2> QED
    BY <1>1, <2>1
<1>4. ASSUME NEW o \in Owners, NEW s \in Slots, KillMarks(o, s)
      PROVE  ClaimsAreSingle'
  BY <1>0, <1>4, KillMarksDoes, JobsKeepClaims, OwnersAre DEF OwnerKinds, Claiming
<1>5. ASSUME NEW o \in Owners, NEW s \in Slots, KillStops(o, s)
      PROVE  ClaimsAreSingle'
  BY <1>0, <1>5, KillStopsDoes, JobsKeepClaims, OwnersAre DEF OwnerKinds, Claiming
<1>6. ASSUME NEW o \in Owners, NEW s \in Slots, KillTakes(o, s)
      PROVE  ClaimsAreSingle'
  BY <1>0, <1>6, KillTakesDoes, JobsKeepClaims, OwnersAre DEF OwnerKinds, Claiming
<1>7. ASSUME NEW o \in Owners, NEW s \in Slots, KillJoins(o, s)
      PROVE  ClaimsAreSingle'
  BY <1>0, <1>7, KillJoinsDoes, JobsKeepClaims, OwnersAre DEF OwnerKinds, Claiming
<1>8. ASSUME NEW o \in Owners, NEW s \in Slots, KillClears(o, s)
      PROVE  ClaimsAreSingle'
  BY <1>0, <1>8, KillClearsDoes, JobsKeepClaims, OwnersAre DEF OwnerKinds, Claiming
<1>9. ASSUME NEW c \in Children, ForwarderReaps(c)
      PROVE  ClaimsAreSingle'
  BY <1>0, <1>9, ForwarderReapsDoes, JobsKeepClaims, OwnersAre DEF OwnerKinds, Claiming, SentAll
<1>10. ASSUME NEW c \in Children, ForwarderEnds(c)
      PROVE  ClaimsAreSingle'
  BY <1>0, <1>10, ForwarderEndsDoes, JobsKeepClaims, OwnersAre DEF OwnerKinds, Claiming
<1>11. ASSUME SpawnReaps
      PROVE  ClaimsAreSingle'
  BY <1>0, <1>11, SpawnReapsDoes, JobsKeepClaims, OwnersAre DEF OwnerKinds, Claiming, SentAll
<1>12. ASSUME SpawnReaped
      PROVE  ClaimsAreSingle'
  BY <1>0, <1>12, SpawnReapedDoes, JobsKeepClaims, OwnersAre DEF OwnerKinds, Claiming
<1>13. ASSUME NEW k \in Callers, NEW op \in {"stop", "archive"}, StopMission(k, op)
      PROVE  ClaimsAreSingle'
  <2>1. ~Claiming(k) /\ k \in Owners /\ \A j \in Callers : j \in Owners
    BY <1>0, <1>13, StopMissionDoes, OwnersAre DEF ClaimsAreSingle, OwnerKinds
  <2> QED
    BY <1>0, <1>13, <2>1, StopMissionDoes, CallsKeepClaims DEF SentAll
<1>14. ASSUME NEW k \in Callers, NEW s \in Slots, KillSession(k, s)
      PROVE  ClaimsAreSingle'
  <2>1. ~Claiming(k) /\ k \in Owners /\ \A j \in Callers : j \in Owners
    BY <1>0, <1>14, KillSessionDoes, OwnersAre DEF ClaimsAreSingle, OwnerKinds
  <2> QED
    BY <1>0, <1>14, <2>1, KillSessionDoes, CallsKeepClaims 
<1>15. ASSUME NEW k \in Callers, NEW op \in Ops, NEW s \in Slots, Resume(k, op, s)
      PROVE  ClaimsAreSingle'
  <2>1. ~Claiming(k) /\ k \in Owners /\ \A j \in Callers : j \in Owners
    BY <1>0, <1>15, ResumeDoes, OwnersAre DEF ClaimsAreSingle, OwnerKinds
  <2> QED
    BY <1>0, <1>15, <2>1, ResumeDoes, ClaimTaken 
<1>16. ASSUME NEW k \in Callers, KillReturns(k)
      PROVE  ClaimsAreSingle'
  <2>1. ~Claiming(k) /\ \A j \in Callers : j \in Owners
    BY <1>0, <1>16, KillReturnsDoes, OwnersAre DEF Claiming, OwnerKinds
  <2> QED
    BY <1>0, <1>16, <2>1, KillReturnsDoes, CallsKeepClaims DEF NoCall
<1>17. ASSUME NEW k \in Callers, RestartKilled(k)
      PROVE  ClaimsAreSingle'
  <2>1. Claiming(k) /\ \A j \in Callers : j \in Owners
    BY <1>17, <1>0, RestartKilledDoes, OwnersAre DEF Claiming, OwnerKinds
  <2> QED
    BY <1>0, <1>17, <2>1, RestartKilledDoes, ClaimGivenUp, ClaimGoesOn
<1>18. ASSUME NEW k \in Callers, ResumeInPlace(k)
      PROVE  ClaimsAreSingle'
  BY <1>0, <1>18, ResumeInPlaceDoes, ClaimGoesOn
<1>19. ASSUME NEW k \in Callers, ResumeForks(k)
      PROVE  ClaimsAreSingle'
  BY <1>0, <1>19, ResumeForksDoes, ClaimGoesOn, ClaimGivenUp
<1>20. ASSUME NEW k \in Callers, ResumeInstalls(k)
      PROVE  ClaimsAreSingle'
  BY <1>0, <1>20, ResumeInstallsDoes, ClaimGoesOn
<1>21. ASSUME NEW k \in Callers, ResumeReturns(k)
      PROVE  ClaimsAreSingle'
  BY <1>0, <1>21, ResumeReturnsDoes, ClaimGivenUp
<1> QED
  BY <1>1, <1>2, <1>3, <1>4, <1>5, <1>6, <1>7, <1>8, <1>9, <1>10, <1>11, <1>12, <1>13, <1>14,
     <1>15, <1>16, <1>17, <1>18, <1>19, <1>20, <1>21
  DEF Next, Proceed, Go, Give, Spawning, Forwarder, Killing, vars, rows, handles, procs, bounds,
      history

\* The spawn thread has each slot once, and the flag as long as it is there.
LEMMA SpawnerStandsStep ==
    ASSUME SessionInv, [Next]_vars
    PROVE  SpawnerStands'
<1>0. Sound /\ SpawnerStands
  BY DEF SessionInv, Sound
<1>1. ASSUME UNCHANGED <<spawner, cancel>>
      PROVE  SpawnerStands'
  BY <1>0, <1>1 DEF SpawnerStands
<1>2. ASSUME NEW c \in Children, ChildEnds(c) \/ ForwarderLeaves(c) \/ ForwarderTakesKilled(c) \/
                                 ForwarderWritesExit(c) \/ ForwarderForgets(c) \/ ForwarderEnds(c)
      PROVE  SpawnerStands'
  <2>1. UNCHANGED <<spawner, cancel>>
    BY <1>2 DEF ChildEnds, ForwarderLeaves, ForwarderTakesKilled, ForwarderWritesExit,
                ForwarderForgets, ForwarderEnds, SpawnCancelled, Fork, Forwards, rows, handles,
                procs, bounds, history
  <2> QED
    BY <1>1, <2>1
<1>3. ASSUME NEW o \in Owners, NEW s \in Slots, KillMarks(o, s) \/ KillStops(o, s) \/
                                                KillTakes(o, s) \/ KillJoins(o, s) \/
                                                KillClears(o, s)
      PROVE  SpawnerStands'
  <2>1. UNCHANGED <<spawner, cancel>>
    BY <1>3 DEF KillMarks, KillStops, KillTakes, KillJoins, KillClears, SpawnCancelled, Fork,
                Forwards, rows, handles, procs, bounds, history
  <2> QED
    BY <1>1, <2>1
<1>4. ASSUME NEW k \in Callers, NEW s \in Slots, KillSession(k, s)
      PROVE  SpawnerStands'
  <2>1. UNCHANGED <<spawner, cancel>>
    BY <1>4 DEF KillSession, SpawnCancelled, Fork, Forwards, rows, handles, procs, bounds, history
  <2> QED
    BY <1>1, <2>1
<1>5. ASSUME NEW k \in Callers, NEW op \in Ops, NEW s \in Slots, Resume(k, op, s)
      PROVE  SpawnerStands'
  <2>1. UNCHANGED <<spawner, cancel>>
    BY <1>5 DEF Resume, SpawnCancelled, Fork, Forwards, rows, handles, procs, bounds, history
  <2> QED
    BY <1>1, <2>1
<1>6. ASSUME NEW k \in Callers, KillReturns(k) \/ RestartKilled(k) \/ ResumeInPlace(k) \/
                                ResumeForks(k) \/ ResumeInstalls(k) \/ ResumeReturns(k)
      PROVE  SpawnerStands'
  <2>1. UNCHANGED <<spawner, cancel>>
    BY <1>6 DEF KillReturns, RestartKilled, ResumeInPlace, ResumeForks, ResumeInstalls,
                ResumeReturns, SpawnCancelled, Fork, Forwards, rows, handles, procs, bounds,
                history
  <2> QED
    BY <1>1, <2>1
<1>7. ASSUME NEW c \in Children, ForwarderReaps(c)
      PROVE  SpawnerStands'
  BY <1>0, <1>7, ForwarderReapsDoes DEF SpawnerStands, SentAll
<1>8. ASSUME SpawnNext
      PROVE  SpawnerStands'
  BY <1>0, <1>8, SpawnNextDoes DEF SpawnerStands
<1>9. ASSUME SpawnDrained
      PROVE  SpawnerStands'
  BY <1>0, <1>9, SpawnDrainedDoes DEF SpawnerStands
<1>10. ASSUME SpawnForks
      PROVE  SpawnerStands'
  BY <1>0, <1>10, SpawnForksDoes DEF SpawnerStands
<1>11. ASSUME SpawnCancelledInGate
      PROVE  SpawnerStands'
  BY <1>0, <1>11, SpawnCancelledInGateDoes, NoneIsNoSlot DEF SpawnerStands
<1>12. ASSUME SpawnFails
      PROVE  SpawnerStands'
  BY <1>0, <1>12, SpawnFailsDoes DEF SpawnerStands
<1>13. ASSUME SpawnReaps
      PROVE  SpawnerStands'
  BY <1>0, <1>13, SpawnReapsDoes, NoneIsNoSlot DEF SpawnerStands, SentAll
<1>14. ASSUME SpawnReaped
      PROVE  SpawnerStands'
  BY <1>0, <1>14, SpawnReapedDoes, NoneIsNoSlot DEF SpawnerStands
<1>15. ASSUME SpawnRechecks
      PROVE  SpawnerStands'
  BY <1>0, <1>15, SpawnRechecksDoes, NoneIsNoSlot DEF SpawnerStands
<1>16. ASSUME SpawnInstalls
      PROVE  SpawnerStands'
  BY <1>0, <1>16, SpawnInstallsDoes DEF SpawnerStands
<1>17. ASSUME SpawnAttaches
      PROVE  SpawnerStands'
  BY <1>0, <1>17, SpawnAttachesDoes, NoneIsNoSlot DEF SpawnerStands
<1>18. ASSUME NEW k \in Callers, NEW op \in {"stop", "archive"}, StopMission(k, op)
      PROVE  SpawnerStands'
  BY <1>0, <1>18, StopMissionDoes DEF SpawnerStands, SentAll
<1> QED
  BY <1>1, <1>2, <1>3, <1>4, <1>5, <1>6, <1>7, <1>8, <1>9, <1>10, <1>11, <1>12, <1>13, <1>14,
     <1>15, <1>16, <1>17, <1>18
  DEF Next, Proceed, Go, Give, Spawning, Forwarder, Killing, vars, rows, handles, procs, bounds,
      history

-----------------------------------------------------------------------------
(* What is to be spawned.                                                   *)

\* A slot whose fork is to come is pending.
LEMMA ToSpawnIsPending ==
    ASSUME SpawnerStands, NEW s \in Slots, ToSpawn(s)
    PROVE  Pending(s)
  BY DEF SpawnerStands, ToSpawn, Pending

\* Nothing becomes pending, and nothing is claimed but by a resume.
LEMMA PendingOrClaimed ==
    ASSUME PendingIsUnclaimed, overtaken \subseteq overtaken',
           \A s \in Slots : Pending(s)' => Pending(s),
           \A s \in Slots \ overtaken' : Claimed(s)' => Claimed(s) \/ ~Pending(s)
    PROVE  PendingIsUnclaimed'
  BY DEF PendingIsUnclaimed

\* No session is claimed while the spawn thread has to fork for it, unless overtaken.
LEMMA PendingIsUnclaimedStep ==
    ASSUME SessionInv, [Next]_vars
    PROVE  PendingIsUnclaimed'
<1>0. Sound /\ PendingIsUnclaimed
  BY DEF SessionInv, Sound, SpawnsFirst
<1>1. ASSUME UNCHANGED <<spawner, call, overtaken>>
      PROVE  PendingIsUnclaimed'
  BY <1>0, <1>1 DEF PendingIsUnclaimed, Pending, Claimed, Claiming
<1>2. ASSUME NEW c \in Children, ChildEnds(c) \/ ForwarderLeaves(c) \/ ForwarderTakesKilled(c) \/
                                 ForwarderWritesExit(c) \/ ForwarderForgets(c) \/
                                 ForwarderReaps(c) \/ ForwarderEnds(c)
      PROVE  PendingIsUnclaimed'
  <2>1. UNCHANGED <<spawner, call, overtaken>>
    BY <1>2 DEF ChildEnds, ForwarderLeaves, ForwarderTakesKilled, ForwarderWritesExit,
                ForwarderForgets, ForwarderReaps, ForwarderEnds, SpawnCancelled, Fork, Forwards,
                rows, handles, procs, bounds, history
  <2> QED
    BY <1>1, <2>1
<1>3. ASSUME NEW o \in Owners, NEW s \in Slots, KillMarks(o, s) \/ KillStops(o, s) \/
                                                KillTakes(o, s) \/ KillJoins(o, s) \/
                                                KillClears(o, s)
      PROVE  PendingIsUnclaimed'
  <2>1. UNCHANGED <<spawner, call, overtaken>>
    BY <1>3 DEF KillMarks, KillStops, KillTakes, KillJoins, KillClears, SpawnCancelled, Fork,
                Forwards, rows, handles, procs, bounds, history
  <2> QED
    BY <1>1, <2>1
<1>4. ASSUME SpawnNext
      PROVE  PendingIsUnclaimed'
  <2>1. \A s \in Slots : Pending(s)' => Pending(s)
    BY <1>0, <1>4, SpawnNextDoes, NoneIsNoSlot DEF Pending
  <2>2. \A s \in Slots : Claimed(s)' => Claimed(s)
    BY <1>0, <1>4, SpawnNextDoes DEF Claimed, Claiming
  <2> QED
    BY <1>0, <1>4, <2>1, <2>2, SpawnNextDoes, PendingOrClaimed
<1>5. ASSUME SpawnDrained
      PROVE  PendingIsUnclaimed'
  <2>1. \A s \in Slots : Pending(s)' => Pending(s)
    BY <1>0, <1>5, SpawnDrainedDoes, NoneIsNoSlot DEF Pending
  <2>2. \A s \in Slots : Claimed(s)' => Claimed(s)
    BY <1>0, <1>5, SpawnDrainedDoes DEF Claimed, Claiming
  <2> QED
    BY <1>0, <1>5, <2>1, <2>2, SpawnDrainedDoes, PendingOrClaimed
<1>6. ASSUME SpawnForks
      PROVE  PendingIsUnclaimed'
  <2>1. \A s \in Slots : Pending(s)' => Pending(s)
    BY <1>0, <1>6, SpawnForksDoes, NoneIsNoSlot DEF Pending
  <2>2. \A s \in Slots : Claimed(s)' => Claimed(s)
    BY <1>0, <1>6, SpawnForksDoes DEF Claimed, Claiming
  <2> QED
    BY <1>0, <1>6, <2>1, <2>2, SpawnForksDoes, PendingOrClaimed
<1>7. ASSUME SpawnCancelledInGate
      PROVE  PendingIsUnclaimed'
  <2>1. \A s \in Slots : Pending(s)' => Pending(s)
    BY <1>0, <1>7, SpawnCancelledInGateDoes, NoneIsNoSlot DEF Pending
  <2>2. \A s \in Slots : Claimed(s)' => Claimed(s)
    BY <1>0, <1>7, SpawnCancelledInGateDoes DEF Claimed, Claiming
  <2> QED
    BY <1>0, <1>7, <2>1, <2>2, SpawnCancelledInGateDoes, PendingOrClaimed
<1>8. ASSUME SpawnFails
      PROVE  PendingIsUnclaimed'
  <2>1. \A s \in Slots : Pending(s)' => Pending(s)
    BY <1>0, <1>8, SpawnFailsDoes, NoneIsNoSlot DEF Pending
  <2>2. \A s \in Slots : Claimed(s)' => Claimed(s)
    BY <1>0, <1>8, SpawnFailsDoes DEF Claimed, Claiming
  <2> QED
    BY <1>0, <1>8, <2>1, <2>2, SpawnFailsDoes, PendingOrClaimed
<1>9. ASSUME SpawnReaps
      PROVE  PendingIsUnclaimed'
  <2>1. \A s \in Slots : Pending(s)' => Pending(s)
    BY <1>0, <1>9, SpawnReapsDoes, NoneIsNoSlot DEF Pending
  <2>2. \A s \in Slots : Claimed(s)' => Claimed(s)
    BY <1>0, <1>9, SpawnReapsDoes DEF Claimed, Claiming
  <2> QED
    BY <1>0, <1>9, <2>1, <2>2, SpawnReapsDoes, PendingOrClaimed
<1>10. ASSUME SpawnReaped
      PROVE  PendingIsUnclaimed'
  <2>1. \A s \in Slots : Pending(s)' => Pending(s)
    BY <1>0, <1>10, SpawnReapedDoes, NoneIsNoSlot DEF Pending
  <2>2. \A s \in Slots : Claimed(s)' => Claimed(s)
    BY <1>0, <1>10, SpawnReapedDoes DEF Claimed, Claiming
  <2> QED
    BY <1>0, <1>10, <2>1, <2>2, SpawnReapedDoes, PendingOrClaimed
<1>11. ASSUME SpawnRechecks
      PROVE  PendingIsUnclaimed'
  <2>1. \A s \in Slots : Pending(s)' => Pending(s)
    BY <1>0, <1>11, SpawnRechecksDoes, NoneIsNoSlot DEF Pending
  <2>2. \A s \in Slots : Claimed(s)' => Claimed(s)
    BY <1>0, <1>11, SpawnRechecksDoes DEF Claimed, Claiming
  <2> QED
    BY <1>0, <1>11, <2>1, <2>2, SpawnRechecksDoes, PendingOrClaimed
<1>12. ASSUME SpawnInstalls
      PROVE  PendingIsUnclaimed'
  <2>1. \A s \in Slots : Pending(s)' => Pending(s)
    BY <1>0, <1>12, SpawnInstallsDoes, NoneIsNoSlot DEF Pending
  <2>2. \A s \in Slots : Claimed(s)' => Claimed(s)
    BY <1>0, <1>12, SpawnInstallsDoes DEF Claimed, Claiming
  <2> QED
    BY <1>0, <1>12, <2>1, <2>2, SpawnInstallsDoes, PendingOrClaimed
<1>13. ASSUME SpawnAttaches
      PROVE  PendingIsUnclaimed'
  <2>1. \A s \in Slots : Pending(s)' => Pending(s)
    BY <1>0, <1>13, SpawnAttachesDoes, NoneIsNoSlot DEF Pending
  <2>2. \A s \in Slots : Claimed(s)' => Claimed(s)
    BY <1>0, <1>13, SpawnAttachesDoes DEF Claimed, Claiming
  <2> QED
    BY <1>0, <1>13, <2>1, <2>2, SpawnAttachesDoes, PendingOrClaimed
<1>14. ASSUME NEW k \in Callers, NEW op \in {"stop", "archive"}, StopMission(k, op)
      PROVE  PendingIsUnclaimed'
  <2>1. \A s \in Slots : Pending(s)' => Pending(s)
    BY <1>0, <1>14, StopMissionDoes DEF Pending
  <2>2. \A s \in Slots : Claimed(s)' => Claimed(s)
    BY <1>0, <1>14, StopMissionDoes DEF Claimed, Claiming, NoCall
  <2> QED
    BY <1>0, <1>14, <2>1, <2>2, StopMissionDoes, PendingOrClaimed
<1>15. ASSUME NEW k \in Callers, NEW s \in Slots, KillSession(k, s)
      PROVE  PendingIsUnclaimed'
  <2>1. \A t \in Slots : Pending(t)' => Pending(t)
    BY <1>0, <1>15, KillSessionDoes DEF Pending
  <2>2. \A t \in Slots : Claimed(t)' => Claimed(t)
    BY <1>0, <1>15, KillSessionDoes DEF Claimed, Claiming, NoCall
  <2> QED
    BY <1>0, <1>15, <2>1, <2>2, KillSessionDoes, PendingOrClaimed
<1>16. ASSUME NEW k \in Callers, NEW op \in Ops, NEW s \in Slots, Resume(k, op, s)
      PROVE  PendingIsUnclaimed'
  <2>1. \A t \in Slots : Pending(t)' => Pending(t)
    BY <1>0, <1>16, ResumeDoes DEF Pending
  <2>2. \A t \in Slots \ overtaken' : Claimed(t)' => Claimed(t) \/ ~Pending(t)
    BY <1>0, <1>16, ResumeDoes DEF Claimed, Claiming
  <2> QED
    BY <1>0, <1>16, <2>1, <2>2, ResumeDoes, PendingOrClaimed
<1>17. ASSUME NEW k \in Callers, KillReturns(k)
      PROVE  PendingIsUnclaimed'
  <2>1. \A s \in Slots : Pending(s)' => Pending(s)
    BY <1>0, <1>17, KillReturnsDoes DEF Pending
  <2>2. \A s \in Slots : Claimed(s)' => Claimed(s)
    BY <1>0, <1>17, KillReturnsDoes DEF Claimed, Claiming, NoCall
  <2> QED
    BY <1>0, <1>17, <2>1, <2>2, KillReturnsDoes, PendingOrClaimed
<1>18. ASSUME NEW k \in Callers, RestartKilled(k)
      PROVE  PendingIsUnclaimed'
  <2>1. \A s \in Slots : Pending(s)' => Pending(s)
    BY <1>0, <1>18, RestartKilledDoes DEF Pending
  <2>2. \A s \in Slots : Claimed(s)' => Claimed(s)
    BY <1>0, <1>18, RestartKilledDoes DEF Claimed, Claiming, NoCall
  <2> QED
    BY <1>0, <1>18, <2>1, <2>2, RestartKilledDoes, PendingOrClaimed
<1>19. ASSUME NEW k \in Callers, ResumeInPlace(k)
      PROVE  PendingIsUnclaimed'
  <2>1. \A s \in Slots : Pending(s)' => Pending(s)
    BY <1>0, <1>19, ResumeInPlaceDoes DEF Pending
  <2>2. \A s \in Slots : Claimed(s)' => Claimed(s)
    BY <1>0, <1>19, ResumeInPlaceDoes DEF Claimed, Claiming, NoCall
  <2> QED
    BY <1>0, <1>19, <2>1, <2>2, ResumeInPlaceDoes, PendingOrClaimed
<1>20. ASSUME NEW k \in Callers, ResumeForks(k)
      PROVE  PendingIsUnclaimed'
  <2>1. \A s \in Slots : Pending(s)' => Pending(s)
    BY <1>0, <1>20, ResumeForksDoes DEF Pending
  <2>2. \A s \in Slots : Claimed(s)' => Claimed(s)
    BY <1>0, <1>20, ResumeForksDoes DEF Claimed, Claiming, NoCall
  <2> QED
    BY <1>0, <1>20, <2>1, <2>2, ResumeForksDoes, PendingOrClaimed
<1>21. ASSUME NEW k \in Callers, ResumeInstalls(k)
      PROVE  PendingIsUnclaimed'
  <2>1. \A s \in Slots : Pending(s)' => Pending(s)
    BY <1>0, <1>21, ResumeInstallsDoes DEF Pending
  <2>2. \A s \in Slots : Claimed(s)' => Claimed(s)
    BY <1>0, <1>21, ResumeInstallsDoes DEF Claimed, Claiming, NoCall
  <2> QED
    BY <1>0, <1>21, <2>1, <2>2, ResumeInstallsDoes, PendingOrClaimed
<1>22. ASSUME NEW k \in Callers, ResumeReturns(k)
      PROVE  PendingIsUnclaimed'
  <2>1. \A s \in Slots : Pending(s)' => Pending(s)
    BY <1>0, <1>22, ResumeReturnsDoes DEF Pending
  <2>2. \A s \in Slots : Claimed(s)' => Claimed(s)
    BY <1>0, <1>22, ResumeReturnsDoes DEF Claimed, Claiming, NoCall
  <2> QED
    BY <1>0, <1>22, <2>1, <2>2, ResumeReturnsDoes, PendingOrClaimed
<1> QED
  BY <1>1, <1>2, <1>3, <1>4, <1>5, <1>6, <1>7, <1>8, <1>9, <1>10, <1>11, <1>12, <1>13, <1>14,
     <1>15, <1>16, <1>17, <1>18, <1>19, <1>20, <1>21, <1>22
  DEF Next, Proceed, Go, Give, Spawning, Forwarder, Killing, vars, rows, handles, procs, bounds,
      history

\* What is left to be spawned stays untouched if rows and processes are let be.
LEMMA StillUntouched ==
    ASSUME ToSpawnIsUntouched, overtaken \subseteq overtaken',
           \A s \in Slots : ToSpawn(s)' => ToSpawn(s),
           \A s \in Slots \ overtaken : ToSpawn(s)' /\ Untouched(s) => row'[s] = row[s] \/ row'[s] = "running",
           \A s \in Slots \ overtaken : ToSpawn(s)' /\ Untouched(s) => \A c \in Children : slotOf'[c] # s
    PROVE  ToSpawnIsUntouched'
  BY DEF ToSpawnIsUntouched, Untouched

\* A slot whose fork is to come has had no process, unless overtaken.
LEMMA ToSpawnIsUntouchedStep ==
    ASSUME SessionInv, [Next]_vars
    PROVE  ToSpawnIsUntouched'
<1>0. Sound /\ ToSpawnIsUntouched /\ PendingIsUnclaimed
  BY DEF SessionInv, Sound, SpawnsFirst
<1>1. ASSUME UNCHANGED <<spawner, row, slotOf, overtaken>>
      PROVE  ToSpawnIsUntouched'
  BY <1>0, <1>1 DEF ToSpawnIsUntouched, ToSpawn, Untouched
<1>2. ASSUME NEW c \in Children, ChildEnds(c) \/ ForwarderLeaves(c) \/ ForwarderTakesKilled(c) \/
                                 ForwarderForgets(c) \/ ForwarderReaps(c) \/ ForwarderEnds(c)
      PROVE  ToSpawnIsUntouched'
  <2>1. UNCHANGED <<spawner, row, slotOf, overtaken>>
    BY <1>2 DEF ChildEnds, ForwarderLeaves, ForwarderTakesKilled, ForwarderForgets,
                ForwarderReaps, ForwarderEnds, SpawnCancelled, Fork, Forwards, rows, handles,
                procs, bounds, history
  <2> QED
    BY <1>1, <2>1
<1>3. ASSUME NEW o \in Owners, NEW s \in Slots, KillMarks(o, s) \/ KillStops(o, s) \/
                                                KillTakes(o, s) \/ KillJoins(o, s) \/
                                                KillClears(o, s)
      PROVE  ToSpawnIsUntouched'
  <2>1. UNCHANGED <<spawner, row, slotOf, overtaken>>
    BY <1>3 DEF KillMarks, KillStops, KillTakes, KillJoins, KillClears, SpawnCancelled, Fork,
                Forwards, rows, handles, procs, bounds, history
  <2> QED
    BY <1>1, <2>1
<1>4. ASSUME NEW k \in Callers, NEW op \in {"stop", "archive"}, StopMission(k, op)
      PROVE  ToSpawnIsUntouched'
  <2>1. UNCHANGED <<spawner, row, slotOf, overtaken>>
    BY <1>4 DEF StopMission, SpawnCancelled, Fork, Forwards, rows, handles, procs, bounds, history
  <2> QED
    BY <1>1, <2>1
<1>5. ASSUME NEW k \in Callers, NEW s \in Slots, KillSession(k, s)
      PROVE  ToSpawnIsUntouched'
  <2>1. UNCHANGED <<spawner, row, slotOf, overtaken>>
    BY <1>5 DEF KillSession, SpawnCancelled, Fork, Forwards, rows, handles, procs, bounds, history
  <2> QED
    BY <1>1, <2>1
<1>6. ASSUME NEW k \in Callers, KillReturns(k) \/ RestartKilled(k) \/ ResumeInstalls(k) \/
                                ResumeReturns(k)
      PROVE  ToSpawnIsUntouched'
  <2>1. UNCHANGED <<spawner, row, slotOf, overtaken>>
    BY <1>6 DEF KillReturns, RestartKilled, ResumeInstalls, ResumeReturns, SpawnCancelled, Fork,
                Forwards, rows, handles, procs, bounds, history
  <2> QED
    BY <1>1, <2>1
<1>7. ASSUME NEW c \in Children, ForwarderWritesExit(c)
      PROVE  ToSpawnIsUntouched'
  <2>1. \A s \in Slots : ToSpawn(s)' => ToSpawn(s)
    BY <1>0, <1>7, ForwarderWritesExitDoes, NoneIsNoSlot DEF ToSpawn
  <2>2. \A s \in Slots \ overtaken : ToSpawn(s)' /\ Untouched(s) => row'[s] = row[s] \/ row'[s] = "running"
    BY <1>0, <1>7, ForwarderWritesExitDoes, NoneIsNoSlot DEF ToSpawn, Untouched, Sound,
       SpawnerStands
  <2>3. \A s \in Slots \ overtaken : ToSpawn(s)' /\ Untouched(s) => \A d \in Children : slotOf'[d] # s
    BY <1>0, <1>7, ForwarderWritesExitDoes DEF Untouched
  <2> QED
    BY <1>0, <1>7, <2>1, <2>2, <2>3, ForwarderWritesExitDoes, StillUntouched
<1>8. ASSUME SpawnNext
      PROVE  ToSpawnIsUntouched'
  <2>1. \A s \in Slots : ToSpawn(s)' => ToSpawn(s)
    BY <1>0, <1>8, SpawnNextDoes, NoneIsNoSlot DEF ToSpawn
  <2>2. \A s \in Slots \ overtaken : ToSpawn(s)' /\ Untouched(s) => row'[s] = row[s] \/ row'[s] = "running"
    BY <1>0, <1>8, SpawnNextDoes, NoneIsNoSlot DEF ToSpawn, Untouched, Sound, SpawnerStands
  <2>3. \A s \in Slots \ overtaken : ToSpawn(s)' /\ Untouched(s) => \A c \in Children : slotOf'[c] # s
    BY <1>0, <1>8, SpawnNextDoes DEF Untouched
  <2> QED
    BY <1>0, <1>8, <2>1, <2>2, <2>3, SpawnNextDoes, StillUntouched
<1>9. ASSUME SpawnDrained
      PROVE  ToSpawnIsUntouched'
  <2>1. \A s \in Slots : ToSpawn(s)' => ToSpawn(s)
    BY <1>0, <1>9, SpawnDrainedDoes, NoneIsNoSlot DEF ToSpawn
  <2>2. \A s \in Slots \ overtaken : ToSpawn(s)' /\ Untouched(s) => row'[s] = row[s] \/ row'[s] = "running"
    BY <1>0, <1>9, SpawnDrainedDoes, NoneIsNoSlot DEF ToSpawn, Untouched, Sound, SpawnerStands
  <2>3. \A s \in Slots \ overtaken : ToSpawn(s)' /\ Untouched(s) => \A c \in Children : slotOf'[c] # s
    BY <1>0, <1>9, SpawnDrainedDoes DEF Untouched
  <2> QED
    BY <1>0, <1>9, <2>1, <2>2, <2>3, SpawnDrainedDoes, StillUntouched
<1>10. ASSUME SpawnForks
      PROVE  ToSpawnIsUntouched'
  <2>1. \A s \in Slots : ToSpawn(s)' => ToSpawn(s)
    BY <1>0, <1>10, SpawnForksDoes DEF ToSpawn
  <2>2. \A s \in Slots : ToSpawn(s)' => s # spawner.slot
    BY <1>0, <1>10, SpawnForksDoes DEF ToSpawn, Sound, SpawnerStands
  <2>3. \A s \in Slots \ overtaken : ToSpawn(s)' /\ Untouched(s) => \A c \in Children : slotOf'[c] # s
    BY <1>0, <1>10, <2>2, SpawnForksDoes DEF Untouched, ForkedFor
  <2> QED
    BY <1>0, <1>10, <2>1, <2>3, SpawnForksDoes, StillUntouched
<1>11. ASSUME SpawnCancelledInGate
      PROVE  ToSpawnIsUntouched'
  <2>1. \A s \in Slots : ToSpawn(s)' => ToSpawn(s)
    BY <1>0, <1>11, SpawnCancelledInGateDoes, NoneIsNoSlot DEF ToSpawn
  <2>2. \A s \in Slots \ overtaken : ToSpawn(s)' /\ Untouched(s) => row'[s] = row[s] \/ row'[s] = "running"
    BY <1>0, <1>11, SpawnCancelledInGateDoes, NoneIsNoSlot DEF ToSpawn, Untouched, Sound,
       SpawnerStands
  <2>3. \A s \in Slots \ overtaken : ToSpawn(s)' /\ Untouched(s) => \A c \in Children : slotOf'[c] # s
    BY <1>0, <1>11, SpawnCancelledInGateDoes DEF Untouched
  <2> QED
    BY <1>0, <1>11, <2>1, <2>2, <2>3, SpawnCancelledInGateDoes, StillUntouched
<1>12. ASSUME SpawnFails
      PROVE  ToSpawnIsUntouched'
  <2>1. \A s \in Slots : ToSpawn(s)' => ToSpawn(s)
    BY <1>0, <1>12, SpawnFailsDoes, NoneIsNoSlot DEF ToSpawn
  <2>2. \A s \in Slots \ overtaken : ToSpawn(s)' /\ Untouched(s) => row'[s] = row[s] \/ row'[s] = "running"
    BY <1>0, <1>12, SpawnFailsDoes, NoneIsNoSlot DEF ToSpawn, Untouched, Sound, SpawnerStands
  <2>3. \A s \in Slots \ overtaken : ToSpawn(s)' /\ Untouched(s) => \A c \in Children : slotOf'[c] # s
    BY <1>0, <1>12, SpawnFailsDoes DEF Untouched
  <2> QED
    BY <1>0, <1>12, <2>1, <2>2, <2>3, SpawnFailsDoes, StillUntouched
<1>13. ASSUME SpawnReaps
      PROVE  ToSpawnIsUntouched'
  <2>1. \A s \in Slots : ToSpawn(s)' => ToSpawn(s)
    BY <1>0, <1>13, SpawnReapsDoes, NoneIsNoSlot DEF ToSpawn
  <2>2. \A s \in Slots \ overtaken : ToSpawn(s)' /\ Untouched(s) => row'[s] = row[s] \/ row'[s] = "running"
    BY <1>0, <1>13, SpawnReapsDoes, NoneIsNoSlot DEF ToSpawn, Untouched, Sound, SpawnerStands
  <2>3. \A s \in Slots \ overtaken : ToSpawn(s)' /\ Untouched(s) => \A c \in Children : slotOf'[c] # s
    BY <1>0, <1>13, SpawnReapsDoes DEF Untouched
  <2> QED
    BY <1>0, <1>13, <2>1, <2>2, <2>3, SpawnReapsDoes, StillUntouched
<1>14. ASSUME SpawnReaped
      PROVE  ToSpawnIsUntouched'
  <2>1. \A s \in Slots : ToSpawn(s)' => ToSpawn(s)
    BY <1>0, <1>14, SpawnReapedDoes, NoneIsNoSlot DEF ToSpawn
  <2>2. \A s \in Slots \ overtaken : ToSpawn(s)' /\ Untouched(s) => row'[s] = row[s] \/ row'[s] = "running"
    BY <1>0, <1>14, SpawnReapedDoes, NoneIsNoSlot DEF ToSpawn, Untouched, Sound, SpawnerStands
  <2>3. \A s \in Slots \ overtaken : ToSpawn(s)' /\ Untouched(s) => \A c \in Children : slotOf'[c] # s
    BY <1>0, <1>14, SpawnReapedDoes DEF Untouched
  <2> QED
    BY <1>0, <1>14, <2>1, <2>2, <2>3, SpawnReapedDoes, StillUntouched
<1>15. ASSUME SpawnRechecks
      PROVE  ToSpawnIsUntouched'
  <2>1. \A s \in Slots : ToSpawn(s)' => ToSpawn(s)
    BY <1>0, <1>15, SpawnRechecksDoes, NoneIsNoSlot DEF ToSpawn
  <2>2. \A s \in Slots \ overtaken : ToSpawn(s)' /\ Untouched(s) => row'[s] = row[s] \/ row'[s] = "running"
    BY <1>0, <1>15, SpawnRechecksDoes, NoneIsNoSlot DEF ToSpawn, Untouched, Sound, SpawnerStands
  <2>3. \A s \in Slots \ overtaken : ToSpawn(s)' /\ Untouched(s) => \A c \in Children : slotOf'[c] # s
    BY <1>0, <1>15, SpawnRechecksDoes DEF Untouched
  <2> QED
    BY <1>0, <1>15, <2>1, <2>2, <2>3, SpawnRechecksDoes, StillUntouched
<1>16. ASSUME SpawnInstalls
      PROVE  ToSpawnIsUntouched'
  <2>1. \A s \in Slots : ToSpawn(s)' => ToSpawn(s)
    BY <1>0, <1>16, SpawnInstallsDoes, NoneIsNoSlot DEF ToSpawn
  <2>2. \A s \in Slots \ overtaken : ToSpawn(s)' /\ Untouched(s) => row'[s] = row[s] \/ row'[s] = "running"
    BY <1>0, <1>16, SpawnInstallsDoes, NoneIsNoSlot DEF ToSpawn, Untouched, Sound, SpawnerStands
  <2>3. \A s \in Slots \ overtaken : ToSpawn(s)' /\ Untouched(s) => \A c \in Children : slotOf'[c] # s
    BY <1>0, <1>16, SpawnInstallsDoes DEF Untouched
  <2> QED
    BY <1>0, <1>16, <2>1, <2>2, <2>3, SpawnInstallsDoes, StillUntouched
<1>17. ASSUME SpawnAttaches
      PROVE  ToSpawnIsUntouched'
  <2>1. \A s \in Slots : ToSpawn(s)' => ToSpawn(s)
    BY <1>0, <1>17, SpawnAttachesDoes, NoneIsNoSlot DEF ToSpawn
  <2>2. \A s \in Slots \ overtaken : ToSpawn(s)' /\ Untouched(s) => row'[s] = row[s] \/ row'[s] = "running"
    BY <1>0, <1>17, SpawnAttachesDoes, NoneIsNoSlot DEF ToSpawn, Untouched, Sound, SpawnerStands
  <2>3. \A s \in Slots \ overtaken : ToSpawn(s)' /\ Untouched(s) => \A c \in Children : slotOf'[c] # s
    BY <1>0, <1>17, SpawnAttachesDoes DEF Untouched
  <2> QED
    BY <1>0, <1>17, <2>1, <2>2, <2>3, SpawnAttachesDoes, StillUntouched
<1>18. ASSUME NEW k \in Callers, NEW op \in Ops, NEW s \in Slots, Resume(k, op, s)
      PROVE  ToSpawnIsUntouched'
  <2>1. \A t \in Slots : ToSpawn(t)' => ToSpawn(t)
    BY <1>0, <1>18, ResumeDoes, NoneIsNoSlot DEF ToSpawn
  <2>2. \A t \in Slots \ overtaken : ToSpawn(t)' /\ Untouched(t) => row'[t] = row[t] \/ row'[t] = "running"
    BY <1>0, <1>18, ResumeDoes, NoneIsNoSlot DEF ToSpawn, Untouched, Sound, SpawnerStands
  <2>3. \A t \in Slots \ overtaken : ToSpawn(t)' /\ Untouched(t) => \A c \in Children : slotOf'[c] # t
    BY <1>0, <1>18, ResumeDoes DEF Untouched
  <2> QED
    BY <1>0, <1>18, <2>1, <2>2, <2>3, ResumeDoes, StillUntouched
<1>19. ASSUME NEW k \in Callers, ResumeInPlace(k)
      PROVE  ToSpawnIsUntouched'
  <2>1. \A s \in Slots : ToSpawn(s)' => ToSpawn(s)
    BY <1>0, <1>19, ResumeInPlaceDoes, NoneIsNoSlot DEF ToSpawn
  <2>2. \A s \in Slots \ overtaken : ToSpawn(s)' /\ Untouched(s) => row'[s] = row[s] \/ row'[s] = "running"
    BY <1>0, <1>19, ResumeInPlaceDoes, NoneIsNoSlot DEF ToSpawn, Untouched, Sound, SpawnerStands
  <2>3. \A s \in Slots \ overtaken : ToSpawn(s)' /\ Untouched(s) => \A c \in Children : slotOf'[c] # s
    BY <1>0, <1>19, ResumeInPlaceDoes DEF Untouched
  <2> QED
    BY <1>0, <1>19, <2>1, <2>2, <2>3, ResumeInPlaceDoes, StillUntouched
<1>20. ASSUME NEW k \in Callers, ResumeForks(k)
      PROVE  ToSpawnIsUntouched'
  <2>1. \A s \in Slots : ToSpawn(s)' => ToSpawn(s)
    BY <1>0, <1>20, ResumeForksDoes DEF ToSpawn
  <2>2. \A s \in Slots \ overtaken : ToSpawn(s) => s # call[k].slot
    BY <1>0, <1>20, ResumeForksDoes, ToSpawnIsPending DEF Sound, PendingIsUnclaimed, Claimed
  <2>3. \A s \in Slots \ overtaken : ToSpawn(s)' /\ Untouched(s) => \A c \in Children : slotOf'[c] # s
    BY <1>0, <1>20, <2>1, <2>2, ResumeForksDoes DEF Untouched, ForkedFor
  <2>4. \A s \in Slots \ overtaken : ToSpawn(s)' /\ Untouched(s) => row'[s] = row[s] \/ row'[s] = "running"
    BY <1>0, <1>20, <2>1, <2>2, ResumeForksDoes
  <2> QED
    BY <1>0, <1>20, <2>1, <2>3, <2>4, ResumeForksDoes, StillUntouched
<1> QED
  BY <1>1, <1>2, <1>3, <1>4, <1>5, <1>6, <1>7, <1>8, <1>9, <1>10, <1>11, <1>12, <1>13, <1>14,
     <1>15, <1>16, <1>17, <1>18, <1>19, <1>20
  DEF Next, Proceed, Go, Give, Spawning, Forwarder, Killing, vars, rows, handles, procs, bounds,
      history

-----------------------------------------------------------------------------
(* Only the latest process of a session lives.                              *)

\* The process the spawn thread has forked and not yet installed.
LEMMA SpawnedIs ==
    ASSUME Sound, SpawnedIsLatest, PendingIsUnclaimed, spawner.slot \notin overtaken,
           spawner.pc \in {"recheck", "install"}
    PROVE  /\ spawner.slot \in Slots /\ spawner.child \in Children /\ slotOf[spawner.child] = spawner.slot
           /\ row[spawner.slot] = "running" /\ latest[spawner.slot] = spawner.child
           /\ fwd[spawner.child].pc = "none" /\ ~Claimed(spawner.slot)
<1>1. /\ spawner.slot \in Slots /\ spawner.child \in Children /\ slotOf[spawner.child] = spawner.slot
  BY DEF Sound, SpawnerStands, Named, SpawnerNamed
<1>2. Pending(spawner.slot)
  BY DEF Pending
<1> QED
  BY <1>1, <1>2 DEF SpawnedIsLatest, PendingIsUnclaimed

\* A process between fork and handle stays the latest of its session.
LEMMA SpawnedStaysLatest ==
    ASSUME SpawnedIsLatest, overtaken \subseteq overtaken',
           spawner'.slot \in Slots \ overtaken /\ spawner'.pc \in {"recheck", "install"} =>
              /\ spawner'.slot = spawner.slot /\ spawner'.child = spawner.child
              /\ spawner.pc \in {"recheck", "install"}
              /\ row'[spawner.slot] = row[spawner.slot] /\ latest'[spawner.slot] = latest[spawner.slot]
              /\ fwd'[spawner.child] = fwd[spawner.child]
    PROVE  SpawnedIsLatest'
  BY DEF SpawnedIsLatest

\* What the spawn thread has forked is the session's process until it is installed, unless overtaken.
LEMMA SpawnedIsLatestStep ==
    ASSUME SessionInv, [Next]_vars
    PROVE  SpawnedIsLatest'
<1>0. Sound /\ ToSpawnIsUntouched /\ PendingIsUnclaimed /\ SpawnedIsLatest /\ LatestOnly
  BY DEF SessionInv, Sound, SpawnsFirst
<1>1. ASSUME UNCHANGED <<spawner, row, latest, fwd, overtaken>>
      PROVE  SpawnedIsLatest'
  BY <1>0, <1>1 DEF SpawnedIsLatest
<1>2. ASSUME NEW c \in Children, ChildEnds(c)
      PROVE  SpawnedIsLatest'
  <2>1. UNCHANGED <<spawner, row, latest, fwd, overtaken>>
    BY <1>2 DEF ChildEnds, SpawnCancelled, Fork, Forwards, rows, handles, procs, bounds, history
  <2> QED
    BY <1>1, <2>1
<1>3. ASSUME NEW o \in Owners, NEW s \in Slots, KillMarks(o, s) \/ KillStops(o, s) \/
                                                KillTakes(o, s) \/ KillJoins(o, s) \/
                                                KillClears(o, s)
      PROVE  SpawnedIsLatest'
  <2>1. UNCHANGED <<spawner, row, latest, fwd, overtaken>>
    BY <1>3 DEF KillMarks, KillStops, KillTakes, KillJoins, KillClears, SpawnCancelled, Fork,
                Forwards, rows, handles, procs, bounds, history
  <2> QED
    BY <1>1, <2>1
<1>4. ASSUME NEW k \in Callers, NEW op \in {"stop", "archive"}, StopMission(k, op)
      PROVE  SpawnedIsLatest'
  <2>1. UNCHANGED <<spawner, row, latest, fwd, overtaken>>
    BY <1>4 DEF StopMission, SpawnCancelled, Fork, Forwards, rows, handles, procs, bounds, history
  <2> QED
    BY <1>1, <2>1
<1>5. ASSUME NEW k \in Callers, NEW s \in Slots, KillSession(k, s)
      PROVE  SpawnedIsLatest'
  <2>1. UNCHANGED <<spawner, row, latest, fwd, overtaken>>
    BY <1>5 DEF KillSession, SpawnCancelled, Fork, Forwards, rows, handles, procs, bounds, history
  <2> QED
    BY <1>1, <2>1
<1>6. ASSUME NEW k \in Callers, KillReturns(k) \/ RestartKilled(k) \/ ResumeReturns(k)
      PROVE  SpawnedIsLatest'
  <2>1. UNCHANGED <<spawner, row, latest, fwd, overtaken>>
    BY <1>6 DEF KillReturns, RestartKilled, ResumeReturns, SpawnCancelled, Fork, Forwards, rows,
                handles, procs, bounds, history
  <2> QED
    BY <1>1, <2>1
<1>7. ASSUME NEW c \in Children, ForwarderLeaves(c)
      PROVE  SpawnedIsLatest'
  BY <1>0, <1>7, ForwarderLeavesDoes, SpawnedIs, SpawnedStaysLatest DEF Sound, SpawnerStands
<1>8. ASSUME NEW c \in Children, ForwarderTakesKilled(c)
      PROVE  SpawnedIsLatest'
  BY <1>0, <1>8, ForwarderTakesKilledDoes, SpawnedIs, SpawnedStaysLatest DEF Sound, SpawnerStands
<1>9. ASSUME NEW c \in Children, ForwarderWritesExit(c)
      PROVE  SpawnedIsLatest'
  <2>1. slotOf[c] \notin overtaken => latest[slotOf[c]] = c
    BY <1>0, <1>9, ForwarderWritesExitDoes DEF LatestOnly, Busy
  <2> QED
    BY <1>0, <1>9, <2>1, ForwarderWritesExitDoes, SpawnedIs, SpawnedStaysLatest
<1>10. ASSUME NEW c \in Children, ForwarderForgets(c)
      PROVE  SpawnedIsLatest'
  BY <1>0, <1>10, ForwarderForgetsDoes, SpawnedIs, SpawnedStaysLatest DEF Sound, SpawnerStands
<1>11. ASSUME NEW c \in Children, ForwarderReaps(c)
      PROVE  SpawnedIsLatest'
  BY <1>0, <1>11, ForwarderReapsDoes, SpawnedIs, SpawnedStaysLatest DEF Sound, SpawnerStands
<1>12. ASSUME NEW c \in Children, ForwarderEnds(c)
      PROVE  SpawnedIsLatest'
  BY <1>0, <1>12, ForwarderEndsDoes, SpawnedIs, SpawnedStaysLatest DEF Sound, SpawnerStands
<1>13. ASSUME SpawnNext
      PROVE  SpawnedIsLatest'
  BY <1>0, <1>13, SpawnNextDoes, SpawnedStaysLatest
<1>14. ASSUME SpawnDrained
      PROVE  SpawnedIsLatest'
  BY <1>0, <1>14, SpawnDrainedDoes, SpawnedStaysLatest
<1>15. ASSUME SpawnForks
      PROVE  SpawnedIsLatest'
  <2>1. spawner.slot \notin overtaken => row[spawner.slot] = "running"
    BY <1>0, <1>15, SpawnForksDoes DEF ToSpawnIsUntouched, ToSpawn, Untouched
  <2>2. fwd[spawner'.child].pc = "none"
    BY <1>0, <1>15, SpawnForksDoes DEF Sound, Numbered, ForkedFor
  <2> QED
    BY <1>0, <1>15, <2>1, <2>2, SpawnForksDoes DEF SpawnedIsLatest, ForkedFor
<1>16. ASSUME SpawnCancelledInGate
      PROVE  SpawnedIsLatest'
  BY <1>0, <1>16, SpawnCancelledInGateDoes, SpawnedStaysLatest
<1>17. ASSUME SpawnFails
      PROVE  SpawnedIsLatest'
  BY <1>0, <1>17, SpawnFailsDoes, SpawnedStaysLatest
<1>18. ASSUME SpawnReaps
      PROVE  SpawnedIsLatest'
  BY <1>0, <1>18, SpawnReapsDoes, SpawnedStaysLatest
<1>19. ASSUME SpawnReaped
      PROVE  SpawnedIsLatest'
  BY <1>0, <1>19, SpawnReapedDoes, SpawnedStaysLatest
<1>20. ASSUME SpawnRechecks
      PROVE  SpawnedIsLatest'
  BY <1>0, <1>20, SpawnRechecksDoes, SpawnedStaysLatest
<1>21. ASSUME SpawnInstalls
      PROVE  SpawnedIsLatest'
  BY <1>0, <1>21, SpawnInstallsDoes, SpawnedStaysLatest
<1>22. ASSUME SpawnAttaches
      PROVE  SpawnedIsLatest'
  BY <1>0, <1>22, SpawnAttachesDoes, SpawnedStaysLatest
<1>23. ASSUME NEW k \in Callers, NEW op \in Ops, NEW s \in Slots, Resume(k, op, s)
      PROVE  SpawnedIsLatest'
  BY <1>0, <1>23, ResumeDoes, SpawnedStaysLatest
<1>24. ASSUME NEW k \in Callers, ResumeInPlace(k)
      PROVE  SpawnedIsLatest'
  BY <1>0, <1>24, ResumeInPlaceDoes, SpawnedIs, SpawnedStaysLatest DEF Claimed
<1>25. ASSUME NEW k \in Callers, ResumeForks(k)
      PROVE  SpawnedIsLatest'
  BY <1>0, <1>25, ResumeForksDoes, SpawnedIs, SpawnedStaysLatest DEF Claimed, ForkedFor
<1>26. ASSUME NEW k \in Callers, ResumeInstalls(k)
      PROVE  SpawnedIsLatest'
  <2>1. slotOf[call[k].child] = call[k].slot
    BY <1>0, <1>26, ResumeInstallsDoes DEF Sound, Named, CallsNamed
  <2> QED
    BY <1>0, <1>26, <2>1, ResumeInstallsDoes, SpawnedIs, SpawnedStaysLatest DEF Claimed, Handled
<1> QED
  BY <1>1, <1>2, <1>3, <1>4, <1>5, <1>6, <1>7, <1>8, <1>9, <1>10, <1>11, <1>12, <1>13, <1>14,
     <1>15, <1>16, <1>17, <1>18, <1>19, <1>20, <1>21, <1>22, <1>23, <1>24, <1>25, <1>26
  DEF Next, Proceed, Go, Give, Spawning, Forwarder, Killing, vars, rows, handles, procs, bounds,
      history

\* The spawn thread is the first to fork for its slots.
LEMMA SpawnsFirstStep ==
    ASSUME SessionInv, [Next]_vars
    PROVE  SpawnsFirst'
  BY PendingIsUnclaimedStep, ToSpawnIsUntouchedStep, SpawnedIsLatestStep DEF SpawnsFirst

\* Fewer are alive, and the forwarders at work are the same.
LEMMA LatestStays ==
    ASSUME LatestOnly, overtaken \subseteq overtaken', UNCHANGED <<slotOf, latest>>,
           \A c \in Children : child'[c] = "alive" => child[c] = "alive",
           \A c \in Children : fwd'[c].pc \in Busy => fwd[c].pc \in Busy,
           \A c \in Children : fwd'[c].pc \in Gone => fwd[c].pc \in Gone
    PROVE  LatestOnly'
  BY DEF LatestOnly, Alive

\* A forwarder that leaves has seen its process end, or ends it.
LEMMA LatestEnds ==
    ASSUME LatestOnly, NEW s \in Slots, NEW c \in Children, slotOf[c] = s, s \notin overtaken,
           fwd[c].pc \in Busy, Ended(s)
    PROVE  child'[c] # "alive"
<1>1. latest[s] = c
  BY DEF LatestOnly
<1> QED
  BY <1>1 DEF Ended

\* A fork where nobody else is alive or at work.
LEMMA ForkIsLatest ==
    ASSUME Sound, LatestOnly, NEW s \in Slots, NEW n, ForkedFor(s, n), UNCHANGED <<fwd, overtaken>>,
           s \notin overtaken => Settled(s)
    PROVE  LatestOnly'
<1>1. fwd[n].pc = "none" /\ n \in Children
  BY DEF Sound, Numbered, ForkedFor
<1>2. ASSUME NEW t \in Slots \ overtaken, NEW c \in Children, slotOf'[c] = t
      PROVE  /\ child'[c] = "alive" \/ fwd[c].pc \in Busy => latest'[t] = c
             /\ fwd[c].pc \in Gone => child'[c] # "alive"
  <2>1. CASE c = n
    BY <1>1, <1>2, <2>1 DEF ForkedFor, Busy, Gone
  <2>2. CASE c # n
    <3>1. child'[c] = child[c] /\ slotOf[c] = t
      BY <1>2, <2>2 DEF ForkedFor
    <3>2. CASE t = s
      BY <1>2, <3>1, <3>2 DEF Settled, Alive
    <3>3. CASE t # s
      BY <1>2, <3>1, <3>3 DEF ForkedFor, LatestOnly, Alive
    <3> QED
      BY <3>2, <3>3
  <2> QED
    BY <2>1, <2>2
<1> QED
  BY <1>2 DEF LatestOnly, Alive

\* The forwarder of the session's process starts.
LEMMA InstalledIsLatest ==
    ASSUME LatestOnly, NEW s \in Slots, NEW c \in Children, Handled(s, c), slotOf[c] = s,
           UNCHANGED <<child, slotOf, latest, overtaken>>, s \notin overtaken => latest[s] = c
    PROVE  LatestOnly'
<1>1. fwd'[c].pc = "drain" /\ \A d \in Children : d # c => fwd'[d] = fwd[d]
  BY DEF Handled
<1> QED
  BY <1>1 DEF LatestOnly, Alive, Busy, Gone

\* Only the latest process of a session is alive or has a forwarder at work.
LEMMA LatestOnlyStep ==
    ASSUME SessionInv, [Next]_vars
    PROVE  LatestOnly'
<1>0. Sound /\ ToSpawnIsUntouched /\ PendingIsUnclaimed /\ SpawnedIsLatest /\ LatestOnly /\ ClaimsClear
  BY DEF SessionInv, Sound, SpawnsFirst
<1>1. ASSUME UNCHANGED <<child, slotOf, latest, fwd, overtaken>>
      PROVE  LatestOnly'
  BY <1>0, <1>1 DEF LatestOnly, Alive
<1>2. ASSUME NEW o \in Owners, NEW s \in Slots, KillMarks(o, s) \/ KillTakes(o, s) \/
                                                KillJoins(o, s) \/ KillClears(o, s)
      PROVE  LatestOnly'
  <2>1. UNCHANGED <<child, slotOf, latest, fwd, overtaken>>
    BY <1>2 DEF KillMarks, KillTakes, KillJoins, KillClears, SpawnCancelled, Fork, Forwards, rows,
                handles, procs, bounds, history
  <2> QED
    BY <1>1, <2>1
<1>3. ASSUME SpawnNext \/ SpawnDrained \/ SpawnCancelledInGate \/ SpawnFails \/ SpawnReaps \/
             SpawnReaped \/ SpawnAttaches
      PROVE  LatestOnly'
  <2>1. UNCHANGED <<child, slotOf, latest, fwd, overtaken>>
    BY <1>3 DEF SpawnNext, SpawnDrained, SpawnCancelledInGate, SpawnFails, SpawnReaps,
                SpawnReaped, SpawnAttaches, SpawnCancelled, Fork, Forwards, rows, handles, procs,
                bounds, history
  <2> QED
    BY <1>1, <2>1
<1>4. ASSUME NEW k \in Callers, NEW op \in {"stop", "archive"}, StopMission(k, op)
      PROVE  LatestOnly'
  <2>1. UNCHANGED <<child, slotOf, latest, fwd, overtaken>>
    BY <1>4 DEF StopMission, SpawnCancelled, Fork, Forwards, rows, handles, procs, bounds, history
  <2> QED
    BY <1>1, <2>1
<1>5. ASSUME NEW k \in Callers, NEW s \in Slots, KillSession(k, s)
      PROVE  LatestOnly'
  <2>1. UNCHANGED <<child, slotOf, latest, fwd, overtaken>>
    BY <1>5 DEF KillSession, SpawnCancelled, Fork, Forwards, rows, handles, procs, bounds, history
  <2> QED
    BY <1>1, <2>1
<1>6. ASSUME NEW k \in Callers, KillReturns(k) \/ RestartKilled(k) \/ ResumeReturns(k)
      PROVE  LatestOnly'
  <2>1. UNCHANGED <<child, slotOf, latest, fwd, overtaken>>
    BY <1>6 DEF KillReturns, RestartKilled, ResumeReturns, SpawnCancelled, Fork, Forwards, rows,
                handles, procs, bounds, history
  <2> QED
    BY <1>1, <2>1
<1>7. ASSUME NEW c \in Children, ChildEnds(c)
      PROVE  LatestOnly'
  BY <1>0, <1>7, ChildEndsDoes, LatestStays
<1>8. ASSUME NEW o \in Owners, NEW s \in Slots, KillStops(o, s)
      PROVE  LatestOnly'
  BY <1>0, <1>8, KillStopsDoes, LatestStays
<1>9. ASSUME NEW c \in Children, ForwarderLeaves(c)
      PROVE  LatestOnly'
  <2>1. /\ fwd[c].pc \in Busy /\ slotOf[c] \in Slots /\ Ended(slotOf[c])
        /\ UNCHANGED <<slotOf, latest, overtaken>>
    BY <1>0, <1>9, ForwarderLeavesDoes DEF Busy
  <2>2. \A d \in Children : child'[d] = "alive" => child[d] = "alive"
    BY <2>1 DEF Ended
  <2>3. slotOf[c] \notin overtaken => child'[c] # "alive"
    BY <1>0, <2>1, LatestEnds
  <2>4. fwd'[c].pc \in Busy /\ \A d \in Children : d # c => fwd'[d] = fwd[d]
    BY <1>0, <1>9, ForwarderLeavesDoes DEF Busy
  <2> QED
    BY <1>0, <2>1, <2>2, <2>3, <2>4 DEF LatestOnly, Alive
<1>10. ASSUME NEW c \in Children, ForwarderTakesKilled(c)
      PROVE  LatestOnly'
  BY <1>0, <1>10, ForwarderTakesKilledDoes, LatestStays DEF Busy, Gone
<1>11. ASSUME NEW c \in Children, ForwarderWritesExit(c)
      PROVE  LatestOnly'
  BY <1>0, <1>11, ForwarderWritesExitDoes, LatestStays DEF Busy, Gone
<1>12. ASSUME NEW c \in Children, ForwarderForgets(c)
      PROVE  LatestOnly'
  BY <1>0, <1>12, ForwarderForgetsDoes, LatestStays DEF Busy, Gone
<1>13. ASSUME NEW c \in Children, ForwarderReaps(c)
      PROVE  LatestOnly'
  BY <1>0, <1>13, ForwarderReapsDoes, LatestStays DEF Busy, Gone
<1>14. ASSUME NEW c \in Children, ForwarderEnds(c)
      PROVE  LatestOnly'
  BY <1>0, <1>14, ForwarderEndsDoes, LatestStays DEF Busy, Gone
<1>15. ASSUME SpawnForks
      PROVE  LatestOnly'
  <2>1. spawner.slot \notin overtaken => Settled(spawner.slot)
    BY <1>0, <1>15, SpawnForksDoes DEF ToSpawnIsUntouched, ToSpawn, Untouched, Settled
  <2> QED
    BY <1>0, <1>15, <2>1, SpawnForksDoes, ForkIsLatest
<1>16. ASSUME SpawnRechecks
      PROVE  LatestOnly'
  BY <1>0, <1>16, SpawnRechecksDoes, LatestStays DEF Ended
<1>17. ASSUME SpawnInstalls
      PROVE  LatestOnly'
  BY <1>0, <1>17, SpawnInstallsDoes, SpawnedIs, InstalledIsLatest DEF Sound, Named, SpawnerNamed
<1>18. ASSUME NEW k \in Callers, NEW op \in Ops, NEW s \in Slots, Resume(k, op, s)
      PROVE  LatestOnly'
  BY <1>0, <1>18, ResumeDoes, LatestStays
<1>19. ASSUME NEW k \in Callers, ResumeInPlace(k)
      PROVE  LatestOnly'
  BY <1>0, <1>19, ResumeInPlaceDoes, LatestStays
<1>20. ASSUME NEW k \in Callers, ResumeForks(k)
      PROVE  LatestOnly'
  <2>1. call[k].slot \notin overtaken => Settled(call[k].slot)
    BY <1>0, <1>20, ResumeForksDoes DEF ClaimsClear, ClearFor
  <2> QED
    BY <1>0, <1>20, <2>1, ResumeForksDoes, ForkIsLatest, LatestStays
<1>21. ASSUME NEW k \in Callers, ResumeInstalls(k)
      PROVE  LatestOnly'
  <2>1. /\ slotOf[call[k].child] = call[k].slot
        /\ call[k].slot \notin overtaken => latest[call[k].slot] = call[k].child
    BY <1>0, <1>21, ResumeInstallsDoes DEF Sound, Named, CallsNamed, ClaimsClear, ClearFor
  <2> QED
    BY <1>0, <1>21, <2>1, ResumeInstallsDoes, InstalledIsLatest
<1> QED
  BY <1>1, <1>2, <1>3, <1>4, <1>5, <1>6, <1>7, <1>8, <1>9, <1>10, <1>11, <1>12, <1>13, <1>14,
     <1>15, <1>16, <1>17, <1>18, <1>19, <1>20, <1>21
  DEF Next, Proceed, Go, Give, Spawning, Forwarder, Killing, vars, rows, handles, procs, bounds,
      history

-----------------------------------------------------------------------------
(* What a claim relies on while others move.                                *)

\* What nobody but its claimant does to a session: no process comes, none that is
\* being stopped is spared, and the row ends by a forwarder alone.
Calm(s) ==
    /\ latest'[s] = latest[s]
    /\ row'[s] \in {row[s], "running"} \/ \E c \in Children : slotOf[c] = s /\ fwd[c].pc = "row"
    /\ \A c \in Children : slotOf'[c] = s =>
          /\ slotOf[c] = s
          /\ child'[c] = "alive" => /\ child[c] = "alive"
                                    /\ stop[c] /\ fwd[c].pc = "drain" => stop'[c] /\ fwd'[c].pc = "drain"
          /\ fwd'[c].pc \in Busy => fwd[c].pc \in Busy
          /\ fwd[c].pc = "none" => fwd'[c].pc = "none"

\* A slot with a claim is not one of the spawn thread's.
LEMMA ClaimedIsNotSpawning ==
    ASSUME PendingIsUnclaimed, NEW s \in Slots \ overtaken, Claimed(s)
    PROVE  /\ s \notin spawner.todo \/ spawner.pc = "done"
           /\ spawner.slot = s => spawner.pc \notin {"gate", "recheck", "install", "attach"}
  BY DEF PendingIsUnclaimed, Pending

\* A claimed session is left alone by all but its claimant and its forwarders.
LEMMA CalmStep ==
    ASSUME SessionInv, [Next]_vars, NEW i \in Callers, Claiming(i), call'[i] = call[i],
           NEW t \in Slots, t = call[i].slot, t \notin overtaken, t \notin overtaken'
    PROVE  Calm(t)
<1>0. Sound /\ LatestOnly /\ PendingIsUnclaimed /\ ClaimsAreSingle /\ Claimed(t)
      /\ (t \notin spawner.todo \/ spawner.pc = "done")
      /\ (spawner.slot = t => spawner.pc \notin {"gate", "recheck", "install", "attach"})
  BY ClaimedIsNotSpawning DEF SessionInv, Sound, SpawnsFirst, Claimed
<1>1. ASSUME UNCHANGED <<child, slotOf, latest, stop, fwd, row>>
      PROVE  Calm(t)
  BY <1>0, <1>1 DEF Calm
<1>2. ASSUME NEW o \in Owners, NEW s \in Slots, KillMarks(o, s) \/ KillJoins(o, s) \/
                                                KillClears(o, s)
      PROVE  Calm(t)
  <2>1. UNCHANGED <<child, slotOf, latest, stop, fwd, row>>
    BY <1>2 DEF KillMarks, KillJoins, KillClears, SpawnCancelled, Fork, Forwards, rows, handles,
                procs, bounds, history
  <2> QED
    BY <1>1, <2>1
<1>3. ASSUME SpawnDrained \/ SpawnReaps \/ SpawnReaped \/ SpawnAttaches
      PROVE  Calm(t)
  <2>1. UNCHANGED <<child, slotOf, latest, stop, fwd, row>>
    BY <1>3 DEF SpawnDrained, SpawnReaps, SpawnReaped, SpawnAttaches, SpawnCancelled, Fork,
                Forwards, rows, handles, procs, bounds, history
  <2> QED
    BY <1>1, <2>1
<1>4. ASSUME NEW k \in Callers, NEW op \in {"stop", "archive"}, StopMission(k, op)
      PROVE  Calm(t)
  <2>1. UNCHANGED <<child, slotOf, latest, stop, fwd, row>>
    BY <1>4 DEF StopMission, SpawnCancelled, Fork, Forwards, rows, handles, procs, bounds, history
  <2> QED
    BY <1>1, <2>1
<1>5. ASSUME NEW k \in Callers, NEW s \in Slots, KillSession(k, s)
      PROVE  Calm(t)
  <2>1. UNCHANGED <<child, slotOf, latest, stop, fwd, row>>
    BY <1>5 DEF KillSession, SpawnCancelled, Fork, Forwards, rows, handles, procs, bounds, history
  <2> QED
    BY <1>1, <2>1
<1>6. ASSUME NEW k \in Callers, NEW op \in Ops, NEW s \in Slots, Resume(k, op, s)
      PROVE  Calm(t)
  <2>1. UNCHANGED <<child, slotOf, latest, stop, fwd, row>>
    BY <1>6 DEF Resume, SpawnCancelled, Fork, Forwards, rows, handles, procs, bounds, history
  <2> QED
    BY <1>1, <2>1
<1>7. ASSUME NEW k \in Callers, KillReturns(k) \/ RestartKilled(k) \/ ResumeReturns(k)
      PROVE  Calm(t)
  <2>1. UNCHANGED <<child, slotOf, latest, stop, fwd, row>>
    BY <1>7 DEF KillReturns, RestartKilled, ResumeReturns, SpawnCancelled, Fork, Forwards, rows,
                handles, procs, bounds, history
  <2> QED
    BY <1>1, <2>1
<1>8. ASSUME NEW c \in Children, ChildEnds(c)
      PROVE  Calm(t)
  BY <1>0, <1>8, ChildEndsDoes DEF Calm
<1>9. ASSUME NEW o \in Owners, NEW s \in Slots, KillStops(o, s)
      PROVE  Calm(t)
  BY <1>0, <1>9, KillStopsDoes DEF Calm
<1>10. ASSUME NEW o \in Owners, NEW s \in Slots, KillTakes(o, s)
      PROVE  Calm(t)
  BY <1>0, <1>10, KillTakesDoes DEF Calm
<1>11. ASSUME NEW c \in Children, ForwarderLeaves(c)
      PROVE  Calm(t)
  <2>1. /\ fwd[c].pc = "drain" /\ slotOf[c] \in Slots /\ Ended(slotOf[c]) /\ fwd'[c].pc = "take"
        /\ UNCHANGED <<slotOf, latest, row, stop>> /\ \A d \in Children : d # c => fwd'[d] = fwd[d]
    BY <1>0, <1>11, ForwarderLeavesDoes
  <2>2. \A d \in Children : child'[d] = "alive" => child[d] = "alive"
    BY <2>1 DEF Ended
  <2>3. slotOf[c] = t => child'[c] # "alive"
    BY <1>0, <2>1, LatestEnds DEF Busy
  <2> QED
    BY <2>1, <2>2, <2>3 DEF Calm, Busy
<1>12. ASSUME NEW c \in Children, ForwarderTakesKilled(c)
      PROVE  Calm(t)
  BY <1>0, <1>12, ForwarderTakesKilledDoes DEF Calm, Busy
<1>13. ASSUME NEW c \in Children, ForwarderWritesExit(c)
      PROVE  Calm(t)
  BY <1>0, <1>13, ForwarderWritesExitDoes DEF Calm, Busy
<1>14. ASSUME NEW c \in Children, ForwarderForgets(c)
      PROVE  Calm(t)
  BY <1>0, <1>14, ForwarderForgetsDoes DEF Calm, Busy
<1>15. ASSUME NEW c \in Children, ForwarderReaps(c)
      PROVE  Calm(t)
  BY <1>0, <1>15, ForwarderReapsDoes DEF Calm, Busy
<1>16. ASSUME NEW c \in Children, ForwarderEnds(c)
      PROVE  Calm(t)
  BY <1>0, <1>16, ForwarderEndsDoes DEF Calm, Busy
<1>17. ASSUME SpawnNext
      PROVE  Calm(t)
  BY <1>0, <1>17, SpawnNextDoes DEF Calm
<1>18. ASSUME SpawnForks
      PROVE  Calm(t)
  BY <1>0, <1>18, SpawnForksDoes DEF Calm, ForkedFor
<1>19. ASSUME SpawnCancelledInGate
      PROVE  Calm(t)
  BY <1>0, <1>19, SpawnCancelledInGateDoes DEF Calm
<1>20. ASSUME SpawnFails
      PROVE  Calm(t)
  BY <1>0, <1>20, SpawnFailsDoes DEF Calm
<1>21. ASSUME SpawnRechecks
      PROVE  Calm(t)
  BY <1>0, <1>21, SpawnRechecksDoes DEF Calm, Ended
<1>22. ASSUME SpawnInstalls
      PROVE  Calm(t)
  BY <1>0, <1>22, SpawnInstallsDoes DEF Calm, Handled, Sound, Named, SpawnerNamed
<1>23. ASSUME NEW k \in Callers, ResumeInPlace(k)
      PROVE  Calm(t)
  BY <1>0, <1>23, ResumeInPlaceDoes DEF Calm
<1>24. ASSUME NEW k \in Callers, ResumeForks(k)
      PROVE  Calm(t)
  <2>1. call[k].slot # t
    BY <1>0, <1>24, ResumeForksDoes DEF ClaimsAreSingle, NoCall
  <2> QED
    BY <1>0, <1>24, <2>1, ResumeForksDoes DEF Calm, ForkedFor
<1>25. ASSUME NEW k \in Callers, ResumeInstalls(k)
      PROVE  Calm(t)
  <2>1. call[k].slot # t /\ slotOf[call[k].child] = call[k].slot
    BY <1>0, <1>25, ResumeInstallsDoes DEF ClaimsAreSingle, Sound, Named, CallsNamed
  <2> QED
    BY <1>0, <1>25, <2>1, ResumeInstallsDoes DEF Calm, Handled
<1> QED
  BY <1>1, <1>2, <1>3, <1>4, <1>5, <1>6, <1>7, <1>8, <1>9, <1>10, <1>11, <1>12, <1>13, <1>14,
     <1>15, <1>16, <1>17, <1>18, <1>19, <1>20, <1>21, <1>22, <1>23, <1>24, <1>25
  DEF Next, Proceed, Go, Give, Spawning, Forwarder, Killing, vars, rows, handles, procs, bounds,
      history

\* What a claim has made sure of holds as long as its caller takes no step.
LEMMA ClearStays ==
    ASSUME SessionInv, [Next]_vars, NEW i \in Callers, Claiming(i), call'[i] = call[i],
           call[i].slot \notin overtaken, call[i].slot \notin overtaken',
           call[i].pc = "killing" /\ job'[i][call[i].slot].step \in Past =>
               job[i][call[i].slot].step \in Past \/ Leaving(call[i].slot)'
    PROVE  ClearFor(i)'
<1> DEFINE t == call[i].slot
<1>1. t \in Slots /\ LatestOnly /\ ClearFor(i) /\ Numbered /\ Named
  BY DEF SessionInv, ClaimsAreSingle, ClaimsClear
<1>2. Calm(t)
  BY <1>1, CalmStep
<1>3. call'[i].slot = t /\ call'[i].pc = call[i].pc /\ call'[i].child = call[i].child
  OBVIOUS
<1>4. ASSUME Leaving(t) PROVE Leaving(t)'
  BY <1>2, <1>4 DEF Leaving, AliveIn, Alive, Calm
<1>5. call[i].pc = "killing" /\ job'[i][t].step \in Past => Leaving(t)'
  BY <1>1, <1>4 DEF ClearFor
<1>6. call[i].pc = "row" => Leaving(t)'
  BY <1>1, <1>4 DEF ClearFor
<1>7. call[i].pc = "fork" => Settled(t)' /\ row'[t] = "running"
  BY <1>1, <1>2 DEF ClearFor, Settled, Alive, Calm, Busy
<1>8. ASSUME call[i].pc = "install"
      PROVE  row'[t] = "running" /\ latest'[t] = call[i].child /\ fwd'[call[i].child].pc = "none"
  <2>1. row[t] = "running" /\ latest[t] = call[i].child /\ fwd[call[i].child].pc = "none"
        /\ call[i].child \in Children /\ slotOf[call[i].child] = t
    BY <1>1, <1>8 DEF ClearFor, Named, CallsNamed
  <2>2. slotOf'[call[i].child] = t
    BY <1>1, <2>1, GrowsStep DEF Grows
  <2>3. ~\E c \in Children : slotOf[c] = t /\ fwd[c].pc = "row"
    BY <1>1, <2>1 DEF LatestOnly, Busy
  <2> QED
    BY <1>2, <2>1, <2>2, <2>3 DEF Calm
<1> HIDE DEF t
<1> QED
  BY <1>3, <1>5, <1>6, <1>7, <1>8 DEF ClearFor, t

\* A claimed session without a handle has no process but one that is being stopped.
LEMMA NoHandleLeft ==
    ASSUME SessionInv, NEW i \in Callers, Claiming(i), call[i].pc # "install",
           call[i].slot \notin overtaken, handle[call[i].slot] = 0
    PROVE  Leaving(call[i].slot)
<1> DEFINE t == call[i].slot
<1>1. t \in Slots \ overtaken /\ Claimed(t) /\ Sound /\ PendingIsUnclaimed /\ ClaimsAreSingle
      /\ EveryChildHasItsHandle
  BY DEF SessionInv, Sound, ClaimsAreSingle, SpawnsFirst, Claimed
<1>2. ASSUME NEW c \in AliveIn(t)
      PROVE  stop[c] /\ fwd[c].pc = "drain"
  <2>1. c \in Children /\ slotOf[c] = t
    BY <1>2 DEF AliveIn
  <2>2. spawner.child = c => spawner.pc \notin {"recheck", "install"}
    BY <1>1, <2>1, ClaimedIsNotSpawning DEF Sound, Named, SpawnerNamed
  <2>3. \A k \in Callers : call[k].child = c => call[k].pc # "install"
    BY <1>1, <2>1, RowAndLater DEF Sound, Named, CallsNamed, ClaimsAreSingle
  <2>4. c # 0
    BY <2>1, LifecycleAssumption DEF LifecycleAssumption, Children
  <2> QED
    BY <1>1, <1>2, <2>2, <2>3, <2>4 DEF EveryChildHasItsHandle, AboutToStop
<1> QED
  BY <1>2 DEF Leaving

-----------------------------------------------------------------------------
(* Claims are clear.                                                        *)

\* Claims stay clear if each either is, or has not moved and may rely on the rest.
LEMMA ClearKept ==
    ASSUME SessionInv, [Next]_vars, overtaken \subseteq overtaken',
           \A i \in Callers : Claiming(i)' /\ call'[i].slot \notin overtaken' =>
               \/ ClearFor(i)'
               \/ /\ call'[i] = call[i]
                  /\ call[i].pc = "killing" /\ job'[i][call[i].slot].step \in Past =>
                         job[i][call[i].slot].step \in Past \/ Leaving(call[i].slot)'
    PROVE  ClaimsClear'
<1>1. ASSUME NEW i \in Callers, Claiming(i)', call'[i].slot \notin overtaken', call'[i] = call[i],
             call[i].pc = "killing" /\ job'[i][call[i].slot].step \in Past =>
                 job[i][call[i].slot].step \in Past \/ Leaving(call[i].slot)'
      PROVE  ClearFor(i)'
  <2>1. Claiming(i) /\ call[i].slot \notin overtaken /\ call[i].slot \notin overtaken'
    BY <1>1 DEF Claiming
  <2> QED
    BY <1>1, <2>1, ClearStays
<1> QED
  BY <1>1 DEF ClaimsClear

\* Once the process that the runtime knows is gone, none is left.
LEMMA NoneIsLeft ==
    ASSUME LatestOnly, NEW s \in Slots, s \notin overtaken, UNCHANGED slotOf,
           \A c \in Children : child'[c] = "alive" => child[c] = "alive" /\ c # latest[s]
    PROVE  AliveIn(s)' = {}
  BY DEF LatestOnly, AliveIn, Alive

\* Before it forks a claim has seen every process of its session gone, or it has overtaken one.
LEMMA ClaimsClearStep ==
    ASSUME SessionInv, [Next]_vars
    PROVE  ClaimsClear'
<1>0. Sound /\ SessionInv /\ [Next]_vars /\ LatestOnly /\ ClaimsAreSingle /\ ClaimsClear /\ ExitIsTheTruth
  BY DEF SessionInv, Sound
<1>1. ASSUME UNCHANGED <<call, job, overtaken>>
      PROVE  ClaimsClear'
  BY <1>0, <1>1, ClearKept
<1>2. ASSUME NEW c \in Children, ChildEnds(c) \/ ForwarderLeaves(c) \/ ForwarderTakesKilled(c) \/
                                 ForwarderWritesExit(c) \/ ForwarderForgets(c)
      PROVE  ClaimsClear'
  <2>1. UNCHANGED <<call, job, overtaken>>
    BY <1>2 DEF ChildEnds, ForwarderLeaves, ForwarderTakesKilled, ForwarderWritesExit,
                ForwarderForgets, SpawnCancelled, Fork, Forwards, rows, handles, procs, bounds,
                history
  <2> QED
    BY <1>1, <2>1
<1>3. ASSUME SpawnNext \/ SpawnDrained \/ SpawnForks \/ SpawnCancelledInGate \/ SpawnFails \/
             SpawnRechecks \/ SpawnInstalls \/ SpawnAttaches
      PROVE  ClaimsClear'
  <2>1. UNCHANGED <<call, job, overtaken>>
    BY <1>3 DEF SpawnNext, SpawnDrained, SpawnForks, SpawnCancelledInGate, SpawnFails,
                SpawnRechecks, SpawnInstalls, SpawnAttaches, SpawnCancelled, Fork, Forwards, rows,
                handles, procs, bounds, history
  <2> QED
    BY <1>1, <2>1
<1>4. ASSUME NEW o \in Owners, NEW s \in Slots, KillMarks(o, s)
      PROVE  ClaimsClear'
  <2>1. \A i \in Callers : Claiming(i) => call[i].slot \in Slots
    BY <1>0 DEF ClaimsAreSingle
  <2>2. ASSUME NEW i \in Callers, Claiming(i), i = o, call[i].slot = s, s \notin overtaken,
               call[i].pc = "killing", job'[i][s].step \in Past
        PROVE  Leaving(s)'
    <3>1. handle[s] = 0 /\ UNCHANGED <<child, slotOf, stop, fwd>>
      BY <1>0, <1>4, <2>2, KillMarksDoes DEF Past
    <3>2. Leaving(s)
      BY <2>2, <3>1, NoHandleLeft
    <3> QED
      BY <3>1, <3>2 DEF Leaving, AliveIn, Alive
  <2> QED
    BY <1>0, <1>4, <2>1, <2>2, KillMarksDoes, ClearKept, OwnersAre DEF OwnerKinds, Claiming
<1>5. ASSUME NEW o \in Owners, NEW s \in Slots, KillStops(o, s)
      PROVE  ClaimsClear'
  <2>1. \A i \in Callers : Claiming(i) => call[i].slot \in Slots
    BY <1>0 DEF ClaimsAreSingle
  <2>2. ASSUME job'[o][s].step \in Past, s \notin overtaken
        PROVE  Leaving(s)'
    <3>1. AliveIn(s)' = {}
      BY <1>0, <1>5, <2>2, KillStopsDoes, NoneIsLeft DEF Past
    <3> QED
      BY <3>1 DEF Leaving
  <2> QED
    BY <1>0, <1>5, <2>1, <2>2, KillStopsDoes, ClearKept, OwnersAre DEF OwnerKinds, Claiming
<1>6. ASSUME NEW o \in Owners, NEW s \in Slots, KillTakes(o, s)
      PROVE  ClaimsClear'
  <2>1. \A i \in Callers : Claiming(i) => call[i].slot \in Slots
    BY <1>0 DEF ClaimsAreSingle
  <2> QED
    BY <1>0, <1>6, <2>1, KillTakesDoes, ClearKept, OwnersAre DEF OwnerKinds, Past, Claiming
<1>7. ASSUME NEW o \in Owners, NEW s \in Slots, KillJoins(o, s)
      PROVE  ClaimsClear'
  <2>1. \A i \in Callers : Claiming(i) => call[i].slot \in Slots
    BY <1>0 DEF ClaimsAreSingle
  <2> QED
    BY <1>0, <1>7, <2>1, KillJoinsDoes, ClearKept, OwnersAre DEF OwnerKinds, Past, Claiming
<1>8. ASSUME NEW o \in Owners, NEW s \in Slots, KillClears(o, s)
      PROVE  ClaimsClear'
  <2>1. \A i \in Callers : Claiming(i) => call[i].slot \in Slots
    BY <1>0 DEF ClaimsAreSingle
  <2> QED
    BY <1>0, <1>8, <2>1, KillClearsDoes, ClearKept, OwnersAre DEF OwnerKinds, Past, Claiming
<1>9. ASSUME NEW c \in Children, ForwarderReaps(c)
      PROVE  ClaimsClear'
  <2>1. \A i \in Callers : Claiming(i) => call[i].slot \in Slots
    BY <1>0 DEF ClaimsAreSingle
  <2> QED
    BY <1>0, <1>9, <2>1, ForwarderReapsDoes, ClearKept, OwnersAre DEF OwnerKinds, SentAll, Claiming
<1>10. ASSUME NEW c \in Children, ForwarderEnds(c)
      PROVE  ClaimsClear'
  <2>1. \A i \in Callers : Claiming(i) => call[i].slot \in Slots
    BY <1>0 DEF ClaimsAreSingle
  <2> QED
    BY <1>0, <1>10, <2>1, ForwarderEndsDoes, ClearKept, OwnersAre DEF OwnerKinds, SentAll, Claiming
<1>11. ASSUME SpawnReaps
      PROVE  ClaimsClear'
  <2>1. \A i \in Callers : Claiming(i) => call[i].slot \in Slots
    BY <1>0 DEF ClaimsAreSingle
  <2> QED
    BY <1>0, <1>11, <2>1, SpawnReapsDoes, ClearKept, OwnersAre DEF OwnerKinds, SentAll, Claiming
<1>12. ASSUME SpawnReaped
      PROVE  ClaimsClear'
  <2>1. \A i \in Callers : Claiming(i) => call[i].slot \in Slots
    BY <1>0 DEF ClaimsAreSingle
  <2> QED
    BY <1>0, <1>12, <2>1, SpawnReapedDoes, ClearKept, OwnersAre DEF OwnerKinds, SentAll, Claiming
<1>13. ASSUME NEW k \in Callers, NEW op \in {"stop", "archive"}, StopMission(k, op)
      PROVE  ClaimsClear'
  <2>1. \A i \in Callers : Claiming(i) => call[i].slot \in Slots
    BY <1>0 DEF ClaimsAreSingle
  <2>2. ~Claiming(k)'
    BY <1>0, <1>13, StopMissionDoes DEF Claiming, NoCall
  <2> QED
    BY <1>0, <1>13, <2>1, <2>2, StopMissionDoes, ClearKept, OwnersAre DEF OwnerKinds, SentAll,
       Claiming
<1>14. ASSUME NEW k \in Callers, NEW s \in Slots, KillSession(k, s)
      PROVE  ClaimsClear'
  <2>1. \A i \in Callers : Claiming(i) => call[i].slot \in Slots
    BY <1>0 DEF ClaimsAreSingle
  <2>2. ~Claiming(k)'
    BY <1>0, <1>14, KillSessionDoes DEF Claiming, NoCall
  <2> QED
    BY <1>0, <1>14, <2>1, <2>2, KillSessionDoes, ClearKept, OwnersAre DEF OwnerKinds, SentAll,
       Claiming
<1>15. ASSUME NEW k \in Callers, NEW op \in Ops, NEW s \in Slots, Resume(k, op, s)
      PROVE  ClaimsClear'
  <2>1. \A i \in Callers : Claiming(i) => call[i].slot \in Slots
    BY <1>0 DEF ClaimsAreSingle
  <2>2. ASSUME s \notin overtaken', call'[k].pc = "row"
        PROVE  Leaving(s)'
    <3>1. row[s] = "exited" /\ s \notin overtaken /\ UNCHANGED <<child, slotOf, stop, fwd>>
      BY <1>0, <1>15, <2>2, ResumeDoes, TypeParts DEF Sound, RowsTyped, Statuses, Crew
    <3> QED
      BY <1>0, <3>1 DEF ExitIsTheTruth, Leaving, AliveIn, Alive
  <2>3. s \notin overtaken' => ClearFor(k)'
    BY <1>0, <1>15, <2>2, ResumeDoes DEF ClearFor, Past
  <2> QED
    BY <1>0, <1>15, <2>1, <2>3, ResumeDoes, ClearKept, OwnersAre DEF OwnerKinds, Claiming
<1>16. ASSUME NEW k \in Callers, KillReturns(k)
      PROVE  ClaimsClear'
  <2>1. \A i \in Callers : Claiming(i) => call[i].slot \in Slots
    BY <1>0 DEF ClaimsAreSingle
  <2>2. ~Claiming(k)'
    BY <1>0, <1>16, KillReturnsDoes DEF Claiming, NoCall
  <2> QED
    BY <1>0, <1>16, <2>1, <2>2, KillReturnsDoes, ClearKept, OwnersAre DEF OwnerKinds, SentAll,
       Claiming
<1>17. ASSUME NEW k \in Callers, RestartKilled(k)
      PROVE  ClaimsClear'
  <2>1. CASE call'[k] = NoCall
    BY <1>0, <1>17, <2>1, RestartKilledDoes, ClearKept, OwnersAre DEF OwnerKinds, Claiming,
       NoCall, ClaimsAreSingle
  <2>2. CASE call'[k].pc = "row"
    <3>1. job[k][call[k].slot].step = "ok" /\ Claiming(k)
      BY <1>0, <1>17, <2>2, RestartKilledDoes DEF ClaimsAreSingle, Claiming, NoCall
    <3>2. call[k].slot \notin overtaken => Leaving(call[k].slot)
      BY <1>0, <1>17, <3>1, RestartKilledDoes DEF ClaimsClear, ClearFor, Past
    <3>3. call'[k].slot \notin overtaken => ClearFor(k)'
      BY <1>0, <1>17, <2>2, <3>2, RestartKilledDoes DEF ClearFor, Leaving, AliveIn, Alive, NoCall
    <3> QED
      BY <1>0, <1>17, <3>3, RestartKilledDoes, ClearKept, OwnersAre DEF OwnerKinds,
         ClaimsAreSingle, Claiming
  <2> QED
    BY <1>0, <1>17, <2>1, <2>2, RestartKilledDoes
<1>18. ASSUME NEW k \in Callers, ResumeInPlace(k)
      PROVE  ClaimsClear'
  <2> DEFINE t == call[k].slot
  <2>1. ASSUME t \notin overtaken'
        PROVE  Settled(t) /\ t \notin overtaken
    <3>1. ~Exiting(t) /\ t \notin overtaken
      BY <1>0, <1>18, <2>1, ResumeInPlaceDoes
    <3>2. Leaving(t) /\ LatestOnly
      BY <1>0, <1>18, <3>1, ResumeInPlaceDoes DEF ClaimsClear, ClearFor
    <3>3. \A c \in Children : slotOf[c] = t => ~Alive(c)
      BY <3>1, <3>2 DEF Exiting, Leaving, AliveIn
    <3> QED
      BY <3>1, <3>3 DEF Exiting, Settled, Busy
  <2>2. t \notin overtaken' => ClearFor(k)'
    BY <1>0, <1>18, <2>1, ResumeInPlaceDoes DEF ClearFor, Settled, Alive
  <2> QED
    BY <1>0, <1>18, <2>2, ResumeInPlaceDoes, ClearKept
<1>19. ASSUME NEW k \in Callers, ResumeForks(k)
      PROVE  ClaimsClear'
  <2>1. CASE call'[k] = NoCall
    BY <1>0, <1>19, <2>1, ResumeForksDoes, ClearKept DEF Claiming, NoCall
  <2>2. CASE call'[k].pc = "install" /\ ForkedFor(call[k].slot, call'[k].child)
    <3>1. fwd[call'[k].child].pc = "none"
      BY <1>0, <2>2 DEF Sound, Numbered, ForkedFor
    <3>2. call[k].slot \notin overtaken => row[call[k].slot] = "running"
      BY <1>0, <1>19, ResumeForksDoes DEF ClaimsClear, ClearFor
    <3>3. call'[k].slot \notin overtaken => ClearFor(k)'
      BY <1>0, <1>19, <2>2, <3>1, <3>2, ResumeForksDoes DEF ClearFor, ForkedFor, NoCall
    <3> QED
      BY <1>0, <1>19, <3>3, ResumeForksDoes, ClearKept
  <2> QED
    BY <1>0, <1>19, <2>1, <2>2, ResumeForksDoes
<1>20. ASSUME NEW k \in Callers, ResumeInstalls(k)
      PROVE  ClaimsClear'
  <2>1. ClearFor(k)'
    BY <1>0, <1>20, ResumeInstallsDoes DEF ClearFor
  <2> QED
    BY <1>0, <1>20, <2>1, ResumeInstallsDoes, ClearKept
<1>21. ASSUME NEW k \in Callers, ResumeReturns(k)
      PROVE  ClaimsClear'
  <2>1. ~Claiming(k)'
    BY <1>0, <1>21, ResumeReturnsDoes DEF Claiming, NoCall
  <2> QED
    BY <1>0, <1>21, <2>1, ResumeReturnsDoes, ClearKept
<1> QED
  BY <1>1, <1>2, <1>3, <1>4, <1>5, <1>6, <1>7, <1>8, <1>9, <1>10, <1>11, <1>12, <1>13, <1>14,
     <1>15, <1>16, <1>17, <1>18, <1>19, <1>20, <1>21
  DEF Next, Proceed, Go, Give, Spawning, Forwarder, Killing, vars, rows, handles, procs, bounds,
      history

-----------------------------------------------------------------------------
(* Every process has its handle.                                            *)

\* What has been overtaken, missed or unmarked stays so.
LEMMA OvertakenGrows ==
    ASSUME SessionInv, [Next]_vars
    PROVE  overtaken \subseteq overtaken'
<1>0. Sound
  BY DEF SessionInv, Sound
<1>1. ASSUME UNCHANGED <<overtaken>>
      PROVE  overtaken \subseteq overtaken'
  BY <1>0, <1>1 DEF Sound
<1>2. ASSUME NEW c \in Children, ChildEnds(c) \/ ForwarderLeaves(c) \/ ForwarderTakesKilled(c) \/
                                 ForwarderWritesExit(c) \/ ForwarderForgets(c) \/
                                 ForwarderReaps(c) \/ ForwarderEnds(c)
      PROVE  overtaken \subseteq overtaken'
  <2>1. UNCHANGED <<overtaken>>
    BY <1>2 DEF ChildEnds, ForwarderLeaves, ForwarderTakesKilled, ForwarderWritesExit,
                ForwarderForgets, ForwarderReaps, ForwarderEnds, SpawnCancelled, Fork, Forwards,
                rows, handles, procs, bounds, history
  <2> QED
    BY <1>1, <2>1
<1>3. ASSUME NEW o \in Owners, NEW s \in Slots, KillMarks(o, s) \/ KillStops(o, s) \/
                                                KillTakes(o, s) \/ KillJoins(o, s) \/
                                                KillClears(o, s)
      PROVE  overtaken \subseteq overtaken'
  <2>1. UNCHANGED <<overtaken>>
    BY <1>3 DEF KillMarks, KillStops, KillTakes, KillJoins, KillClears, SpawnCancelled, Fork,
                Forwards, rows, handles, procs, bounds, history
  <2> QED
    BY <1>1, <2>1
<1>4. ASSUME SpawnNext \/ SpawnDrained \/ SpawnForks \/ SpawnCancelledInGate \/ SpawnFails \/
             SpawnReaps \/ SpawnReaped \/ SpawnRechecks \/ SpawnInstalls \/ SpawnAttaches
      PROVE  overtaken \subseteq overtaken'
  <2>1. UNCHANGED <<overtaken>>
    BY <1>4 DEF SpawnNext, SpawnDrained, SpawnForks, SpawnCancelledInGate, SpawnFails, SpawnReaps,
                SpawnReaped, SpawnRechecks, SpawnInstalls, SpawnAttaches, SpawnCancelled, Fork,
                Forwards, rows, handles, procs, bounds, history
  <2> QED
    BY <1>1, <2>1
<1>5. ASSUME NEW k \in Callers, NEW op \in {"stop", "archive"}, StopMission(k, op)
      PROVE  overtaken \subseteq overtaken'
  <2>1. UNCHANGED <<overtaken>>
    BY <1>5 DEF StopMission, SpawnCancelled, Fork, Forwards, rows, handles, procs, bounds, history
  <2> QED
    BY <1>1, <2>1
<1>6. ASSUME NEW k \in Callers, NEW s \in Slots, KillSession(k, s)
      PROVE  overtaken \subseteq overtaken'
  <2>1. UNCHANGED <<overtaken>>
    BY <1>6 DEF KillSession, SpawnCancelled, Fork, Forwards, rows, handles, procs, bounds, history
  <2> QED
    BY <1>1, <2>1
<1>7. ASSUME NEW k \in Callers, KillReturns(k) \/ RestartKilled(k) \/ ResumeForks(k) \/
                                ResumeInstalls(k) \/ ResumeReturns(k)
      PROVE  overtaken \subseteq overtaken'
  <2>1. UNCHANGED <<overtaken>>
    BY <1>7 DEF KillReturns, RestartKilled, ResumeForks, ResumeInstalls, ResumeReturns,
                SpawnCancelled, Fork, Forwards, rows, handles, procs, bounds, history
  <2> QED
    BY <1>1, <2>1
<1>8. ASSUME NEW k \in Callers, NEW op \in Ops, NEW s \in Slots, Resume(k, op, s)
      PROVE  overtaken \subseteq overtaken'
  BY <1>0, <1>8, ResumeDoes DEF Sound
<1>9. ASSUME NEW k \in Callers, ResumeInPlace(k)
      PROVE  overtaken \subseteq overtaken'
  BY <1>0, <1>9, ResumeInPlaceDoes DEF Sound
<1> QED
  BY <1>1, <1>2, <1>3, <1>4, <1>5, <1>6, <1>7, <1>8, <1>9
  DEF Next, Proceed, Go, Give, Spawning, Forwarder, Killing, vars, rows, handles, procs, bounds,
      history

\* Process d was alive, or has just been forked, by the spawn thread or a resume.
WasAlive(d) ==
    \/ child[d] = "alive"
    \/ /\ SpawnForks /\ spawner'.child = d /\ spawner'.slot = slotOf'[d]
       /\ spawner'.pc = "recheck" /\ slotOf'[d] = spawner.slot /\ child[d] = "none"
    \/ \E k \in Callers : /\ ResumeForks(k) /\ call'[k].child = d /\ call'[k].pc = "install"
                          /\ slotOf'[d] = call[k].slot /\ child[d] = "none"

\* A process that is alive was, or has just been forked.
LEMMA AliveBefore ==
    ASSUME SessionInv, [Next]_vars, NEW d \in Children, child'[d] = "alive"
    PROVE  WasAlive(d)
<1>0. Sound
  BY DEF SessionInv, Sound
<1>1. ASSUME UNCHANGED <<child>>
      PROVE  WasAlive(d)
  BY <1>0, <1>1 DEF Sound, WasAlive
<1>2. ASSUME NEW o \in Owners, NEW s \in Slots, KillMarks(o, s) \/ KillTakes(o, s) \/
                                                KillJoins(o, s) \/ KillClears(o, s)
      PROVE  WasAlive(d)
  <2>1. UNCHANGED <<child>>
    BY <1>2 DEF KillMarks, KillTakes, KillJoins, KillClears, SpawnCancelled, Fork, Forwards, rows,
                handles, procs, bounds, history
  <2> QED
    BY <1>1, <2>1
<1>3. ASSUME NEW c \in Children, ForwarderTakesKilled(c) \/ ForwarderWritesExit(c) \/
                                 ForwarderForgets(c) \/ ForwarderReaps(c) \/ ForwarderEnds(c)
      PROVE  WasAlive(d)
  <2>1. UNCHANGED <<child>>
    BY <1>3 DEF ForwarderTakesKilled, ForwarderWritesExit, ForwarderForgets, ForwarderReaps,
                ForwarderEnds, SpawnCancelled, Fork, Forwards, rows, handles, procs, bounds,
                history
  <2> QED
    BY <1>1, <2>1
<1>4. ASSUME SpawnNext \/ SpawnDrained \/ SpawnCancelledInGate \/ SpawnFails \/ SpawnReaps \/
             SpawnReaped \/ SpawnInstalls \/ SpawnAttaches
      PROVE  WasAlive(d)
  <2>1. UNCHANGED <<child>>
    BY <1>4 DEF SpawnNext, SpawnDrained, SpawnCancelledInGate, SpawnFails, SpawnReaps,
                SpawnReaped, SpawnInstalls, SpawnAttaches, SpawnCancelled, Fork, Forwards, rows,
                handles, procs, bounds, history
  <2> QED
    BY <1>1, <2>1
<1>5. ASSUME NEW k \in Callers, NEW op \in {"stop", "archive"}, StopMission(k, op)
      PROVE  WasAlive(d)
  <2>1. UNCHANGED <<child>>
    BY <1>5 DEF StopMission, SpawnCancelled, Fork, Forwards, rows, handles, procs, bounds, history
  <2> QED
    BY <1>1, <2>1
<1>6. ASSUME NEW k \in Callers, NEW s \in Slots, KillSession(k, s)
      PROVE  WasAlive(d)
  <2>1. UNCHANGED <<child>>
    BY <1>6 DEF KillSession, SpawnCancelled, Fork, Forwards, rows, handles, procs, bounds, history
  <2> QED
    BY <1>1, <2>1
<1>7. ASSUME NEW k \in Callers, NEW op \in Ops, NEW s \in Slots, Resume(k, op, s)
      PROVE  WasAlive(d)
  <2>1. UNCHANGED <<child>>
    BY <1>7 DEF Resume, SpawnCancelled, Fork, Forwards, rows, handles, procs, bounds, history
  <2> QED
    BY <1>1, <2>1
<1>8. ASSUME NEW k \in Callers, KillReturns(k) \/ RestartKilled(k) \/ ResumeInPlace(k) \/
                                ResumeInstalls(k) \/ ResumeReturns(k)
      PROVE  WasAlive(d)
  <2>1. UNCHANGED <<child>>
    BY <1>8 DEF KillReturns, RestartKilled, ResumeInPlace, ResumeInstalls, ResumeReturns,
                SpawnCancelled, Fork, Forwards, rows, handles, procs, bounds, history
  <2> QED
    BY <1>1, <2>1
<1>9. ASSUME NEW c \in Children, ChildEnds(c)
      PROVE  WasAlive(d)
  BY <1>0, <1>9, ChildEndsDoes DEF Sound, WasAlive
<1>10. ASSUME NEW o \in Owners, NEW s \in Slots, KillStops(o, s)
      PROVE  WasAlive(d)
  BY <1>0, <1>10, KillStopsDoes DEF Sound, WasAlive
<1>11. ASSUME NEW c \in Children, ForwarderLeaves(c)
      PROVE  WasAlive(d)
  BY <1>0, <1>11, ForwarderLeavesDoes DEF WasAlive, Ended
<1>12. ASSUME SpawnForks
      PROVE  WasAlive(d)
  BY <1>0, <1>12, SpawnForksDoes DEF WasAlive, ForkedFor
<1>13. ASSUME SpawnRechecks
      PROVE  WasAlive(d)
  BY <1>0, <1>13, SpawnRechecksDoes DEF WasAlive, Ended
<1>14. ASSUME NEW k \in Callers, ResumeForks(k)
      PROVE  WasAlive(d)
  BY <1>0, <1>14, ResumeForksDoes DEF WasAlive, ForkedFor
<1> QED
  BY <1>1, <1>2, <1>3, <1>4, <1>5, <1>6, <1>7, <1>8, <1>9, <1>10, <1>11, <1>12, <1>13, <1>14
  DEF Next, Proceed, Go, Give, Spawning, Forwarder, Killing, vars, rows, handles, procs, bounds,
      history

\* What is about to be stopped stays so as long as it lives.
LEMMA AboutToStopStays ==
    ASSUME SessionInv, [Next]_vars, NEW d \in Children, child[d] = "alive", child'[d] = "alive",
           slotOf[d] \in Slots \ overtaken, AboutToStop(d)
    PROVE  AboutToStop(d)'
<1>0. Sound /\ LatestOnly /\ PendingIsUnclaimed /\ ToSpawnIsUntouched /\ SpawnedIsLatest /\ ClaimsClear
      /\ ClaimsAreSingle
  BY DEF SessionInv, Sound, SpawnsFirst
<1>1. ASSUME UNCHANGED <<spawner, cancel, stop, fwd>>
      PROVE  AboutToStop(d)'
  BY <1>0, <1>1 DEF AboutToStop
<1>2. ASSUME NEW c \in Children, ChildEnds(c)
      PROVE  AboutToStop(d)'
  <2>1. UNCHANGED <<spawner, cancel, stop, fwd>>
    BY <1>2 DEF ChildEnds, SpawnCancelled, Fork, Forwards, rows, handles, procs, bounds, history
  <2> QED
    BY <1>1, <2>1
<1>3. ASSUME NEW o \in Owners, NEW s \in Slots, KillMarks(o, s) \/ KillStops(o, s) \/
                                                KillJoins(o, s) \/ KillClears(o, s)
      PROVE  AboutToStop(d)'
  <2>1. UNCHANGED <<spawner, cancel, stop, fwd>>
    BY <1>3 DEF KillMarks, KillStops, KillJoins, KillClears, SpawnCancelled, Fork, Forwards, rows,
                handles, procs, bounds, history
  <2> QED
    BY <1>1, <2>1
<1>4. ASSUME NEW k \in Callers, NEW s \in Slots, KillSession(k, s)
      PROVE  AboutToStop(d)'
  <2>1. UNCHANGED <<spawner, cancel, stop, fwd>>
    BY <1>4 DEF KillSession, SpawnCancelled, Fork, Forwards, rows, handles, procs, bounds, history
  <2> QED
    BY <1>1, <2>1
<1>5. ASSUME NEW k \in Callers, NEW op \in Ops, NEW s \in Slots, Resume(k, op, s)
      PROVE  AboutToStop(d)'
  <2>1. UNCHANGED <<spawner, cancel, stop, fwd>>
    BY <1>5 DEF Resume, SpawnCancelled, Fork, Forwards, rows, handles, procs, bounds, history
  <2> QED
    BY <1>1, <2>1
<1>6. ASSUME NEW k \in Callers, KillReturns(k) \/ RestartKilled(k) \/ ResumeInPlace(k) \/
                                ResumeForks(k) \/ ResumeReturns(k)
      PROVE  AboutToStop(d)'
  <2>1. UNCHANGED <<spawner, cancel, stop, fwd>>
    BY <1>6 DEF KillReturns, RestartKilled, ResumeInPlace, ResumeForks, ResumeReturns,
                SpawnCancelled, Fork, Forwards, rows, handles, procs, bounds, history
  <2> QED
    BY <1>1, <2>1
<1>7. ASSUME NEW o \in Owners, NEW s \in Slots, KillTakes(o, s)
      PROVE  AboutToStop(d)'
  BY <1>0, <1>7, KillTakesDoes DEF AboutToStop
<1>8. ASSUME NEW c \in Children, ForwarderLeaves(c)
      PROVE  AboutToStop(d)'
  <2>1. d = c => child'[d] # "alive"
    BY <1>0, <1>8, ForwarderLeavesDoes, LatestEnds DEF Busy
  <2> QED
    BY <1>0, <1>8, <2>1, ForwarderLeavesDoes DEF AboutToStop
<1>9. ASSUME NEW c \in Children, ForwarderTakesKilled(c)
      PROVE  AboutToStop(d)'
  BY <1>0, <1>9, ForwarderTakesKilledDoes DEF AboutToStop
<1>10. ASSUME NEW c \in Children, ForwarderWritesExit(c)
      PROVE  AboutToStop(d)'
  BY <1>0, <1>10, ForwarderWritesExitDoes DEF AboutToStop
<1>11. ASSUME NEW c \in Children, ForwarderForgets(c)
      PROVE  AboutToStop(d)'
  BY <1>0, <1>11, ForwarderForgetsDoes DEF AboutToStop
<1>12. ASSUME NEW c \in Children, ForwarderReaps(c)
      PROVE  AboutToStop(d)'
  BY <1>0, <1>12, ForwarderReapsDoes DEF AboutToStop, SentAll
<1>13. ASSUME NEW c \in Children, ForwarderEnds(c)
      PROVE  AboutToStop(d)'
  BY <1>0, <1>13, ForwarderEndsDoes DEF AboutToStop
<1>14. ASSUME SpawnNext
      PROVE  AboutToStop(d)'
  BY <1>0, <1>14, SpawnNextDoes DEF AboutToStop
<1>15. ASSUME SpawnDrained
      PROVE  AboutToStop(d)'
  BY <1>0, <1>15, SpawnDrainedDoes DEF AboutToStop
<1>16. ASSUME SpawnForks
      PROVE  AboutToStop(d)'
  <2>1. stop[d] /\ fwd[d].pc = "drain"
    BY <1>0, <1>16, SpawnForksDoes DEF AboutToStop
  <2> QED
    BY <1>0, <1>16, <2>1, SpawnForksDoes DEF AboutToStop
<1>17. ASSUME SpawnCancelledInGate
      PROVE  AboutToStop(d)'
  BY <1>0, <1>17, SpawnCancelledInGateDoes DEF AboutToStop
<1>18. ASSUME SpawnFails
      PROVE  AboutToStop(d)'
  BY <1>0, <1>18, SpawnFailsDoes DEF AboutToStop
<1>19. ASSUME SpawnReaps
      PROVE  AboutToStop(d)'
  BY <1>0, <1>19, SpawnReapsDoes DEF AboutToStop, SentAll
<1>20. ASSUME SpawnReaped
      PROVE  AboutToStop(d)'
  BY <1>0, <1>20, SpawnReapedDoes DEF AboutToStop
<1>21. ASSUME SpawnRechecks
      PROVE  AboutToStop(d)'
  <2>1. spawner.child = d /\ cancel = "set" => child'[d] # "alive"
    BY <1>0, <1>21, SpawnRechecksDoes, SpawnedIs DEF Ended, Sound, Named, SpawnerNamed
  <2> QED
    BY <1>0, <1>21, <2>1, SpawnRechecksDoes DEF AboutToStop
<1>22. ASSUME SpawnInstalls
      PROVE  AboutToStop(d)'
  BY <1>0, <1>22, SpawnInstallsDoes DEF AboutToStop, Handled
<1>23. ASSUME SpawnAttaches
      PROVE  AboutToStop(d)'
  BY <1>0, <1>23, SpawnAttachesDoes DEF AboutToStop
<1>24. ASSUME NEW k \in Callers, NEW op \in {"stop", "archive"}, StopMission(k, op)
      PROVE  AboutToStop(d)'
  BY <1>0, <1>24, StopMissionDoes DEF AboutToStop, SentAll
<1>25. ASSUME NEW k \in Callers, ResumeInstalls(k)
      PROVE  AboutToStop(d)'
  BY <1>0, <1>25, ResumeInstallsDoes DEF AboutToStop, Handled
<1> QED
  BY <1>1, <1>2, <1>3, <1>4, <1>5, <1>6, <1>7, <1>8, <1>9, <1>10, <1>11, <1>12, <1>13, <1>14,
     <1>15, <1>16, <1>17, <1>18, <1>19, <1>20, <1>21, <1>22, <1>23, <1>24, <1>25
  DEF Next, Proceed, Go, Give, Spawning, Forwarder, Killing, vars, rows, handles, procs, bounds,
      history

\* A live process keeps its handle until its forwarder has to stop it.
LEMMA HandleStays ==
    ASSUME SessionInv, [Next]_vars, NEW t \in Slots \ overtaken, NEW d \in Children,
           slotOf[d] = t, child[d] = "alive", child'[d] = "alive", handle[t] = d
    PROVE  handle'[t] = d \/ AboutToStop(d)'
<1>0. Sound /\ LatestOnly /\ PendingIsUnclaimed /\ ToSpawnIsUntouched /\ SpawnedIsLatest /\ ClaimsClear
      /\ ClaimsAreSingle
  BY DEF SessionInv, Sound, SpawnsFirst
<1>1. ASSUME UNCHANGED <<handle>>
      PROVE  handle'[t] = d \/ AboutToStop(d)'
  BY <1>0, <1>1 DEF AboutToStop
<1>2. ASSUME NEW c \in Children, ChildEnds(c) \/ ForwarderLeaves(c) \/ ForwarderTakesKilled(c) \/
                                 ForwarderWritesExit(c) \/ ForwarderReaps(c) \/ ForwarderEnds(c)
      PROVE  handle'[t] = d \/ AboutToStop(d)'
  <2>1. UNCHANGED <<handle>>
    BY <1>2 DEF ChildEnds, ForwarderLeaves, ForwarderTakesKilled, ForwarderWritesExit,
                ForwarderReaps, ForwarderEnds, SpawnCancelled, Fork, Forwards, rows, handles,
                procs, bounds, history
  <2> QED
    BY <1>1, <2>1
<1>3. ASSUME NEW o \in Owners, NEW s \in Slots, KillMarks(o, s) \/ KillStops(o, s) \/
                                                KillJoins(o, s) \/ KillClears(o, s)
      PROVE  handle'[t] = d \/ AboutToStop(d)'
  <2>1. UNCHANGED <<handle>>
    BY <1>3 DEF KillMarks, KillStops, KillJoins, KillClears, SpawnCancelled, Fork, Forwards, rows,
                handles, procs, bounds, history
  <2> QED
    BY <1>1, <2>1
<1>4. ASSUME SpawnNext \/ SpawnDrained \/ SpawnForks \/ SpawnCancelledInGate \/ SpawnFails \/
             SpawnReaps \/ SpawnReaped \/ SpawnRechecks \/ SpawnAttaches
      PROVE  handle'[t] = d \/ AboutToStop(d)'
  <2>1. UNCHANGED <<handle>>
    BY <1>4 DEF SpawnNext, SpawnDrained, SpawnForks, SpawnCancelledInGate, SpawnFails, SpawnReaps,
                SpawnReaped, SpawnRechecks, SpawnAttaches, SpawnCancelled, Fork, Forwards, rows,
                handles, procs, bounds, history
  <2> QED
    BY <1>1, <2>1
<1>5. ASSUME NEW k \in Callers, NEW op \in {"stop", "archive"}, StopMission(k, op)
      PROVE  handle'[t] = d \/ AboutToStop(d)'
  <2>1. UNCHANGED <<handle>>
    BY <1>5 DEF StopMission, SpawnCancelled, Fork, Forwards, rows, handles, procs, bounds, history
  <2> QED
    BY <1>1, <2>1
<1>6. ASSUME NEW k \in Callers, NEW s \in Slots, KillSession(k, s)
      PROVE  handle'[t] = d \/ AboutToStop(d)'
  <2>1. UNCHANGED <<handle>>
    BY <1>6 DEF KillSession, SpawnCancelled, Fork, Forwards, rows, handles, procs, bounds, history
  <2> QED
    BY <1>1, <2>1
<1>7. ASSUME NEW k \in Callers, NEW op \in Ops, NEW s \in Slots, Resume(k, op, s)
      PROVE  handle'[t] = d \/ AboutToStop(d)'
  <2>1. UNCHANGED <<handle>>
    BY <1>7 DEF Resume, SpawnCancelled, Fork, Forwards, rows, handles, procs, bounds, history
  <2> QED
    BY <1>1, <2>1
<1>8. ASSUME NEW k \in Callers, KillReturns(k) \/ RestartKilled(k) \/ ResumeInPlace(k) \/
                                ResumeForks(k) \/ ResumeReturns(k)
      PROVE  handle'[t] = d \/ AboutToStop(d)'
  <2>1. UNCHANGED <<handle>>
    BY <1>8 DEF KillReturns, RestartKilled, ResumeInPlace, ResumeForks, ResumeReturns,
                SpawnCancelled, Fork, Forwards, rows, handles, procs, bounds, history
  <2> QED
    BY <1>1, <2>1
<1>9. ASSUME NEW o \in Owners, NEW s \in Slots, KillTakes(o, s)
      PROVE  handle'[t] = d \/ AboutToStop(d)'
  <2>0. d # 0
    BY LifecycleAssumption DEF LifecycleAssumption, Children
  <2>1. fwd[d].pc # "none" /\ fwd[d].pc \notin Gone
    BY <1>0, <2>0 DEF Sound, Named, HandlesNamed, LatestOnly, Alive
  <2>2. fwd[d].pc = "drain"
    BY <1>0, <2>1, TypeParts DEF Sound, FwdTyped, FwdType, Gone
  <2> QED
    BY <1>0, <1>9, <2>0, <2>2, KillTakesDoes DEF AboutToStop
<1>10. ASSUME NEW c \in Children, ForwarderForgets(c)
      PROVE  handle'[t] = d \/ AboutToStop(d)'
  <2>1. slotOf[c] # t
    BY <1>0, <1>10, ForwarderForgetsDoes DEF LatestOnly, Alive, Busy, Gone
  <2> QED
    BY <1>0, <1>10, <2>1, ForwarderForgetsDoes
<1>11. ASSUME SpawnInstalls
      PROVE  handle'[t] = d \/ AboutToStop(d)'
  <2>1. latest[t] = d
    BY <1>0 DEF LatestOnly, Alive
  <2> QED
    BY <1>0, <1>11, <2>1, SpawnInstallsDoes, SpawnedIs DEF Handled
<1>12. ASSUME NEW k \in Callers, ResumeInstalls(k)
      PROVE  handle'[t] = d \/ AboutToStop(d)'
  <2>1. latest[t] = d
    BY <1>0 DEF LatestOnly, Alive
  <2>2. call[k].slot = t => latest[t] = call[k].child
    BY <1>0, <1>12, ResumeInstallsDoes DEF ClaimsClear, ClearFor
  <2> QED
    BY <1>0, <1>12, <2>1, <2>2, ResumeInstallsDoes DEF Handled
<1> QED
  BY <1>1, <1>2, <1>3, <1>4, <1>5, <1>6, <1>7, <1>8, <1>9, <1>10, <1>11, <1>12
  DEF Next, Proceed, Go, Give, Spawning, Forwarder, Killing, vars, rows, handles, procs, bounds,
      history

\* What the spawn thread has forked lives on with its handle, or at its next look at the flag.
LEMMA SpawnedIsReached ==
    ASSUME SessionInv, [Next]_vars, NEW t \in Slots \ overtaken, NEW d \in Children,
           slotOf[d] = t, child[d] = "alive", child'[d] = "alive",
           spawner.child = d, spawner.pc \in {"recheck", "install"}
    PROVE  handle'[t] = d \/ (spawner'.child = d /\ spawner'.pc \in {"recheck", "install"})
<1>0. Sound /\ LatestOnly /\ PendingIsUnclaimed /\ ToSpawnIsUntouched /\ SpawnedIsLatest /\ ClaimsClear
      /\ ClaimsAreSingle
  BY DEF SessionInv, Sound, SpawnsFirst
<1>1. ASSUME UNCHANGED <<spawner>>
      PROVE  handle'[t] = d \/ (spawner'.child = d /\ spawner'.pc \in {"recheck", "install"})
  BY <1>0, <1>1 DEF Sound
<1>2. ASSUME NEW c \in Children, ChildEnds(c) \/ ForwarderLeaves(c) \/ ForwarderTakesKilled(c) \/
                                 ForwarderWritesExit(c) \/ ForwarderForgets(c) \/
                                 ForwarderReaps(c) \/ ForwarderEnds(c)
      PROVE  handle'[t] = d \/ (spawner'.child = d /\ spawner'.pc \in {"recheck", "install"})
  <2>1. UNCHANGED <<spawner>>
    BY <1>2 DEF ChildEnds, ForwarderLeaves, ForwarderTakesKilled, ForwarderWritesExit,
                ForwarderForgets, ForwarderReaps, ForwarderEnds, SpawnCancelled, Fork, Forwards,
                rows, handles, procs, bounds, history
  <2> QED
    BY <1>1, <2>1
<1>3. ASSUME NEW o \in Owners, NEW s \in Slots, KillMarks(o, s) \/ KillStops(o, s) \/
                                                KillTakes(o, s) \/ KillJoins(o, s) \/
                                                KillClears(o, s)
      PROVE  handle'[t] = d \/ (spawner'.child = d /\ spawner'.pc \in {"recheck", "install"})
  <2>1. UNCHANGED <<spawner>>
    BY <1>3 DEF KillMarks, KillStops, KillTakes, KillJoins, KillClears, SpawnCancelled, Fork,
                Forwards, rows, handles, procs, bounds, history
  <2> QED
    BY <1>1, <2>1
<1>4. ASSUME NEW k \in Callers, NEW op \in {"stop", "archive"}, StopMission(k, op)
      PROVE  handle'[t] = d \/ (spawner'.child = d /\ spawner'.pc \in {"recheck", "install"})
  <2>1. UNCHANGED <<spawner>>
    BY <1>4 DEF StopMission, SpawnCancelled, Fork, Forwards, rows, handles, procs, bounds, history
  <2> QED
    BY <1>1, <2>1
<1>5. ASSUME NEW k \in Callers, NEW s \in Slots, KillSession(k, s)
      PROVE  handle'[t] = d \/ (spawner'.child = d /\ spawner'.pc \in {"recheck", "install"})
  <2>1. UNCHANGED <<spawner>>
    BY <1>5 DEF KillSession, SpawnCancelled, Fork, Forwards, rows, handles, procs, bounds, history
  <2> QED
    BY <1>1, <2>1
<1>6. ASSUME NEW k \in Callers, NEW op \in Ops, NEW s \in Slots, Resume(k, op, s)
      PROVE  handle'[t] = d \/ (spawner'.child = d /\ spawner'.pc \in {"recheck", "install"})
  <2>1. UNCHANGED <<spawner>>
    BY <1>6 DEF Resume, SpawnCancelled, Fork, Forwards, rows, handles, procs, bounds, history
  <2> QED
    BY <1>1, <2>1
<1>7. ASSUME NEW k \in Callers, KillReturns(k) \/ RestartKilled(k) \/ ResumeInPlace(k) \/
                                ResumeForks(k) \/ ResumeInstalls(k) \/ ResumeReturns(k)
      PROVE  handle'[t] = d \/ (spawner'.child = d /\ spawner'.pc \in {"recheck", "install"})
  <2>1. UNCHANGED <<spawner>>
    BY <1>7 DEF KillReturns, RestartKilled, ResumeInPlace, ResumeForks, ResumeInstalls,
                ResumeReturns, SpawnCancelled, Fork, Forwards, rows, handles, procs, bounds,
                history
  <2> QED
    BY <1>1, <2>1
<1>8. ASSUME SpawnNext
      PROVE  handle'[t] = d \/ (spawner'.child = d /\ spawner'.pc \in {"recheck", "install"})
  BY <1>0, <1>8, SpawnNextDoes DEF Sound
<1>9. ASSUME SpawnDrained
      PROVE  handle'[t] = d \/ (spawner'.child = d /\ spawner'.pc \in {"recheck", "install"})
  BY <1>0, <1>9, SpawnDrainedDoes DEF Sound
<1>10. ASSUME SpawnForks
      PROVE  handle'[t] = d \/ (spawner'.child = d /\ spawner'.pc \in {"recheck", "install"})
  BY <1>0, <1>10, SpawnForksDoes DEF Sound
<1>11. ASSUME SpawnCancelledInGate
      PROVE  handle'[t] = d \/ (spawner'.child = d /\ spawner'.pc \in {"recheck", "install"})
  BY <1>0, <1>11, SpawnCancelledInGateDoes DEF Sound
<1>12. ASSUME SpawnFails
      PROVE  handle'[t] = d \/ (spawner'.child = d /\ spawner'.pc \in {"recheck", "install"})
  BY <1>0, <1>12, SpawnFailsDoes DEF Sound
<1>13. ASSUME SpawnReaps
      PROVE  handle'[t] = d \/ (spawner'.child = d /\ spawner'.pc \in {"recheck", "install"})
  BY <1>0, <1>13, SpawnReapsDoes DEF Sound
<1>14. ASSUME SpawnReaped
      PROVE  handle'[t] = d \/ (spawner'.child = d /\ spawner'.pc \in {"recheck", "install"})
  BY <1>0, <1>14, SpawnReapedDoes DEF Sound
<1>15. ASSUME SpawnRechecks
      PROVE  handle'[t] = d \/ (spawner'.child = d /\ spawner'.pc \in {"recheck", "install"})
  <2>1. cancel = "set" => child'[d] # "alive"
    BY <1>0, <1>15, SpawnRechecksDoes, SpawnedIs DEF Ended, Sound, Named, SpawnerNamed
  <2> QED
    BY <1>0, <1>15, <2>1, SpawnRechecksDoes
<1>16. ASSUME SpawnInstalls
      PROVE  handle'[t] = d \/ (spawner'.child = d /\ spawner'.pc \in {"recheck", "install"})
  BY <1>0, <1>16, SpawnInstallsDoes DEF Handled, Sound, Named, SpawnerNamed
<1>17. ASSUME SpawnAttaches
      PROVE  handle'[t] = d \/ (spawner'.child = d /\ spawner'.pc \in {"recheck", "install"})
  BY <1>0, <1>17, SpawnAttachesDoes DEF Sound
<1> QED
  BY <1>1, <1>2, <1>3, <1>4, <1>5, <1>6, <1>7, <1>8, <1>9, <1>10, <1>11, <1>12, <1>13, <1>14,
     <1>15, <1>16, <1>17
  DEF Next, Proceed, Go, Give, Spawning, Forwarder, Killing, vars, rows, handles, procs, bounds,
      history

\* What a resume has forked lives on with its handle.
LEMMA ResumedIsReached ==
    ASSUME SessionInv, [Next]_vars, NEW t \in Slots \ overtaken, NEW d \in Children,
           slotOf[d] = t, child[d] = "alive", child'[d] = "alive",
           NEW i \in Callers, call[i].child = d, call[i].pc = "install"
    PROVE  handle'[t] = d \/ (call'[i].child = d /\ call'[i].pc = "install")
<1>0. Sound /\ LatestOnly /\ PendingIsUnclaimed /\ ToSpawnIsUntouched /\ SpawnedIsLatest /\ ClaimsClear
      /\ ClaimsAreSingle
  BY DEF SessionInv, Sound, SpawnsFirst
<1>1. ASSUME UNCHANGED <<call>>
      PROVE  handle'[t] = d \/ (call'[i].child = d /\ call'[i].pc = "install")
  BY <1>0, <1>1 DEF Sound
<1>2. ASSUME NEW c \in Children, ChildEnds(c) \/ ForwarderLeaves(c) \/ ForwarderTakesKilled(c) \/
                                 ForwarderWritesExit(c) \/ ForwarderForgets(c) \/
                                 ForwarderReaps(c) \/ ForwarderEnds(c)
      PROVE  handle'[t] = d \/ (call'[i].child = d /\ call'[i].pc = "install")
  <2>1. UNCHANGED <<call>>
    BY <1>2 DEF ChildEnds, ForwarderLeaves, ForwarderTakesKilled, ForwarderWritesExit,
                ForwarderForgets, ForwarderReaps, ForwarderEnds, SpawnCancelled, Fork, Forwards,
                rows, handles, procs, bounds, history
  <2> QED
    BY <1>1, <2>1
<1>3. ASSUME NEW o \in Owners, NEW s \in Slots, KillMarks(o, s) \/ KillStops(o, s) \/
                                                KillTakes(o, s) \/ KillJoins(o, s) \/
                                                KillClears(o, s)
      PROVE  handle'[t] = d \/ (call'[i].child = d /\ call'[i].pc = "install")
  <2>1. UNCHANGED <<call>>
    BY <1>3 DEF KillMarks, KillStops, KillTakes, KillJoins, KillClears, SpawnCancelled, Fork,
                Forwards, rows, handles, procs, bounds, history
  <2> QED
    BY <1>1, <2>1
<1>4. ASSUME SpawnNext \/ SpawnDrained \/ SpawnForks \/ SpawnCancelledInGate \/ SpawnFails \/
             SpawnReaps \/ SpawnReaped \/ SpawnRechecks \/ SpawnInstalls \/ SpawnAttaches
      PROVE  handle'[t] = d \/ (call'[i].child = d /\ call'[i].pc = "install")
  <2>1. UNCHANGED <<call>>
    BY <1>4 DEF SpawnNext, SpawnDrained, SpawnForks, SpawnCancelledInGate, SpawnFails, SpawnReaps,
                SpawnReaped, SpawnRechecks, SpawnInstalls, SpawnAttaches, SpawnCancelled, Fork,
                Forwards, rows, handles, procs, bounds, history
  <2> QED
    BY <1>1, <2>1
<1>5. ASSUME NEW k \in Callers, NEW op \in {"stop", "archive"}, StopMission(k, op)
      PROVE  handle'[t] = d \/ (call'[i].child = d /\ call'[i].pc = "install")
  BY <1>0, <1>5, StopMissionDoes DEF Sound
<1>6. ASSUME NEW k \in Callers, NEW s \in Slots, KillSession(k, s)
      PROVE  handle'[t] = d \/ (call'[i].child = d /\ call'[i].pc = "install")
  BY <1>0, <1>6, KillSessionDoes DEF Sound
<1>7. ASSUME NEW k \in Callers, NEW op \in Ops, NEW s \in Slots, Resume(k, op, s)
      PROVE  handle'[t] = d \/ (call'[i].child = d /\ call'[i].pc = "install")
  BY <1>0, <1>7, ResumeDoes DEF Sound
<1>8. ASSUME NEW k \in Callers, KillReturns(k)
      PROVE  handle'[t] = d \/ (call'[i].child = d /\ call'[i].pc = "install")
  BY <1>0, <1>8, KillReturnsDoes DEF ClaimsAreSingle, Claiming
<1>9. ASSUME NEW k \in Callers, RestartKilled(k)
      PROVE  handle'[t] = d \/ (call'[i].child = d /\ call'[i].pc = "install")
  BY <1>0, <1>9, RestartKilledDoes DEF Sound
<1>10. ASSUME NEW k \in Callers, ResumeInPlace(k)
      PROVE  handle'[t] = d \/ (call'[i].child = d /\ call'[i].pc = "install")
  BY <1>0, <1>10, ResumeInPlaceDoes DEF Sound
<1>11. ASSUME NEW k \in Callers, ResumeForks(k)
      PROVE  handle'[t] = d \/ (call'[i].child = d /\ call'[i].pc = "install")
  BY <1>0, <1>11, ResumeForksDoes DEF Sound
<1>12. ASSUME NEW k \in Callers, ResumeInstalls(k)
      PROVE  handle'[t] = d \/ (call'[i].child = d /\ call'[i].pc = "install")
  BY <1>0, <1>12, ResumeInstallsDoes DEF Handled, Sound, Named, CallsNamed
<1>13. ASSUME NEW k \in Callers, ResumeReturns(k)
      PROVE  handle'[t] = d \/ (call'[i].child = d /\ call'[i].pc = "install")
  BY <1>0, <1>13, ResumeReturnsDoes DEF Sound
<1> QED
  BY <1>1, <1>2, <1>3, <1>4, <1>5, <1>6, <1>7, <1>8, <1>9, <1>10, <1>11, <1>12, <1>13
  DEF Next, Proceed, Go, Give, Spawning, Forwarder, Killing, vars, rows, handles, procs, bounds,
      history

\* Every process can be killed, outside of a fork.
LEMMA EveryChildHasItsHandleStep ==
    ASSUME SessionInv, [Next]_vars
    PROVE  EveryChildHasItsHandle'
<1>0. /\ Sound /\ EveryChildHasItsHandle /\ LatestOnly' /\ Grows /\ TypeOK' /\ Numbered
      /\ overtaken \subseteq overtaken'
  BY LatestOnlyStep, GrowsStep, TypesStep, OvertakenGrows DEF SessionInv, Sound
<1>1. SUFFICES ASSUME NEW t \in Slots \ overtaken', NEW d \in AliveIn(t)'
      PROVE  /\ latest'[t] = d
             /\ \/ handle'[t] = d
                \/ AboutToStop(d)'
                \/ spawner'.child = d /\ spawner'.pc \in {"recheck", "install"}
                \/ \E k \in Callers : call'[k].child = d /\ call'[k].pc = "install"
  BY Zenon DEF EveryChildHasItsHandle
<1>2. d \in Children /\ slotOf'[d] = t /\ child'[d] = "alive" /\ t \notin overtaken
  BY <1>0, <1>1 DEF AliveIn, Alive
<1>3. latest'[t] = d
  BY <1>0, <1>1, <1>2 DEF LatestOnly, Alive
<1>4. CASE child[d] = "alive"
  <2>1. slotOf[d] = t /\ d \in AliveIn(t)
    BY <1>0, <1>1, <1>2, <1>4 DEF Grows, Numbered, Born, AliveIn, Alive
  <2>2. \/ handle[t] = d
        \/ AboutToStop(d)
        \/ spawner.child = d /\ spawner.pc \in {"recheck", "install"}
        \/ \E k \in Callers : call[k].child = d /\ call[k].pc = "install"
    BY <1>0, <1>1, <1>2, <2>1 DEF EveryChildHasItsHandle
  <2>3. CASE handle[t] = d
    BY <1>1, <1>2, <1>3, <1>4, <2>1, <2>3, HandleStays
  <2>4. CASE AboutToStop(d)
    BY <1>1, <1>2, <1>3, <1>4, <2>1, <2>4, AboutToStopStays
  <2>5. CASE spawner.child = d /\ spawner.pc \in {"recheck", "install"}
    BY <1>1, <1>2, <1>3, <1>4, <2>1, <2>5, SpawnedIsReached
  <2>6. ASSUME NEW k \in Callers, call[k].child = d, call[k].pc = "install"
        PROVE  handle'[t] = d \/ (call'[k].child = d /\ call'[k].pc = "install")
    BY <1>1, <1>2, <1>4, <2>1, <2>6, ResumedIsReached
  <2> QED
    BY <1>3, <2>2, <2>3, <2>4, <2>5, <2>6
<1>5. CASE child[d] # "alive"
  BY <1>2, <1>3, <1>5, AliveBefore DEF WasAlive
<1> QED
  BY <1>4, <1>5

-----------------------------------------------------------------------------
(* Exits are true, and an archive closes the forks.                         *)

\* No row is ended under a process that lives on.
LEMMA ExitWritten ==
    ASSUME SessionInv, [Next]_vars, NEW t \in Slots \ overtaken, NEW d \in Children,
           slotOf[d] = t, child[d] = "alive", child'[d] = "alive"
    PROVE  row'[t] = "exited" => row[t] = "exited"
<1>0. Sound /\ LatestOnly /\ PendingIsUnclaimed /\ ToSpawnIsUntouched /\ SpawnedIsLatest /\ ClaimsClear
      /\ ClaimsAreSingle
  BY DEF SessionInv, Sound, SpawnsFirst
<1>1. ASSUME UNCHANGED <<row>>
      PROVE  row'[t] = "exited" => row[t] = "exited"
  BY <1>0, <1>1 DEF Sound
<1>2. ASSUME NEW c \in Children, ChildEnds(c) \/ ForwarderLeaves(c) \/ ForwarderTakesKilled(c) \/
                                 ForwarderForgets(c) \/ ForwarderReaps(c) \/ ForwarderEnds(c)
      PROVE  row'[t] = "exited" => row[t] = "exited"
  <2>1. UNCHANGED <<row>>
    BY <1>2 DEF ChildEnds, ForwarderLeaves, ForwarderTakesKilled, ForwarderForgets,
                ForwarderReaps, ForwarderEnds, SpawnCancelled, Fork, Forwards, rows, handles,
                procs, bounds, history
  <2> QED
    BY <1>1, <2>1
<1>3. ASSUME NEW o \in Owners, NEW s \in Slots, KillMarks(o, s) \/ KillStops(o, s) \/
                                                KillTakes(o, s) \/ KillJoins(o, s) \/
                                                KillClears(o, s)
      PROVE  row'[t] = "exited" => row[t] = "exited"
  <2>1. UNCHANGED <<row>>
    BY <1>3 DEF KillMarks, KillStops, KillTakes, KillJoins, KillClears, SpawnCancelled, Fork,
                Forwards, rows, handles, procs, bounds, history
  <2> QED
    BY <1>1, <2>1
<1>4. ASSUME SpawnDrained \/ SpawnForks \/ SpawnReaps \/ SpawnReaped \/ SpawnInstalls \/
             SpawnAttaches
      PROVE  row'[t] = "exited" => row[t] = "exited"
  <2>1. UNCHANGED <<row>>
    BY <1>4 DEF SpawnDrained, SpawnForks, SpawnReaps, SpawnReaped, SpawnInstalls, SpawnAttaches,
                SpawnCancelled, Fork, Forwards, rows, handles, procs, bounds, history
  <2> QED
    BY <1>1, <2>1
<1>5. ASSUME NEW k \in Callers, NEW op \in {"stop", "archive"}, StopMission(k, op)
      PROVE  row'[t] = "exited" => row[t] = "exited"
  <2>1. UNCHANGED <<row>>
    BY <1>5 DEF StopMission, SpawnCancelled, Fork, Forwards, rows, handles, procs, bounds, history
  <2> QED
    BY <1>1, <2>1
<1>6. ASSUME NEW k \in Callers, NEW s \in Slots, KillSession(k, s)
      PROVE  row'[t] = "exited" => row[t] = "exited"
  <2>1. UNCHANGED <<row>>
    BY <1>6 DEF KillSession, SpawnCancelled, Fork, Forwards, rows, handles, procs, bounds, history
  <2> QED
    BY <1>1, <2>1
<1>7. ASSUME NEW k \in Callers, NEW op \in Ops, NEW s \in Slots, Resume(k, op, s)
      PROVE  row'[t] = "exited" => row[t] = "exited"
  <2>1. UNCHANGED <<row>>
    BY <1>7 DEF Resume, SpawnCancelled, Fork, Forwards, rows, handles, procs, bounds, history
  <2> QED
    BY <1>1, <2>1
<1>8. ASSUME NEW k \in Callers, KillReturns(k) \/ RestartKilled(k) \/ ResumeInstalls(k) \/
                                ResumeReturns(k)
      PROVE  row'[t] = "exited" => row[t] = "exited"
  <2>1. UNCHANGED <<row>>
    BY <1>8 DEF KillReturns, RestartKilled, ResumeInstalls, ResumeReturns, SpawnCancelled, Fork,
                Forwards, rows, handles, procs, bounds, history
  <2> QED
    BY <1>1, <2>1
<1>9. ASSUME NEW c \in Children, ForwarderWritesExit(c)
      PROVE  row'[t] = "exited" => row[t] = "exited"
  <2>1. slotOf[c] # t
    BY <1>0, <1>9, ForwarderWritesExitDoes DEF LatestOnly, Alive, Busy, Gone
  <2> QED
    BY <1>0, <1>9, <2>1, ForwarderWritesExitDoes
<1>10. ASSUME SpawnNext
      PROVE  row'[t] = "exited" => row[t] = "exited"
  BY <1>0, <1>10, SpawnNextDoes DEF ToSpawnIsUntouched, ToSpawn, Untouched
<1>11. ASSUME SpawnCancelledInGate
      PROVE  row'[t] = "exited" => row[t] = "exited"
  BY <1>0, <1>11, SpawnCancelledInGateDoes DEF ToSpawnIsUntouched, ToSpawn, Untouched
<1>12. ASSUME SpawnFails
      PROVE  row'[t] = "exited" => row[t] = "exited"
  BY <1>0, <1>12, SpawnFailsDoes DEF ToSpawnIsUntouched, ToSpawn, Untouched
<1>13. ASSUME SpawnRechecks
      PROVE  row'[t] = "exited" => row[t] = "exited"
  <2>1. latest[t] = d
    BY <1>0 DEF LatestOnly, Alive
  <2> QED
    BY <1>0, <1>13, <2>1, SpawnRechecksDoes DEF Ended
<1>14. ASSUME NEW k \in Callers, ResumeInPlace(k)
      PROVE  row'[t] = "exited" => row[t] = "exited"
  BY <1>0, <1>14, ResumeInPlaceDoes DEF Sound
<1>15. ASSUME NEW k \in Callers, ResumeForks(k)
      PROVE  row'[t] = "exited" => row[t] = "exited"
  <2>1. call[k].slot # t
    BY <1>0, <1>15, ResumeForksDoes DEF ClaimsClear, ClearFor, Settled, Alive
  <2>2. CASE call'[k] = NoCall
    BY <1>0, <1>15, <2>1, <2>2, ResumeForksDoes
  <2> QED
    BY <1>0, <1>15, <2>1, ResumeForksDoes
<1> QED
  BY <1>1, <1>2, <1>3, <1>4, <1>5, <1>6, <1>7, <1>8, <1>9, <1>10, <1>11, <1>12, <1>13, <1>14,
     <1>15
  DEF Next, Proceed, Go, Give, Spawning, Forwarder, Killing, vars, rows, handles, procs, bounds,
      history

\* A process that is alive after a step: it was, or it has just been forked.
LEMMA AliveThen ==
    ASSUME SessionInv, [Next]_vars, NEW t \in Slots \ overtaken', NEW d \in AliveIn(t)'
    PROVE  /\ d \in Children /\ child'[d] = "alive" /\ slotOf'[d] = t /\ t \in Slots \ overtaken
           /\ \/ child[d] = "alive" /\ slotOf[d] = t /\ d \in AliveIn(t)
              \/ child[d] = "none" /\ SpawnForks /\ spawner.slot = t
              \/ /\ child[d] = "none"
                 /\ \E k \in Callers : ResumeForks(k) /\ call[k].slot = t /\ call'[k].pc = "install"
<1>0. Sound /\ Grows /\ Numbered /\ overtaken \subseteq overtaken'
  BY GrowsStep, OvertakenGrows DEF SessionInv, Sound
<1>1. d \in Children /\ child'[d] = "alive" /\ slotOf'[d] = t /\ t \in Slots \ overtaken
  BY <1>0 DEF AliveIn, Alive
<1>2. CASE child[d] = "alive"
  BY <1>0, <1>1, <1>2 DEF Grows, Numbered, Born, AliveIn, Alive
<1>3. CASE child[d] # "alive"
  BY <1>1, <1>3, AliveBefore DEF WasAlive
<1> QED
  BY <1>1, <1>2, <1>3

\* A row that says exited says so of a process that is gone.
LEMMA ExitIsTheTruthStep ==
    ASSUME SessionInv, [Next]_vars
    PROVE  ExitIsTheTruth'
<1>0. Sound /\ ExitIsTheTruth /\ ToSpawnIsUntouched /\ ClaimsClear
  BY DEF SessionInv, Sound, SpawnsFirst
<1>1. SUFFICES ASSUME NEW t \in Slots \ overtaken', row'[t] = "exited", NEW d \in AliveIn(t)'
      PROVE  FALSE
  BY Zenon DEF ExitIsTheTruth
<1>2. /\ d \in Children /\ child'[d] = "alive" /\ t \in Slots \ overtaken
      /\ \/ child[d] = "alive" /\ slotOf[d] = t /\ d \in AliveIn(t)
         \/ child[d] = "none" /\ SpawnForks /\ spawner.slot = t
         \/ /\ child[d] = "none"
            /\ \E k \in Callers : ResumeForks(k) /\ call[k].slot = t /\ call'[k].pc = "install"
  BY <1>1, AliveThen
<1>3. CASE child[d] = "alive" /\ slotOf[d] = t /\ d \in AliveIn(t)
  <2>1. row[t] = "exited"
    BY <1>1, <1>2, <1>3, ExitWritten
  <2> QED
    BY <1>0, <1>2, <1>3, <2>1 DEF ExitIsTheTruth
<1>4. CASE SpawnForks /\ spawner.slot = t
  <2>1. row[t] = "running"
    BY <1>0, <1>2, <1>4, SpawnForksDoes DEF ToSpawnIsUntouched, ToSpawn, Untouched
  <2> QED
    BY <1>0, <1>1, <1>4, <2>1, SpawnForksDoes
<1>5. ASSUME NEW k \in Callers, ResumeForks(k), call[k].slot = t, call'[k].pc = "install"
      PROVE  FALSE
  <2>1. row[t] = "running"
    BY <1>0, <1>2, <1>5, ResumeForksDoes DEF ClaimsClear, ClearFor
  <2> QED
    BY <1>0, <1>1, <1>5, <2>1, ResumeForksDoes DEF NoCall
<1> QED
  BY <1>2, <1>3, <1>4, <1>5

\* While a mission is archived the spawn thread forks nothing more.
LEMMA ArchiveClosesStep ==
    ASSUME SessionInv, [Next]_vars
    PROVE  ArchiveCloses'
<1>0. Sound /\ ArchiveCloses /\ ClaimsAreSingle
  BY DEF SessionInv, Sound
<1>1. ASSUME UNCHANGED <<mission, call, cancel, spawner, missed>>
      PROVE  ArchiveCloses'
  BY <1>0, <1>1 DEF ArchiveCloses, Archiving, Claiming
<1>2. ASSUME NEW c \in Children, ChildEnds(c) \/ ForwarderLeaves(c) \/ ForwarderTakesKilled(c) \/
                                 ForwarderWritesExit(c) \/ ForwarderForgets(c) \/ ForwarderEnds(c)
      PROVE  ArchiveCloses'
  <2>1. UNCHANGED <<mission, call, cancel, spawner, missed>>
    BY <1>2 DEF ChildEnds, ForwarderLeaves, ForwarderTakesKilled, ForwarderWritesExit,
                ForwarderForgets, ForwarderEnds, SpawnCancelled, Fork, Forwards, rows, handles,
                procs, bounds, history
  <2> QED
    BY <1>1, <2>1
<1>3. ASSUME NEW o \in Owners, NEW s \in Slots, KillMarks(o, s) \/ KillStops(o, s) \/
                                                KillTakes(o, s) \/ KillJoins(o, s) \/
                                                KillClears(o, s)
      PROVE  ArchiveCloses'
  <2>1. UNCHANGED <<mission, call, cancel, spawner, missed>>
    BY <1>3 DEF KillMarks, KillStops, KillTakes, KillJoins, KillClears, SpawnCancelled, Fork,
                Forwards, rows, handles, procs, bounds, history
  <2> QED
    BY <1>1, <2>1
<1>4. ASSUME NEW c \in Children, ForwarderReaps(c)
      PROVE  ArchiveCloses'
  BY <1>0, <1>4, ForwarderReapsDoes DEF ArchiveCloses, Archiving, Claiming, SentAll
<1>5. ASSUME SpawnNext
      PROVE  ArchiveCloses'
  BY <1>0, <1>5, SpawnNextDoes DEF ArchiveCloses, Archiving, Claiming
<1>6. ASSUME SpawnDrained
      PROVE  ArchiveCloses'
  BY <1>0, <1>6, SpawnDrainedDoes DEF ArchiveCloses, Archiving, Claiming
<1>7. ASSUME SpawnForks
      PROVE  ArchiveCloses'
  BY <1>0, <1>7, SpawnForksDoes DEF ArchiveCloses, Archiving, Claiming
<1>8. ASSUME SpawnCancelledInGate
      PROVE  ArchiveCloses'
  BY <1>0, <1>8, SpawnCancelledInGateDoes DEF ArchiveCloses, Archiving, Claiming
<1>9. ASSUME SpawnFails
      PROVE  ArchiveCloses'
  BY <1>0, <1>9, SpawnFailsDoes DEF ArchiveCloses, Archiving, Claiming
<1>10. ASSUME SpawnReaps
      PROVE  ArchiveCloses'
  BY <1>0, <1>10, SpawnReapsDoes DEF ArchiveCloses, Archiving, Claiming, SentAll
<1>11. ASSUME SpawnReaped
      PROVE  ArchiveCloses'
  BY <1>0, <1>11, SpawnReapedDoes DEF ArchiveCloses, Archiving, Claiming
<1>12. ASSUME SpawnRechecks
      PROVE  ArchiveCloses'
  <2>1. cancel # "set" => cancel = "clear"
    BY <1>0, <1>12, SpawnRechecksDoes, TypeParts DEF Sound, SpawnerStands, CancelTyped
  <2> QED
    BY <1>0, <1>12, <2>1, SpawnRechecksDoes DEF ArchiveCloses, Archiving, Claiming
<1>13. ASSUME SpawnInstalls
      PROVE  ArchiveCloses'
  BY <1>0, <1>13, SpawnInstallsDoes DEF ArchiveCloses, Archiving, Claiming
<1>14. ASSUME SpawnAttaches
      PROVE  ArchiveCloses'
  BY <1>0, <1>14, SpawnAttachesDoes DEF ArchiveCloses, Archiving, Claiming
<1>15. ASSUME NEW k \in Callers, NEW op \in {"stop", "archive"}, StopMission(k, op)
      PROVE  ArchiveCloses'
  <2>1. /\ spawner.pc = "install" => spawner.slot \in InFlight
        /\ \A j \in Callers : Claiming(j) /\ call[j].pc # "attach" => call[j].slot \in InFlight
    <3>1. \A j \in Callers : Claiming(j) /\ call[j].pc # "attach" =>
             call[j].pc \in {"killing", "row", "fork", "install"}
      BY <1>0, TypeParts DEF Sound, CallTyped, CallType, ClaimsAreSingle
    <3> QED
      BY <3>1 DEF InFlight, Claiming
  <2>2. ~Claiming(k)' /\ cancel' # "clear" /\ missed \subseteq missed'
    BY <1>0, <1>15, StopMissionDoes DEF Claiming, SentAll
  <2>3. CASE op = "archive"
    <3>1. InFlight \subseteq missed' /\ \A j \in Callers : j # k => call'[j] = call[j]
      BY <1>0, <1>15, <2>3, StopMissionDoes
    <3>2. UNCHANGED spawner
      BY <1>0, <1>15, StopMissionDoes
    <3> QED
      BY <2>1, <2>2, <3>1, <3>2 DEF ArchiveCloses, Claiming
  <2>4. CASE op = "stop"
    <3>1. Archiving' => Archiving
      BY <1>0, <1>15, <2>4, StopMissionDoes DEF Archiving
    <3>2. UNCHANGED spawner /\ \A j \in Callers : j # k => call'[j] = call[j]
      BY <1>0, <1>15, StopMissionDoes
    <3> QED
      BY <1>0, <2>2, <3>1, <3>2 DEF ArchiveCloses, Claiming
  <2> QED
    BY <1>15, <2>3, <2>4
<1>16. ASSUME NEW k \in Callers, NEW s \in Slots, KillSession(k, s)
      PROVE  ArchiveCloses'
  <2>1. Archiving' => Archiving
    BY <1>0, <1>16, KillSessionDoes DEF Archiving, NoCall, Claiming
  <2>2. \A j \in Callers : Claiming(j)' /\ call'[j].pc # "attach" =>
           Claiming(j) /\ call[j].pc # "attach" /\ call'[j].slot = call[j].slot
    BY <1>0, <1>16, KillSessionDoes DEF Claiming, NoCall
  <2> QED
    BY <1>0, <1>16, <2>1, <2>2, KillSessionDoes DEF ArchiveCloses
<1>17. ASSUME NEW k \in Callers, NEW op \in Ops, NEW s \in Slots, Resume(k, op, s)
      PROVE  ArchiveCloses'
  <2>1. Archiving' => \E j \in Callers : call[j].op = "archive"
    BY <1>0, <1>17, ResumeDoes DEF Archiving
  <2>2. Archiving' => Archiving /\ s \in missed'
    BY <1>0, <1>17, <2>1, ResumeDoes DEF Archiving
  <2>3. \A j \in Callers : Claiming(j)' /\ j # k => Claiming(j) /\ call'[j] = call[j]
    BY <1>0, <1>17, ResumeDoes DEF Claiming
  <2>4. missed \subseteq missed' /\ UNCHANGED <<spawner, cancel>> /\ call'[k].slot = s
    BY <1>0, <1>17, ResumeDoes
  <2> QED
    BY <1>0, <2>2, <2>3, <2>4 DEF ArchiveCloses
<1>18. ASSUME NEW k \in Callers, KillReturns(k)
      PROVE  ArchiveCloses'
  <2>1. Archiving' => Archiving
    BY <1>0, <1>18, KillReturnsDoes DEF Archiving, NoCall, Claiming
  <2>2. \A j \in Callers : Claiming(j)' /\ call'[j].pc # "attach" =>
           Claiming(j) /\ call[j].pc # "attach" /\ call'[j].slot = call[j].slot
    BY <1>0, <1>18, KillReturnsDoes DEF Claiming, NoCall
  <2> QED
    BY <1>0, <1>18, <2>1, <2>2, KillReturnsDoes DEF ArchiveCloses
<1>19. ASSUME NEW k \in Callers, RestartKilled(k)
      PROVE  ArchiveCloses'
  <2>1. Archiving' => Archiving
    BY <1>0, <1>19, RestartKilledDoes DEF Archiving, NoCall, Claiming
  <2>2. \A j \in Callers : Claiming(j)' /\ call'[j].pc # "attach" =>
           Claiming(j) /\ call[j].pc # "attach" /\ call'[j].slot = call[j].slot
    BY <1>0, <1>19, RestartKilledDoes DEF Claiming, NoCall
  <2> QED
    BY <1>0, <1>19, <2>1, <2>2, RestartKilledDoes DEF ArchiveCloses
<1>20. ASSUME NEW k \in Callers, ResumeInPlace(k)
      PROVE  ArchiveCloses'
  <2>1. Archiving' => Archiving
    BY <1>0, <1>20, ResumeInPlaceDoes DEF Archiving, NoCall, Claiming
  <2>2. \A j \in Callers : Claiming(j)' /\ call'[j].pc # "attach" =>
           Claiming(j) /\ call[j].pc # "attach" /\ call'[j].slot = call[j].slot
    BY <1>0, <1>20, ResumeInPlaceDoes DEF Claiming, NoCall
  <2> QED
    BY <1>0, <1>20, <2>1, <2>2, ResumeInPlaceDoes DEF ArchiveCloses
<1>21. ASSUME NEW k \in Callers, ResumeForks(k)
      PROVE  ArchiveCloses'
  <2>1. Archiving' => Archiving
    BY <1>0, <1>21, ResumeForksDoes DEF Archiving, NoCall, Claiming
  <2>2. \A j \in Callers : Claiming(j)' /\ call'[j].pc # "attach" =>
           Claiming(j) /\ call[j].pc # "attach" /\ call'[j].slot = call[j].slot
    BY <1>0, <1>21, ResumeForksDoes DEF Claiming, NoCall
  <2> QED
    BY <1>0, <1>21, <2>1, <2>2, ResumeForksDoes DEF ArchiveCloses
<1>22. ASSUME NEW k \in Callers, ResumeInstalls(k)
      PROVE  ArchiveCloses'
  <2>1. Archiving' => Archiving
    BY <1>0, <1>22, ResumeInstallsDoes DEF Archiving, NoCall, Claiming
  <2>2. \A j \in Callers : Claiming(j)' /\ call'[j].pc # "attach" =>
           Claiming(j) /\ call[j].pc # "attach" /\ call'[j].slot = call[j].slot
    BY <1>0, <1>22, ResumeInstallsDoes DEF Claiming, NoCall
  <2> QED
    BY <1>0, <1>22, <2>1, <2>2, ResumeInstallsDoes DEF ArchiveCloses
<1>23. ASSUME NEW k \in Callers, ResumeReturns(k)
      PROVE  ArchiveCloses'
  <2>1. Archiving' => Archiving
    BY <1>0, <1>23, ResumeReturnsDoes DEF Archiving, NoCall, Claiming
  <2>2. \A j \in Callers : Claiming(j)' /\ call'[j].pc # "attach" =>
           Claiming(j) /\ call[j].pc # "attach" /\ call'[j].slot = call[j].slot
    BY <1>0, <1>23, ResumeReturnsDoes DEF Claiming, NoCall
  <2> QED
    BY <1>0, <1>23, <2>1, <2>2, ResumeReturnsDoes DEF ArchiveCloses
<1> QED
  BY <1>1, <1>2, <1>3, <1>4, <1>5, <1>6, <1>7, <1>8, <1>9, <1>10, <1>11, <1>12, <1>13, <1>14,
     <1>15, <1>16, <1>17, <1>18, <1>19, <1>20, <1>21, <1>22, <1>23
  DEF Next, Proceed, Go, Give, Spawning, Forwarder, Killing, vars, rows, handles, procs, bounds,
      history

-----------------------------------------------------------------------------
(* An archive reaches every process.                                        *)

\* A live process without a handle is about to be stopped, or has just been forked.
LEMMA Unhandled ==
    ASSUME SessionInv, NEW t \in Slots \ overtaken, NEW d \in AliveIn(t), handle[t] = 0
    PROVE  \/ AboutToStop(d)
           \/ spawner.child = d /\ spawner.pc = "recheck" /\ cancel \in {"clear", "set"}
           \/ spawner.pc = "install" /\ spawner.slot = t
           \/ \E k \in Callers : Claiming(k) /\ call[k].pc = "install" /\ call[k].slot = t
<1>1. Sound /\ EveryChildHasItsHandle /\ d \in Children /\ slotOf[d] = t /\ d # 0
  BY LifecycleAssumption DEF LifecycleAssumption, SessionInv, Sound, AliveIn, Children
<1>2. \/ AboutToStop(d)
      \/ spawner.child = d /\ spawner.pc \in {"recheck", "install"}
      \/ \E k \in Callers : call[k].child = d /\ call[k].pc = "install"
  BY <1>1 DEF EveryChildHasItsHandle
<1>3. ASSUME spawner.child = d, spawner.pc = "recheck"
      PROVE  cancel \in {"clear", "set"}
  BY <1>1, <1>3, TypeParts DEF Sound, CancelTyped, SpawnerStands
<1>4. ASSUME spawner.child = d, spawner.pc = "install"
      PROVE  spawner.slot = t
  BY <1>1, <1>4 DEF Sound, Named, SpawnerNamed
<1>5. ASSUME NEW k \in Callers, call[k].child = d, call[k].pc = "install"
      PROVE  Claiming(k) /\ call[k].slot = t
  BY <1>1, <1>5, RowAndLater DEF Sound, Named, CallsNamed
<1> QED
  BY <1>2, <1>3, <1>4, <1>5

\* What has been missed stays so.
LEMMA MissedGrows ==
    ASSUME SessionInv, [Next]_vars
    PROVE  missed \subseteq missed'
<1>0. Sound
  BY DEF SessionInv, Sound
<1>1. ASSUME UNCHANGED <<missed>>
      PROVE  missed \subseteq missed'
  BY <1>0, <1>1 DEF Sound
<1>2. ASSUME NEW c \in Children, ChildEnds(c) \/ ForwarderLeaves(c) \/ ForwarderTakesKilled(c) \/
                                 ForwarderWritesExit(c) \/ ForwarderForgets(c) \/
                                 ForwarderReaps(c) \/ ForwarderEnds(c)
      PROVE  missed \subseteq missed'
  <2>1. UNCHANGED <<missed>>
    BY <1>2 DEF ChildEnds, ForwarderLeaves, ForwarderTakesKilled, ForwarderWritesExit,
                ForwarderForgets, ForwarderReaps, ForwarderEnds, SpawnCancelled, Fork, Forwards,
                rows, handles, procs, bounds, history
  <2> QED
    BY <1>1, <2>1
<1>3. ASSUME NEW o \in Owners, NEW s \in Slots, KillMarks(o, s) \/ KillStops(o, s) \/
                                                KillTakes(o, s) \/ KillJoins(o, s) \/
                                                KillClears(o, s)
      PROVE  missed \subseteq missed'
  <2>1. UNCHANGED <<missed>>
    BY <1>3 DEF KillMarks, KillStops, KillTakes, KillJoins, KillClears, SpawnCancelled, Fork,
                Forwards, rows, handles, procs, bounds, history
  <2> QED
    BY <1>1, <2>1
<1>4. ASSUME SpawnNext \/ SpawnDrained \/ SpawnForks \/ SpawnCancelledInGate \/ SpawnFails \/
             SpawnReaps \/ SpawnReaped \/ SpawnRechecks \/ SpawnInstalls \/ SpawnAttaches
      PROVE  missed \subseteq missed'
  <2>1. UNCHANGED <<missed>>
    BY <1>4 DEF SpawnNext, SpawnDrained, SpawnForks, SpawnCancelledInGate, SpawnFails, SpawnReaps,
                SpawnReaped, SpawnRechecks, SpawnInstalls, SpawnAttaches, SpawnCancelled, Fork,
                Forwards, rows, handles, procs, bounds, history
  <2> QED
    BY <1>1, <2>1
<1>5. ASSUME NEW k \in Callers, NEW s \in Slots, KillSession(k, s)
      PROVE  missed \subseteq missed'
  <2>1. UNCHANGED <<missed>>
    BY <1>5 DEF KillSession, SpawnCancelled, Fork, Forwards, rows, handles, procs, bounds, history
  <2> QED
    BY <1>1, <2>1
<1>6. ASSUME NEW k \in Callers, KillReturns(k) \/ RestartKilled(k) \/ ResumeInPlace(k) \/
                                ResumeForks(k) \/ ResumeInstalls(k) \/ ResumeReturns(k)
      PROVE  missed \subseteq missed'
  <2>1. UNCHANGED <<missed>>
    BY <1>6 DEF KillReturns, RestartKilled, ResumeInPlace, ResumeForks, ResumeInstalls,
                ResumeReturns, SpawnCancelled, Fork, Forwards, rows, handles, procs, bounds,
                history
  <2> QED
    BY <1>1, <2>1
<1>7. ASSUME NEW k \in Callers, NEW op \in {"stop", "archive"}, StopMission(k, op)
      PROVE  missed \subseteq missed'
  BY <1>0, <1>7, StopMissionDoes DEF Sound
<1>8. ASSUME NEW k \in Callers, NEW op \in Ops, NEW s \in Slots, Resume(k, op, s)
      PROVE  missed \subseteq missed'
  BY <1>0, <1>8, ResumeDoes DEF Sound
<1> QED
  BY <1>1, <1>2, <1>3, <1>4, <1>5, <1>6, <1>7, <1>8
  DEF Next, Proceed, Go, Give, Spawning, Forwarder, Killing, vars, rows, handles, procs, bounds,
      history

\* What an archive has done with is about to be stopped.
LEMMA ArchiveReached ==
    ASSUME SessionInv, [Next]_vars, NEW t \in Slots \ overtaken, NEW d \in Children,
           slotOf[d] = t, child[d] = "alive", child'[d] = "alive",
           t \notin missed', NEW i \in Callers, call'[i].op = "archive",
           job'[i][t].step \notin {"mark", "stop", "failed"}
    PROVE  AboutToStop(d) \/ AboutToStop(d)'
<1>0. Sound /\ LatestOnly /\ PendingIsUnclaimed /\ ToSpawnIsUntouched /\ SpawnedIsLatest /\ ClaimsClear
      /\ ClaimsAreSingle /\ EveryChildHasItsHandle /\ ArchiveCloses /\ ArchiveReaches
      /\ missed \subseteq missed' /\ d \in AliveIn(t) /\ t \notin missed
  BY MissedGrows DEF AliveIn, Alive, SessionInv, Sound, SpawnsFirst
<1>1. ASSUME UNCHANGED <<call, job>>
      PROVE  AboutToStop(d) \/ AboutToStop(d)'
  BY <1>0, <1>1 DEF ArchiveReaches
<1>2. ASSUME NEW c \in Children, ChildEnds(c) \/ ForwarderLeaves(c) \/ ForwarderTakesKilled(c) \/
                                 ForwarderWritesExit(c) \/ ForwarderForgets(c)
      PROVE  AboutToStop(d) \/ AboutToStop(d)'
  <2>1. UNCHANGED <<call, job>>
    BY <1>2 DEF ChildEnds, ForwarderLeaves, ForwarderTakesKilled, ForwarderWritesExit,
                ForwarderForgets, SpawnCancelled, Fork, Forwards, rows, handles, procs, bounds,
                history
  <2> QED
    BY <1>1, <2>1
<1>3. ASSUME SpawnNext \/ SpawnDrained \/ SpawnForks \/ SpawnCancelledInGate \/ SpawnFails \/
             SpawnRechecks \/ SpawnInstalls \/ SpawnAttaches
      PROVE  AboutToStop(d) \/ AboutToStop(d)'
  <2>1. UNCHANGED <<call, job>>
    BY <1>3 DEF SpawnNext, SpawnDrained, SpawnForks, SpawnCancelledInGate, SpawnFails,
                SpawnRechecks, SpawnInstalls, SpawnAttaches, SpawnCancelled, Fork, Forwards, rows,
                handles, procs, bounds, history
  <2> QED
    BY <1>1, <2>1
<1>4. ASSUME NEW o \in Owners, NEW s \in Slots, KillMarks(o, s)
      PROVE  AboutToStop(d) \/ AboutToStop(d)'
  <2>1. CASE o = i /\ s = t
    <3>1. handle[t] = 0 /\ call[i].op = "archive"
      BY <1>0, <1>4, <2>1, KillMarksDoes
    <3>2. \/ AboutToStop(d)
          \/ spawner.child = d /\ spawner.pc = "recheck" /\ cancel \in {"clear", "set"}
          \/ spawner.pc = "install" /\ spawner.slot = t
          \/ \E k \in Callers : Claiming(k) /\ call[k].pc = "install" /\ call[k].slot = t
      BY <1>0, <3>1, Unhandled
    <3>3. /\ cancel # "clear"
          /\ spawner.pc = "install" => spawner.slot \in missed
          /\ \A k \in Callers : Claiming(k) /\ call[k].pc # "attach" => call[k].slot \in missed
      BY <1>0, <3>1, Zenon DEF ArchiveCloses, Archiving
    <3> QED
      BY <1>0, <3>2, <3>3 DEF AboutToStop
  <2>2. CASE o # i \/ s # t
    BY <1>0, <1>4, <2>2, KillMarksDoes, OwnersAre DEF OwnerKinds, ArchiveReaches
  <2> QED
    BY <2>1, <2>2
<1>5. ASSUME NEW o \in Owners, NEW s \in Slots, KillStops(o, s)
      PROVE  AboutToStop(d) \/ AboutToStop(d)'
  <2>1. CASE o = i /\ s = t
    <3>1. latest[t] = d
      BY <1>0 DEF LatestOnly, Alive
    <3> QED
      BY <1>0, <1>5, <2>1, <3>1, KillStopsDoes
  <2>2. CASE o # i \/ s # t
    BY <1>0, <1>5, <2>2, KillStopsDoes, OwnersAre DEF OwnerKinds, ArchiveReaches
  <2> QED
    BY <2>1, <2>2
<1>6. ASSUME NEW o \in Owners, NEW s \in Slots, KillTakes(o, s)
      PROVE  AboutToStop(d) \/ AboutToStop(d)'
  BY <1>0, <1>6, KillTakesDoes, OwnersAre DEF OwnerKinds, ArchiveReaches
<1>7. ASSUME NEW o \in Owners, NEW s \in Slots, KillJoins(o, s)
      PROVE  AboutToStop(d) \/ AboutToStop(d)'
  BY <1>0, <1>7, KillJoinsDoes, OwnersAre DEF OwnerKinds, ArchiveReaches
<1>8. ASSUME NEW o \in Owners, NEW s \in Slots, KillClears(o, s)
      PROVE  AboutToStop(d) \/ AboutToStop(d)'
  BY <1>0, <1>8, KillClearsDoes, OwnersAre DEF OwnerKinds, ArchiveReaches
<1>9. ASSUME NEW c \in Children, ForwarderReaps(c)
      PROVE  AboutToStop(d) \/ AboutToStop(d)'
  BY <1>0, <1>9, ForwarderReapsDoes, OwnersAre DEF OwnerKinds, ArchiveReaches, SentAll
<1>10. ASSUME NEW c \in Children, ForwarderEnds(c)
      PROVE  AboutToStop(d) \/ AboutToStop(d)'
  BY <1>0, <1>10, ForwarderEndsDoes, OwnersAre DEF OwnerKinds, ArchiveReaches
<1>11. ASSUME SpawnReaps
      PROVE  AboutToStop(d) \/ AboutToStop(d)'
  BY <1>0, <1>11, SpawnReapsDoes, OwnersAre DEF OwnerKinds, ArchiveReaches, SentAll
<1>12. ASSUME SpawnReaped
      PROVE  AboutToStop(d) \/ AboutToStop(d)'
  BY <1>0, <1>12, SpawnReapedDoes, OwnersAre DEF OwnerKinds, ArchiveReaches
<1>13. ASSUME NEW k \in Callers, NEW op \in {"stop", "archive"}, StopMission(k, op)
      PROVE  AboutToStop(d) \/ AboutToStop(d)'
  <2>1. CASE k = i
    <3>1. handle[t] = 0 /\ op = "archive" /\ InFlight \subseteq missed' /\ UNCHANGED <<spawner, stop, fwd>>
          /\ cancel' = (IF cancel = "clear" THEN "set" ELSE cancel)
      BY <1>0, <1>13, <2>1, StopMissionDoes DEF SentAll
    <3>2. \/ AboutToStop(d)
          \/ spawner.child = d /\ spawner.pc = "recheck" /\ cancel \in {"clear", "set"}
          \/ spawner.pc = "install" /\ spawner.slot = t
          \/ \E j \in Callers : Claiming(j) /\ call[j].pc = "install" /\ call[j].slot = t
      BY <1>0, <3>1, Unhandled
    <3>3. t \notin InFlight
      BY <1>0, <3>1
    <3>4. /\ ~(spawner.pc = "install" /\ spawner.slot = t)
          /\ ~\E j \in Callers : Claiming(j) /\ call[j].pc = "install" /\ call[j].slot = t
      BY <3>3 DEF InFlight, Claiming
    <3> QED
      BY <3>1, <3>2, <3>4 DEF AboutToStop
  <2>2. CASE k # i
    BY <1>0, <1>13, <2>2, StopMissionDoes, OwnersAre DEF OwnerKinds, SentAll, ArchiveReaches
  <2> QED
    BY <2>1, <2>2
<1>14. ASSUME NEW k \in Callers, NEW s \in Slots, KillSession(k, s)
      PROVE  AboutToStop(d) \/ AboutToStop(d)'
  <2>1. i # k
    BY <1>0, <1>14, KillSessionDoes DEF Claiming, NoCall
  <2> QED
    BY <1>0, <1>14, <2>1, KillSessionDoes, OwnersAre DEF OwnerKinds, ArchiveReaches
<1>15. ASSUME NEW k \in Callers, NEW op \in Ops, NEW s \in Slots, Resume(k, op, s)
      PROVE  AboutToStop(d) \/ AboutToStop(d)'
  <2>1. i # k
    BY <1>0, <1>15, ResumeDoes DEF Claiming, NoCall
  <2> QED
    BY <1>0, <1>15, <2>1, ResumeDoes, OwnersAre DEF OwnerKinds, ArchiveReaches
<1>16. ASSUME NEW k \in Callers, KillReturns(k)
      PROVE  AboutToStop(d) \/ AboutToStop(d)'
  <2>1. i # k
    BY <1>0, <1>16, KillReturnsDoes DEF Claiming, NoCall
  <2> QED
    BY <1>0, <1>16, <2>1, KillReturnsDoes, OwnersAre DEF OwnerKinds, ArchiveReaches
<1>17. ASSUME NEW k \in Callers, RestartKilled(k)
      PROVE  AboutToStop(d) \/ AboutToStop(d)'
  <2>1. i # k
    BY <1>0, <1>17, RestartKilledDoes DEF Claiming, NoCall
  <2> QED
    BY <1>0, <1>17, <2>1, RestartKilledDoes, OwnersAre DEF OwnerKinds, ArchiveReaches
<1>18. ASSUME NEW k \in Callers, ResumeInPlace(k)
      PROVE  AboutToStop(d) \/ AboutToStop(d)'
  <2>1. i # k
    BY <1>0, <1>18, ResumeInPlaceDoes DEF Claiming, NoCall
  <2> QED
    BY <1>0, <1>18, <2>1, ResumeInPlaceDoes, OwnersAre DEF OwnerKinds, ArchiveReaches
<1>19. ASSUME NEW k \in Callers, ResumeForks(k)
      PROVE  AboutToStop(d) \/ AboutToStop(d)'
  <2>1. i # k
    BY <1>0, <1>19, ResumeForksDoes DEF Claiming, NoCall
  <2> QED
    BY <1>0, <1>19, <2>1, ResumeForksDoes, OwnersAre DEF OwnerKinds, ArchiveReaches
<1>20. ASSUME NEW k \in Callers, ResumeInstalls(k)
      PROVE  AboutToStop(d) \/ AboutToStop(d)'
  <2>1. i # k
    BY <1>0, <1>20, ResumeInstallsDoes DEF Claiming, NoCall
  <2> QED
    BY <1>0, <1>20, <2>1, ResumeInstallsDoes, OwnersAre DEF OwnerKinds, ArchiveReaches
<1>21. ASSUME NEW k \in Callers, ResumeReturns(k)
      PROVE  AboutToStop(d) \/ AboutToStop(d)'
  <2>1. i # k
    BY <1>0, <1>21, ResumeReturnsDoes DEF Claiming, NoCall
  <2> QED
    BY <1>0, <1>21, <2>1, ResumeReturnsDoes, OwnersAre DEF OwnerKinds, ArchiveReaches
<1> QED
  BY <1>1, <1>2, <1>3, <1>4, <1>5, <1>6, <1>7, <1>8, <1>9, <1>10, <1>11, <1>12, <1>13, <1>14,
     <1>15, <1>16, <1>17, <1>18, <1>19, <1>20, <1>21
  DEF Next, Proceed, Go, Give, Spawning, Forwarder, Killing, vars, rows, handles, procs, bounds,
      history

\* When the mission ends its archive has done with every slot.
LEMMA ArchiveEnds ==
    ASSUME SessionInv, [Next]_vars, NEW t \in Slots \ overtaken, NEW d \in Children,
           slotOf[d] = t, child[d] = "alive", child'[d] = "alive",
           t \notin missed', mission' = "ended"
    PROVE  AboutToStop(d)
<1>0. Sound /\ LatestOnly /\ PendingIsUnclaimed /\ ToSpawnIsUntouched /\ SpawnedIsLatest /\ ClaimsClear
      /\ ClaimsAreSingle /\ EveryChildHasItsHandle /\ ArchiveCloses /\ ArchiveReaches
      /\ ArchivedIsDeadUnlessMissed
      /\ missed \subseteq missed' /\ d \in AliveIn(t) /\ t \notin missed
  BY MissedGrows DEF AliveIn, Alive, SessionInv, Sound, SpawnsFirst
<1>1. ASSUME UNCHANGED <<mission>>
      PROVE  AboutToStop(d)
  BY <1>0, <1>1 DEF ArchivedIsDeadUnlessMissed
<1>2. ASSUME NEW c \in Children, ChildEnds(c) \/ ForwarderLeaves(c) \/ ForwarderTakesKilled(c) \/
                                 ForwarderWritesExit(c) \/ ForwarderForgets(c) \/
                                 ForwarderReaps(c) \/ ForwarderEnds(c)
      PROVE  AboutToStop(d)
  <2>1. UNCHANGED <<mission>>
    BY <1>2 DEF ChildEnds, ForwarderLeaves, ForwarderTakesKilled, ForwarderWritesExit,
                ForwarderForgets, ForwarderReaps, ForwarderEnds, SpawnCancelled, Fork, Forwards,
                rows, handles, procs, bounds, history
  <2> QED
    BY <1>1, <2>1
<1>3. ASSUME NEW o \in Owners, NEW s \in Slots, KillMarks(o, s) \/ KillStops(o, s) \/
                                                KillTakes(o, s) \/ KillJoins(o, s) \/
                                                KillClears(o, s)
      PROVE  AboutToStop(d)
  <2>1. UNCHANGED <<mission>>
    BY <1>3 DEF KillMarks, KillStops, KillTakes, KillJoins, KillClears, SpawnCancelled, Fork,
                Forwards, rows, handles, procs, bounds, history
  <2> QED
    BY <1>1, <2>1
<1>4. ASSUME SpawnNext \/ SpawnDrained \/ SpawnForks \/ SpawnCancelledInGate \/ SpawnFails \/
             SpawnReaps \/ SpawnReaped \/ SpawnRechecks \/ SpawnInstalls \/ SpawnAttaches
      PROVE  AboutToStop(d)
  <2>1. UNCHANGED <<mission>>
    BY <1>4 DEF SpawnNext, SpawnDrained, SpawnForks, SpawnCancelledInGate, SpawnFails, SpawnReaps,
                SpawnReaped, SpawnRechecks, SpawnInstalls, SpawnAttaches, SpawnCancelled, Fork,
                Forwards, rows, handles, procs, bounds, history
  <2> QED
    BY <1>1, <2>1
<1>5. ASSUME NEW k \in Callers, NEW op \in {"stop", "archive"}, StopMission(k, op)
      PROVE  AboutToStop(d)
  <2>1. UNCHANGED <<mission>>
    BY <1>5 DEF StopMission, SpawnCancelled, Fork, Forwards, rows, handles, procs, bounds, history
  <2> QED
    BY <1>1, <2>1
<1>6. ASSUME NEW k \in Callers, NEW s \in Slots, KillSession(k, s)
      PROVE  AboutToStop(d)
  <2>1. UNCHANGED <<mission>>
    BY <1>6 DEF KillSession, SpawnCancelled, Fork, Forwards, rows, handles, procs, bounds, history
  <2> QED
    BY <1>1, <2>1
<1>7. ASSUME NEW k \in Callers, NEW op \in Ops, NEW s \in Slots, Resume(k, op, s)
      PROVE  AboutToStop(d)
  <2>1. UNCHANGED <<mission>>
    BY <1>7 DEF Resume, SpawnCancelled, Fork, Forwards, rows, handles, procs, bounds, history
  <2> QED
    BY <1>1, <2>1
<1>8. ASSUME NEW k \in Callers, RestartKilled(k) \/ ResumeInPlace(k) \/ ResumeForks(k) \/
                                ResumeInstalls(k) \/ ResumeReturns(k)
      PROVE  AboutToStop(d)
  <2>1. UNCHANGED <<mission>>
    BY <1>8 DEF RestartKilled, ResumeInPlace, ResumeForks, ResumeInstalls, ResumeReturns,
                SpawnCancelled, Fork, Forwards, rows, handles, procs, bounds, history
  <2> QED
    BY <1>1, <2>1
<1>9. ASSUME NEW k \in Callers, KillReturns(k)
      PROVE  AboutToStop(d)
  <2>1. CASE UNCHANGED mission
    BY <1>0, <2>1 DEF ArchivedIsDeadUnlessMissed
  <2>2. CASE call[k].op = "archive" /\ \A s \in Slots : job[k][s].step \in {"none", "ok"}
    BY <1>0, <2>2 DEF ArchiveReaches
  <2> QED
    BY <1>0, <1>9, <2>1, <2>2, KillReturnsDoes
<1> QED
  BY <1>1, <1>2, <1>3, <1>4, <1>5, <1>6, <1>7, <1>8, <1>9
  DEF Next, Proceed, Go, Give, Spawning, Forwarder, Killing, vars, rows, handles, procs, bounds,
      history

\* Nothing is forked in an archived mission but by a resume it has missed.
LEMMA ForksAreMissed ==
    ASSUME SessionInv, [Next]_vars, Archiving'
    PROVE  /\ ~SpawnForks
           /\ \A k \in Callers : ResumeForks(k) /\ call'[k].pc = "install" => call[k].slot \in missed'
<1>0. Sound /\ ArchiveCloses /\ missed \subseteq missed'
  BY MissedGrows DEF SessionInv, Sound
<1>1. ASSUME SpawnForks PROVE FALSE
  <2>1. Archiving
    BY <1>0, <1>1, SpawnForksDoes DEF Archiving
  <2>2. cancel = "none"
    BY <1>0, <1>1, <2>1, SpawnForksDoes, TypeParts DEF Sound, CancelTyped, ArchiveCloses
  <2> QED
    BY <1>0, <1>1, <2>2, SpawnForksDoes DEF Sound, SpawnerStands
<1>2. ASSUME NEW k \in Callers, ResumeForks(k), call'[k].pc = "install"
      PROVE  call[k].slot \in missed'
  <2>1. Claiming(k) /\ call[k].pc = "fork"
    BY <1>0, <1>2, ResumeForksDoes
  <2>2. Archiving
    BY <1>0, <1>2, <2>1, ResumeForksDoes DEF Archiving, Claiming, NoCall
  <2> QED
    BY <1>0, <2>1, <2>2 DEF ArchiveCloses
<1> QED
  BY <1>1, <1>2

\* An archive goes on to reach what it did not miss.
LEMMA ArchiveReachesStep ==
    ASSUME SessionInv, [Next]_vars
    PROVE  ArchiveReaches'
<1>1. SUFFICES ASSUME NEW i \in Callers, call'[i].op = "archive",
                      NEW t \in Slots \ (missed' \cup overtaken'),
                      job'[i][t].step \notin {"mark", "stop", "failed"}, NEW d \in AliveIn(t)'
      PROVE  AboutToStop(d)'
  BY Zenon DEF ArchiveReaches
<1>2. Archiving'
  BY <1>1 DEF Archiving
<1>3. /\ d \in Children /\ child'[d] = "alive" /\ t \in Slots \ overtaken
      /\ child[d] = "alive" /\ slotOf[d] = t
  BY <1>1, <1>2, AliveThen, ForksAreMissed
<1>4. AboutToStop(d) \/ AboutToStop(d)'
  BY <1>1, <1>3, ArchiveReached
<1> QED
  BY <1>3, <1>4, AboutToStopStays

\* What an archive leaves is about to be stopped.
LEMMA ArchivedIsDeadStep ==
    ASSUME SessionInv, [Next]_vars
    PROVE  ArchivedIsDeadUnlessMissed'
<1>1. SUFFICES ASSUME mission' = "ended", NEW t \in Slots \ (missed' \cup overtaken'), NEW d \in AliveIn(t)'
      PROVE  AboutToStop(d)'
  BY Zenon DEF ArchivedIsDeadUnlessMissed
<1>2. Archiving'
  BY <1>1 DEF Archiving
<1>3. /\ d \in Children /\ child'[d] = "alive" /\ t \in Slots \ overtaken
      /\ child[d] = "alive" /\ slotOf[d] = t
  BY <1>1, <1>2, AliveThen, ForksAreMissed
<1>4. AboutToStop(d)
  BY <1>1, <1>3, ArchiveEnds
<1> QED
  BY <1>3, <1>4, AboutToStopStays

-----------------------------------------------------------------------------
(* The mark of a kill stays.                                                *)

\* A stop that failed stays counted.
LEMMA StuckGrows ==
    ASSUME SessionInv, [Next]_vars
    PROVE  stuck' = 0 => stuck = 0
<1>0. Sound
  BY DEF SessionInv, Sound
<1>1. ASSUME UNCHANGED <<stuck>>
      PROVE  stuck' = 0 => stuck = 0
  BY <1>0, <1>1 DEF Sound
<1>2. ASSUME NEW c \in Children, ChildEnds(c) \/ ForwarderTakesKilled(c) \/
                                 ForwarderWritesExit(c) \/ ForwarderForgets(c) \/
                                 ForwarderReaps(c) \/ ForwarderEnds(c)
      PROVE  stuck' = 0 => stuck = 0
  <2>1. UNCHANGED <<stuck>>
    BY <1>2 DEF ChildEnds, ForwarderTakesKilled, ForwarderWritesExit, ForwarderForgets,
                ForwarderReaps, ForwarderEnds, SpawnCancelled, Fork, Forwards, rows, handles,
                procs, bounds, history
  <2> QED
    BY <1>1, <2>1
<1>3. ASSUME NEW o \in Owners, NEW s \in Slots, KillMarks(o, s) \/ KillTakes(o, s) \/
                                                KillJoins(o, s) \/ KillClears(o, s)
      PROVE  stuck' = 0 => stuck = 0
  <2>1. UNCHANGED <<stuck>>
    BY <1>3 DEF KillMarks, KillTakes, KillJoins, KillClears, SpawnCancelled, Fork, Forwards, rows,
                handles, procs, bounds, history
  <2> QED
    BY <1>1, <2>1
<1>4. ASSUME SpawnNext \/ SpawnDrained \/ SpawnForks \/ SpawnCancelledInGate \/ SpawnFails \/
             SpawnReaps \/ SpawnReaped \/ SpawnInstalls \/ SpawnAttaches
      PROVE  stuck' = 0 => stuck = 0
  <2>1. UNCHANGED <<stuck>>
    BY <1>4 DEF SpawnNext, SpawnDrained, SpawnForks, SpawnCancelledInGate, SpawnFails, SpawnReaps,
                SpawnReaped, SpawnInstalls, SpawnAttaches, SpawnCancelled, Fork, Forwards, rows,
                handles, procs, bounds, history
  <2> QED
    BY <1>1, <2>1
<1>5. ASSUME NEW k \in Callers, NEW op \in {"stop", "archive"}, StopMission(k, op)
      PROVE  stuck' = 0 => stuck = 0
  <2>1. UNCHANGED <<stuck>>
    BY <1>5 DEF StopMission, SpawnCancelled, Fork, Forwards, rows, handles, procs, bounds, history
  <2> QED
    BY <1>1, <2>1
<1>6. ASSUME NEW k \in Callers, NEW s \in Slots, KillSession(k, s)
      PROVE  stuck' = 0 => stuck = 0
  <2>1. UNCHANGED <<stuck>>
    BY <1>6 DEF KillSession, SpawnCancelled, Fork, Forwards, rows, handles, procs, bounds, history
  <2> QED
    BY <1>1, <2>1
<1>7. ASSUME NEW k \in Callers, NEW op \in Ops, NEW s \in Slots, Resume(k, op, s)
      PROVE  stuck' = 0 => stuck = 0
  <2>1. UNCHANGED <<stuck>>
    BY <1>7 DEF Resume, SpawnCancelled, Fork, Forwards, rows, handles, procs, bounds, history
  <2> QED
    BY <1>1, <2>1
<1>8. ASSUME NEW k \in Callers, KillReturns(k) \/ RestartKilled(k) \/ ResumeInPlace(k) \/
                                ResumeForks(k) \/ ResumeInstalls(k) \/ ResumeReturns(k)
      PROVE  stuck' = 0 => stuck = 0
  <2>1. UNCHANGED <<stuck>>
    BY <1>8 DEF KillReturns, RestartKilled, ResumeInPlace, ResumeForks, ResumeInstalls,
                ResumeReturns, SpawnCancelled, Fork, Forwards, rows, handles, procs, bounds,
                history
  <2> QED
    BY <1>1, <2>1
<1>9. ASSUME NEW o \in Owners, NEW s \in Slots, KillStops(o, s)
      PROVE  stuck' = 0 => stuck = 0
  <2>1. stuck \in Nat
    BY <1>0, TypeParts DEF Sound, BoundsTyped
  <2> QED
    BY <1>0, <1>9, <2>1, KillStopsDoes
<1>10. ASSUME NEW c \in Children, ForwarderLeaves(c)
      PROVE  stuck' = 0 => stuck = 0
  <2>1. stuck \in Nat
    BY <1>0, TypeParts DEF Sound, BoundsTyped
  <2> QED
    BY <1>0, <1>10, <2>1, ForwarderLeavesDoes DEF Ended
<1>11. ASSUME SpawnRechecks
      PROVE  stuck' = 0 => stuck = 0
  <2>1. stuck \in Nat
    BY <1>0, TypeParts DEF Sound, BoundsTyped
  <2> QED
    BY <1>0, <1>11, <2>1, SpawnRechecksDoes DEF Ended
<1> QED
  BY <1>1, <1>2, <1>3, <1>4, <1>5, <1>6, <1>7, <1>8, <1>9, <1>10, <1>11
  DEF Next, Proceed, Go, Give, Spawning, Forwarder, Killing, vars, rows, handles, procs, bounds,
      history

\* A mark cleared too early stays counted.
LEMMA UnmarkedGrows ==
    ASSUME SessionInv, [Next]_vars
    PROVE  unmarked \subseteq unmarked'
<1>0. Sound
  BY DEF SessionInv, Sound
<1>1. ASSUME UNCHANGED <<unmarked>>
      PROVE  unmarked \subseteq unmarked'
  BY <1>0, <1>1 DEF Sound
<1>2. ASSUME NEW c \in Children, ChildEnds(c) \/ ForwarderLeaves(c) \/ ForwarderTakesKilled(c) \/
                                 ForwarderWritesExit(c) \/ ForwarderForgets(c) \/
                                 ForwarderReaps(c) \/ ForwarderEnds(c)
      PROVE  unmarked \subseteq unmarked'
  <2>1. UNCHANGED <<unmarked>>
    BY <1>2 DEF ChildEnds, ForwarderLeaves, ForwarderTakesKilled, ForwarderWritesExit,
                ForwarderForgets, ForwarderReaps, ForwarderEnds, SpawnCancelled, Fork, Forwards,
                rows, handles, procs, bounds, history
  <2> QED
    BY <1>1, <2>1
<1>3. ASSUME NEW o \in Owners, NEW s \in Slots, KillMarks(o, s) \/ KillStops(o, s) \/
                                                KillTakes(o, s) \/ KillJoins(o, s)
      PROVE  unmarked \subseteq unmarked'
  <2>1. UNCHANGED <<unmarked>>
    BY <1>3 DEF KillMarks, KillStops, KillTakes, KillJoins, SpawnCancelled, Fork, Forwards, rows,
                handles, procs, bounds, history
  <2> QED
    BY <1>1, <2>1
<1>4. ASSUME SpawnNext \/ SpawnDrained \/ SpawnForks \/ SpawnCancelledInGate \/ SpawnFails \/
             SpawnReaps \/ SpawnReaped \/ SpawnRechecks \/ SpawnInstalls \/ SpawnAttaches
      PROVE  unmarked \subseteq unmarked'
  <2>1. UNCHANGED <<unmarked>>
    BY <1>4 DEF SpawnNext, SpawnDrained, SpawnForks, SpawnCancelledInGate, SpawnFails, SpawnReaps,
                SpawnReaped, SpawnRechecks, SpawnInstalls, SpawnAttaches, SpawnCancelled, Fork,
                Forwards, rows, handles, procs, bounds, history
  <2> QED
    BY <1>1, <2>1
<1>5. ASSUME NEW k \in Callers, NEW op \in {"stop", "archive"}, StopMission(k, op)
      PROVE  unmarked \subseteq unmarked'
  <2>1. UNCHANGED <<unmarked>>
    BY <1>5 DEF StopMission, SpawnCancelled, Fork, Forwards, rows, handles, procs, bounds, history
  <2> QED
    BY <1>1, <2>1
<1>6. ASSUME NEW k \in Callers, NEW s \in Slots, KillSession(k, s)
      PROVE  unmarked \subseteq unmarked'
  <2>1. UNCHANGED <<unmarked>>
    BY <1>6 DEF KillSession, SpawnCancelled, Fork, Forwards, rows, handles, procs, bounds, history
  <2> QED
    BY <1>1, <2>1
<1>7. ASSUME NEW k \in Callers, NEW op \in Ops, NEW s \in Slots, Resume(k, op, s)
      PROVE  unmarked \subseteq unmarked'
  <2>1. UNCHANGED <<unmarked>>
    BY <1>7 DEF Resume, SpawnCancelled, Fork, Forwards, rows, handles, procs, bounds, history
  <2> QED
    BY <1>1, <2>1
<1>8. ASSUME NEW k \in Callers, KillReturns(k) \/ RestartKilled(k) \/ ResumeInPlace(k) \/
                                ResumeForks(k) \/ ResumeInstalls(k) \/ ResumeReturns(k)
      PROVE  unmarked \subseteq unmarked'
  <2>1. UNCHANGED <<unmarked>>
    BY <1>8 DEF KillReturns, RestartKilled, ResumeInPlace, ResumeForks, ResumeInstalls,
                ResumeReturns, SpawnCancelled, Fork, Forwards, rows, handles, procs, bounds,
                history
  <2> QED
    BY <1>1, <2>1
<1>9. ASSUME NEW o \in Owners, NEW s \in Slots, KillClears(o, s)
      PROVE  unmarked \subseteq unmarked'
  BY <1>0, <1>9, KillClearsDoes DEF Sound
<1> QED
  BY <1>1, <1>2, <1>3, <1>4, <1>5, <1>6, <1>7, <1>8, <1>9
  DEF Next, Proceed, Go, Give, Spawning, Forwarder, Killing, vars, rows, handles, procs, bounds,
      history

\* A process that gets its handle owes no mark, and no other of its session does.
LEMMA InstalledIsNotOwed ==
    ASSUME Sound, LatestOnly, MarksStay, stuck = 0, NEW t \in Slots \ overtaken, t \notin unmarked,
           NEW d \in Children, slotOf[d] = t, Owed(d)', NEW s \in Slots, NEW c \in Children, Handled(s, c),
           slotOf[c] = s, s = t => latest[t] = c /\ fwd[c].pc = "none", UNCHANGED <<child, slotOf, job>>
    PROVE  killed'[t]
<1>1. CASE d = c
  <2>1. fwd[c].pc = "none"
    BY <1>1
  <2>2. child[c] # "killed" /\ \A o \in Owners : job[o][t].step = "stop" => job[o][t].child # c
    BY <2>1 DEF Sound, Named, KillsNamed, JobsNamed
  <2> QED
    BY <1>1, <2>2 DEF Owed
<1>2. CASE d # c
  <2>1. Owed(d) /\ fwd[d] = fwd'[d]
    BY <1>2 DEF Owed, Handled
  <2>2. latest[t] = d /\ killed[t]
    BY <2>1 DEF LatestOnly, MarksStay, Owed, Busy
  <2> QED
    BY <1>2, <2>2 DEF Handled
<1> QED
  BY <1>1, <1>2

\* The mark of a kill stays as long as it is owed.
LEMMA MarkStays ==
    ASSUME SessionInv, [Next]_vars, NEW t \in Slots \ (overtaken \cup unmarked'),
           NEW d \in Children,
           slotOf[d] = t, slotOf'[d] = t, stuck' = 0, Owed(d)'
    PROVE  killed'[t]
<1>0. Sound /\ LatestOnly /\ PendingIsUnclaimed /\ SpawnedIsLatest /\ ClaimsClear /\ MarksStay
      /\ KilledIsNotACrash /\ stuck = 0 /\ unmarked \subseteq unmarked'
  BY StuckGrows, UnmarkedGrows DEF SessionInv, Sound, SpawnsFirst
<1>1. ASSUME UNCHANGED <<stuck, fwd, child, job, killed, unmarked>>
      PROVE  killed'[t]
  BY <1>0, <1>1 DEF MarksStay, Owed
<1>2. ASSUME SpawnNext \/ SpawnDrained \/ SpawnCancelledInGate \/ SpawnFails \/ SpawnAttaches
      PROVE  killed'[t]
  <2>1. UNCHANGED <<stuck, fwd, child, job, killed, unmarked>>
    BY <1>2 DEF SpawnNext, SpawnDrained, SpawnCancelledInGate, SpawnFails, SpawnAttaches,
                SpawnCancelled, Fork, Forwards, rows, handles, procs, bounds, history
  <2> QED
    BY <1>1, <2>1
<1>3. ASSUME NEW k \in Callers, ResumeInPlace(k) \/ ResumeReturns(k)
      PROVE  killed'[t]
  <2>1. UNCHANGED <<stuck, fwd, child, job, killed, unmarked>>
    BY <1>3 DEF ResumeInPlace, ResumeReturns, SpawnCancelled, Fork, Forwards, rows, handles,
                procs, bounds, history
  <2> QED
    BY <1>1, <2>1
<1>4. ASSUME NEW c \in Children, ChildEnds(c)
      PROVE  killed'[t]
  BY <1>0, <1>4, ChildEndsDoes DEF MarksStay, Owed
<1>5. ASSUME NEW o \in Owners, NEW s \in Slots, KillMarks(o, s)
      PROVE  killed'[t]
  BY <1>0, <1>5, KillMarksDoes DEF MarksStay, Owed
<1>6. ASSUME NEW o \in Owners, NEW s \in Slots, KillStops(o, s)
      PROVE  killed'[t]
  <2>1. Owed(d)
    BY <1>0, <1>6, KillStopsDoes DEF Owed, Sound, Named, JobsNamed
  <2> QED
    BY <1>0, <1>6, <2>1, KillStopsDoes DEF MarksStay
<1>7. ASSUME NEW o \in Owners, NEW s \in Slots, KillTakes(o, s)
      PROVE  killed'[t]
  BY <1>0, <1>7, KillTakesDoes DEF MarksStay, Owed
<1>8. ASSUME NEW o \in Owners, NEW s \in Slots, KillJoins(o, s)
      PROVE  killed'[t]
  BY <1>0, <1>8, KillJoinsDoes DEF MarksStay, Owed
<1>9. ASSUME NEW o \in Owners, NEW s \in Slots, KillClears(o, s)
      PROVE  killed'[t]
  <2>1. Owed(d)
    BY <1>0, <1>9, KillClearsDoes DEF Owed
  <2>2. killed[t]
    BY <1>0, <2>1 DEF MarksStay
  <2>3. t # s
    BY <1>0, <1>9, <2>2, KillClearsDoes
  <2> QED
    BY <1>0, <1>9, <2>2, <2>3, KillClearsDoes
<1>10. ASSUME NEW c \in Children, ForwarderLeaves(c)
      PROVE  killed'[t]
  <2>1. Owed(d)
    BY <1>0, <1>10, ForwarderLeavesDoes DEF Owed, Ended
  <2> QED
    BY <1>0, <1>10, <2>1, ForwarderLeavesDoes DEF MarksStay
<1>11. ASSUME NEW c \in Children, ForwarderTakesKilled(c)
      PROVE  killed'[t]
  <2>1. d # c /\ Owed(d)
    BY <1>0, <1>11, ForwarderTakesKilledDoes DEF Owed
  <2>2. slotOf[c] # t
    BY <1>0, <1>11, <2>1, ForwarderTakesKilledDoes DEF LatestOnly, Owed, Busy
  <2> QED
    BY <1>0, <1>11, <2>1, <2>2, ForwarderTakesKilledDoes DEF MarksStay
<1>12. ASSUME NEW c \in Children, ForwarderWritesExit(c)
      PROVE  killed'[t]
  BY <1>0, <1>12, ForwarderWritesExitDoes DEF MarksStay, Owed
<1>13. ASSUME NEW c \in Children, ForwarderForgets(c)
      PROVE  killed'[t]
  BY <1>0, <1>13, ForwarderForgetsDoes DEF MarksStay, Owed
<1>14. ASSUME NEW c \in Children, ForwarderReaps(c)
      PROVE  killed'[t]
  BY <1>0, <1>14, ForwarderReapsDoes, OwnersAre DEF MarksStay, Owed, OwnerKinds, SentAll
<1>15. ASSUME NEW c \in Children, ForwarderEnds(c)
      PROVE  killed'[t]
  BY <1>0, <1>15, ForwarderEndsDoes, OwnersAre DEF MarksStay, Owed, OwnerKinds
<1>16. ASSUME SpawnForks
      PROVE  killed'[t]
  <2>1. Owed(d)
    BY <1>0, <1>16, SpawnForksDoes DEF Owed, ForkedFor
  <2> QED
    BY <1>0, <1>16, <2>1, SpawnForksDoes DEF MarksStay
<1>17. ASSUME SpawnReaps
      PROVE  killed'[t]
  BY <1>0, <1>17, SpawnReapsDoes, OwnersAre DEF MarksStay, Owed, OwnerKinds, SentAll
<1>18. ASSUME SpawnReaped
      PROVE  killed'[t]
  BY <1>0, <1>18, SpawnReapedDoes, OwnersAre DEF MarksStay, Owed, OwnerKinds
<1>19. ASSUME SpawnRechecks
      PROVE  killed'[t]
  <2>1. Owed(d)
    BY <1>0, <1>19, SpawnRechecksDoes DEF Owed, Ended
  <2> QED
    BY <1>0, <1>19, <2>1, SpawnRechecksDoes DEF MarksStay
<1>20. ASSUME SpawnInstalls
      PROVE  killed'[t]
  <2>1. Handled(spawner.slot, spawner.child) /\ UNCHANGED <<child, slotOf, job>> /\ spawner.child \in Children /\ spawner.slot \in Slots /\ slotOf[spawner.child] = spawner.slot
        /\ (spawner.slot = t => latest[t] = spawner.child /\ fwd[spawner.child].pc = "none")
    BY <1>0, <1>20, SpawnInstallsDoes, SpawnedIs DEF Sound, Named, SpawnerNamed
  <2> QED
    BY <1>0, <2>1, InstalledIsNotOwed
<1>21. ASSUME NEW k \in Callers, NEW op \in {"stop", "archive"}, StopMission(k, op)
      PROVE  killed'[t]
  BY <1>0, <1>21, StopMissionDoes, OwnersAre DEF MarksStay, Owed, OwnerKinds, SentAll
<1>22. ASSUME NEW k \in Callers, NEW s \in Slots, KillSession(k, s)
      PROVE  killed'[t]
  BY <1>0, <1>22, KillSessionDoes, OwnersAre DEF MarksStay, Owed, OwnerKinds
<1>23. ASSUME NEW k \in Callers, NEW op \in Ops, NEW s \in Slots, Resume(k, op, s)
      PROVE  killed'[t]
  BY <1>0, <1>23, ResumeDoes, OwnersAre DEF MarksStay, Owed, OwnerKinds
<1>24. ASSUME NEW k \in Callers, KillReturns(k)
      PROVE  killed'[t]
  BY <1>0, <1>24, KillReturnsDoes, OwnersAre DEF MarksStay, Owed, OwnerKinds
<1>25. ASSUME NEW k \in Callers, RestartKilled(k)
      PROVE  killed'[t]
  BY <1>0, <1>25, RestartKilledDoes, OwnersAre DEF MarksStay, Owed, OwnerKinds
<1>26. ASSUME NEW k \in Callers, ResumeForks(k)
      PROVE  killed'[t]
  <2>1. CASE UNCHANGED child
    BY <1>0, <1>26, <2>1, ResumeForksDoes DEF MarksStay, Owed
  <2>2. CASE ForkedFor(call[k].slot, call'[k].child)
    <3>1. Owed(d)
      BY <1>0, <1>26, <2>2, ResumeForksDoes DEF Owed, ForkedFor
    <3> QED
      BY <1>0, <1>26, <3>1, ResumeForksDoes DEF MarksStay
  <2> QED
    BY <1>0, <1>26, <2>1, <2>2, ResumeForksDoes
<1>27. ASSUME NEW k \in Callers, ResumeInstalls(k)
      PROVE  killed'[t]
  <2>1. Handled(call[k].slot, call[k].child) /\ UNCHANGED <<child, slotOf, job>> /\ call[k].child \in Children /\ call[k].slot \in Slots /\ slotOf[call[k].child] = call[k].slot
        /\ (call[k].slot = t => latest[t] = call[k].child /\ fwd[call[k].child].pc = "none")
    BY <1>0, <1>27, ResumeInstallsDoes DEF Sound, Named, CallsNamed, ClaimsClear, ClearFor
  <2> QED
    BY <1>0, <2>1, InstalledIsNotOwed
<1> QED
  BY <1>1, <1>2, <1>3, <1>4, <1>5, <1>6, <1>7, <1>8, <1>9, <1>10, <1>11, <1>12, <1>13, <1>14,
     <1>15, <1>16, <1>17, <1>18, <1>19, <1>20, <1>21, <1>22, <1>23, <1>24, <1>25, <1>26, <1>27
  DEF Next, Proceed, Go, Give, Spawning, Forwarder, Killing, vars, rows, handles, procs, bounds,
      history

\* A process ended by its kill is told as killed.
LEMMA KilledIsTold ==
    ASSUME SessionInv, [Next]_vars, NEW t \in Slots \ (overtaken \cup unmarked'),
           NEW d \in Children,
           slotOf[d] = t, slotOf'[d] = t, stuck' = 0,
           child'[d] = "killed", fwd'[d].pc \in {"row", "forget", "reap", "reaping"}
    PROVE  fwd'[d].wasKilled
<1>0. Sound /\ LatestOnly /\ PendingIsUnclaimed /\ SpawnedIsLatest /\ ClaimsClear /\ MarksStay
      /\ KilledIsNotACrash /\ stuck = 0 /\ unmarked \subseteq unmarked'
  BY StuckGrows, UnmarkedGrows DEF SessionInv, Sound, SpawnsFirst
<1>1. ASSUME UNCHANGED <<stuck, child, fwd, unmarked>>
      PROVE  fwd'[d].wasKilled
  BY <1>0, <1>1 DEF KilledIsNotACrash
<1>2. ASSUME NEW o \in Owners, NEW s \in Slots, KillMarks(o, s) \/ KillTakes(o, s) \/
                                                KillJoins(o, s)
      PROVE  fwd'[d].wasKilled
  <2>1. UNCHANGED <<stuck, child, fwd, unmarked>>
    BY <1>2 DEF KillMarks, KillTakes, KillJoins, SpawnCancelled, Fork, Forwards, rows, handles,
                procs, bounds, history
  <2> QED
    BY <1>1, <2>1
<1>3. ASSUME SpawnNext \/ SpawnDrained \/ SpawnCancelledInGate \/ SpawnFails \/ SpawnReaps \/
             SpawnReaped \/ SpawnAttaches
      PROVE  fwd'[d].wasKilled
  <2>1. UNCHANGED <<stuck, child, fwd, unmarked>>
    BY <1>3 DEF SpawnNext, SpawnDrained, SpawnCancelledInGate, SpawnFails, SpawnReaps,
                SpawnReaped, SpawnAttaches, SpawnCancelled, Fork, Forwards, rows, handles, procs,
                bounds, history
  <2> QED
    BY <1>1, <2>1
<1>4. ASSUME NEW k \in Callers, NEW op \in {"stop", "archive"}, StopMission(k, op)
      PROVE  fwd'[d].wasKilled
  <2>1. UNCHANGED <<stuck, child, fwd, unmarked>>
    BY <1>4 DEF StopMission, SpawnCancelled, Fork, Forwards, rows, handles, procs, bounds, history
  <2> QED
    BY <1>1, <2>1
<1>5. ASSUME NEW k \in Callers, NEW s \in Slots, KillSession(k, s)
      PROVE  fwd'[d].wasKilled
  <2>1. UNCHANGED <<stuck, child, fwd, unmarked>>
    BY <1>5 DEF KillSession, SpawnCancelled, Fork, Forwards, rows, handles, procs, bounds, history
  <2> QED
    BY <1>1, <2>1
<1>6. ASSUME NEW k \in Callers, NEW op \in Ops, NEW s \in Slots, Resume(k, op, s)
      PROVE  fwd'[d].wasKilled
  <2>1. UNCHANGED <<stuck, child, fwd, unmarked>>
    BY <1>6 DEF Resume, SpawnCancelled, Fork, Forwards, rows, handles, procs, bounds, history
  <2> QED
    BY <1>1, <2>1
<1>7. ASSUME NEW k \in Callers, KillReturns(k) \/ RestartKilled(k) \/ ResumeInPlace(k) \/
                                ResumeReturns(k)
      PROVE  fwd'[d].wasKilled
  <2>1. UNCHANGED <<stuck, child, fwd, unmarked>>
    BY <1>7 DEF KillReturns, RestartKilled, ResumeInPlace, ResumeReturns, SpawnCancelled, Fork,
                Forwards, rows, handles, procs, bounds, history
  <2> QED
    BY <1>1, <2>1
<1>8. ASSUME NEW c \in Children, ChildEnds(c)
      PROVE  fwd'[d].wasKilled
  BY <1>0, <1>8, ChildEndsDoes DEF KilledIsNotACrash
<1>9. ASSUME NEW o \in Owners, NEW s \in Slots, KillStops(o, s)
      PROVE  fwd'[d].wasKilled
  <2>1. child[d] = "alive" => fwd[d].pc \notin Gone
    BY <1>0 DEF LatestOnly, Alive
  <2> QED
    BY <1>0, <1>9, <2>1, KillStopsDoes DEF KilledIsNotACrash, Gone
<1>10. ASSUME NEW o \in Owners, NEW s \in Slots, KillClears(o, s)
      PROVE  fwd'[d].wasKilled
  BY <1>0, <1>10, KillClearsDoes DEF KilledIsNotACrash
<1>11. ASSUME NEW c \in Children, ForwarderLeaves(c)
      PROVE  fwd'[d].wasKilled
  BY <1>0, <1>11, ForwarderLeavesDoes DEF KilledIsNotACrash, Ended
<1>12. ASSUME NEW c \in Children, ForwarderTakesKilled(c)
      PROVE  fwd'[d].wasKilled
  <2>1. d = c => Owed(c)
    BY <1>0, <1>12, ForwarderTakesKilledDoes DEF Owed
  <2> QED
    BY <1>0, <1>12, <2>1, ForwarderTakesKilledDoes DEF KilledIsNotACrash, MarksStay
<1>13. ASSUME NEW c \in Children, ForwarderWritesExit(c)
      PROVE  fwd'[d].wasKilled
  BY <1>0, <1>13, ForwarderWritesExitDoes DEF KilledIsNotACrash
<1>14. ASSUME NEW c \in Children, ForwarderForgets(c)
      PROVE  fwd'[d].wasKilled
  BY <1>0, <1>14, ForwarderForgetsDoes DEF KilledIsNotACrash
<1>15. ASSUME NEW c \in Children, ForwarderReaps(c)
      PROVE  fwd'[d].wasKilled
  BY <1>0, <1>15, ForwarderReapsDoes DEF KilledIsNotACrash
<1>16. ASSUME NEW c \in Children, ForwarderEnds(c)
      PROVE  fwd'[d].wasKilled
  BY <1>0, <1>16, ForwarderEndsDoes DEF KilledIsNotACrash
<1>17. ASSUME SpawnForks
      PROVE  fwd'[d].wasKilled
  BY <1>0, <1>17, SpawnForksDoes DEF KilledIsNotACrash, ForkedFor
<1>18. ASSUME SpawnRechecks
      PROVE  fwd'[d].wasKilled
  BY <1>0, <1>18, SpawnRechecksDoes DEF KilledIsNotACrash, Ended
<1>19. ASSUME SpawnInstalls
      PROVE  fwd'[d].wasKilled
  BY <1>0, <1>19, SpawnInstallsDoes DEF KilledIsNotACrash, Handled
<1>20. ASSUME NEW k \in Callers, ResumeForks(k)
      PROVE  fwd'[d].wasKilled
  BY <1>0, <1>20, ResumeForksDoes DEF KilledIsNotACrash, ForkedFor
<1>21. ASSUME NEW k \in Callers, ResumeInstalls(k)
      PROVE  fwd'[d].wasKilled
  BY <1>0, <1>21, ResumeInstallsDoes DEF KilledIsNotACrash, Handled
<1> QED
  BY <1>1, <1>2, <1>3, <1>4, <1>5, <1>6, <1>7, <1>8, <1>9, <1>10, <1>11, <1>12, <1>13, <1>14,
     <1>15, <1>16, <1>17, <1>18, <1>19, <1>20, <1>21
  DEF Next, Proceed, Go, Give, Spawning, Forwarder, Killing, vars, rows, handles, procs, bounds,
      history

\* A forwarder starts for a process that has been forked.
LEMMA ForwardedWasBorn ==
    ASSUME SessionInv, [Next]_vars, NEW d \in Children, fwd'[d].pc # "none"
    PROVE  child[d] # "none"
<1>0. Sound /\ Numbered
      /\ \A c \in Children : slotOf[c] \in Slots \/ fwd[c].pc # "none" => child[c] # "none"
  BY LifecycleAssumption DEF LifecycleAssumption, SessionInv, Sound, Numbered
<1>1. ASSUME UNCHANGED <<fwd>>
      PROVE  child[d] # "none"
  BY <1>0, <1>1 DEF Numbered
<1>2. ASSUME NEW c \in Children, ChildEnds(c)
      PROVE  child[d] # "none"
  <2>1. UNCHANGED <<fwd>>
    BY <1>2 DEF ChildEnds, SpawnCancelled, Fork, Forwards, rows, handles, procs, bounds, history
  <2> QED
    BY <1>1, <2>1
<1>3. ASSUME NEW o \in Owners, NEW s \in Slots, KillMarks(o, s) \/ KillStops(o, s) \/
                                                KillTakes(o, s) \/ KillJoins(o, s) \/
                                                KillClears(o, s)
      PROVE  child[d] # "none"
  <2>1. UNCHANGED <<fwd>>
    BY <1>3 DEF KillMarks, KillStops, KillTakes, KillJoins, KillClears, SpawnCancelled, Fork,
                Forwards, rows, handles, procs, bounds, history
  <2> QED
    BY <1>1, <2>1
<1>4. ASSUME SpawnNext \/ SpawnDrained \/ SpawnForks \/ SpawnCancelledInGate \/ SpawnFails \/
             SpawnReaps \/ SpawnReaped \/ SpawnRechecks \/ SpawnAttaches
      PROVE  child[d] # "none"
  <2>1. UNCHANGED <<fwd>>
    BY <1>4 DEF SpawnNext, SpawnDrained, SpawnForks, SpawnCancelledInGate, SpawnFails, SpawnReaps,
                SpawnReaped, SpawnRechecks, SpawnAttaches, SpawnCancelled, Fork, Forwards, rows,
                handles, procs, bounds, history
  <2> QED
    BY <1>1, <2>1
<1>5. ASSUME NEW k \in Callers, NEW op \in {"stop", "archive"}, StopMission(k, op)
      PROVE  child[d] # "none"
  <2>1. UNCHANGED <<fwd>>
    BY <1>5 DEF StopMission, SpawnCancelled, Fork, Forwards, rows, handles, procs, bounds, history
  <2> QED
    BY <1>1, <2>1
<1>6. ASSUME NEW k \in Callers, NEW s \in Slots, KillSession(k, s)
      PROVE  child[d] # "none"
  <2>1. UNCHANGED <<fwd>>
    BY <1>6 DEF KillSession, SpawnCancelled, Fork, Forwards, rows, handles, procs, bounds, history
  <2> QED
    BY <1>1, <2>1
<1>7. ASSUME NEW k \in Callers, NEW op \in Ops, NEW s \in Slots, Resume(k, op, s)
      PROVE  child[d] # "none"
  <2>1. UNCHANGED <<fwd>>
    BY <1>7 DEF Resume, SpawnCancelled, Fork, Forwards, rows, handles, procs, bounds, history
  <2> QED
    BY <1>1, <2>1
<1>8. ASSUME NEW k \in Callers, KillReturns(k) \/ RestartKilled(k) \/ ResumeInPlace(k) \/
                                ResumeForks(k) \/ ResumeReturns(k)
      PROVE  child[d] # "none"
  <2>1. UNCHANGED <<fwd>>
    BY <1>8 DEF KillReturns, RestartKilled, ResumeInPlace, ResumeForks, ResumeReturns,
                SpawnCancelled, Fork, Forwards, rows, handles, procs, bounds, history
  <2> QED
    BY <1>1, <2>1
<1>9. ASSUME NEW c \in Children, ForwarderLeaves(c)
      PROVE  child[d] # "none"
  BY <1>0, <1>9, ForwarderLeavesDoes DEF Numbered
<1>10. ASSUME NEW c \in Children, ForwarderTakesKilled(c)
      PROVE  child[d] # "none"
  BY <1>0, <1>10, ForwarderTakesKilledDoes DEF Numbered
<1>11. ASSUME NEW c \in Children, ForwarderWritesExit(c)
      PROVE  child[d] # "none"
  BY <1>0, <1>11, ForwarderWritesExitDoes DEF Numbered
<1>12. ASSUME NEW c \in Children, ForwarderForgets(c)
      PROVE  child[d] # "none"
  BY <1>0, <1>12, ForwarderForgetsDoes DEF Numbered
<1>13. ASSUME NEW c \in Children, ForwarderReaps(c)
      PROVE  child[d] # "none"
  BY <1>0, <1>13, ForwarderReapsDoes DEF Numbered
<1>14. ASSUME NEW c \in Children, ForwarderEnds(c)
      PROVE  child[d] # "none"
  BY <1>0, <1>14, ForwarderEndsDoes DEF Numbered
<1>15. ASSUME SpawnInstalls
      PROVE  child[d] # "none"
  BY <1>0, <1>15, SpawnInstallsDoes DEF Handled, Sound, Named, SpawnerNamed
<1>16. ASSUME NEW k \in Callers, ResumeInstalls(k)
      PROVE  child[d] # "none"
  BY <1>0, <1>16, ResumeInstallsDoes DEF Handled, Sound, Named, CallsNamed
<1> QED
  BY <1>1, <1>2, <1>3, <1>4, <1>5, <1>6, <1>7, <1>8, <1>9, <1>10, <1>11, <1>12, <1>13, <1>14,
     <1>15, <1>16
  DEF Next, Proceed, Go, Give, Spawning, Forwarder, Killing, vars, rows, handles, procs, bounds,
      history

\* A process that has a forwarder was there before the step.
LEMMA ForwardedBefore ==
    ASSUME SessionInv, [Next]_vars, NEW d \in Children, fwd'[d].pc # "none",
           slotOf'[d] \in Slots \ overtaken'
    PROVE  slotOf[d] = slotOf'[d] /\ slotOf'[d] \notin overtaken
<1>1. Sound /\ Grows /\ Numbered /\ TypeOK' /\ overtaken \subseteq overtaken'
  BY GrowsStep, OvertakenGrows, TypesStep DEF SessionInv, Sound
<1>2. slotOf[d] \in Slots
  BY <1>1, ForwardedWasBorn DEF Numbered, Born
<1> QED
  BY <1>1, <1>2 DEF Grows

\* A mark that is owed stays.
LEMMA MarksStayStep ==
    ASSUME SessionInv, [Next]_vars
    PROVE  MarksStay'
<1>1. SUFFICES ASSUME stuck' = 0, NEW d \in Children, Owed(d)',
                      slotOf'[d] \in Slots \ (overtaken' \cup unmarked')
      PROVE  killed'[slotOf'[d]]
  BY Zenon DEF MarksStay
<1>2. fwd'[d].pc # "none"
  BY <1>1 DEF Owed
<1>3. slotOf[d] = slotOf'[d] /\ slotOf'[d] \notin overtaken
  BY <1>1, <1>2, ForwardedBefore
<1> QED
  BY <1>1, <1>3, MarkStays

\* A killed process is told as killed by its forwarder.
LEMMA KilledIsNotACrashStep ==
    ASSUME SessionInv, [Next]_vars
    PROVE  KilledIsNotACrash'
<1>1. SUFFICES ASSUME stuck' = 0, NEW d \in Children, slotOf'[d] \notin overtaken' \cup unmarked',
                      child'[d] = "killed", fwd'[d].pc \in {"row", "forget", "reap", "reaping"}
      PROVE  fwd'[d].wasKilled
  BY Zenon DEF KilledIsNotACrash
<1>2. Numbered' /\ fwd'[d].pc # "none"
  BY <1>1, NumberedStep
<1>3. slotOf'[d] \in Slots
  BY <1>1, <1>2 DEF Numbered, Born
<1>4. slotOf[d] = slotOf'[d] /\ slotOf'[d] \notin overtaken
  BY <1>1, <1>2, <1>3, ForwardedBefore
<1> QED
  BY <1>1, <1>3, <1>4, KilledIsTold

-----------------------------------------------------------------------------
(* The theorems.                                                            *)

\* Before the first command nothing has been forked, claimed or killed.
Fresh ==
    /\ mission = "running"
    /\ \A s \in Slots : handle[s] = 0 /\ ~killed[s]
    /\ \A c \in Children : child[c] = "none" /\ slotOf[c] = None /\ fwd[c] = NoFwd
    /\ \A k \in Callers : call[k] = NoCall
    /\ \A o \in Owners, s \in Slots : job[o][s] = NoJob
    /\ spawner.slot = None /\ spawner.todo \subseteq Slots
    /\ \A s \in spawner.todo : row[s] = "running"
    /\ \/ spawner.pc = "next" /\ cancel = "clear"
       \/ spawner.pc = "done" /\ cancel = "none" /\ spawner.todo = {}

\* The initial states are fresh and typed.
LEMMA InitIsFresh == Init => TypeOK /\ Fresh
<1>1. SUFFICES ASSUME Init PROVE TypeOK /\ Fresh
  OBVIOUS
<1>2. /\ 0 \in 0 .. MaxChildren /\ 0 \in 0 .. MaxMoves /\ None \in Slots \cup {None}
      /\ NoFwd \in FwdType /\ NoCall \in CallType /\ NoJob \in JobType
  BY LifecycleAssumption DEF LifecycleAssumption, NoFwd, NoCall, NoJob, FwdType, CallType,
     JobType, Steps
<1>3. PICK crew \in SUBSET Slots :
          \/ /\ row = [s \in Slots |-> IF s \in crew THEN "running" ELSE "none"]
             /\ cancel = "clear"
             /\ spawner = [pc |-> "next", todo |-> crew, slot |-> None, child |-> 0]
          \/ /\ row = [s \in Slots |-> IF s \in crew THEN "exited" ELSE "none"]
             /\ cancel = "none"
             /\ spawner = [pc |-> "done", todo |-> {}, slot |-> None, child |-> 0]
  BY <1>1 DEF Init
<1>4. RowsTyped /\ CancelTyped /\ SpawnerTyped
  BY <1>1, <1>2, <1>3 DEF Init, RowsTyped, CancelTyped, SpawnerTyped, SpawnerType, Statuses
<1>5. HandleTyped /\ MarksTyped /\ ClaimsTyped /\ ProcsTyped /\ ChildTyped /\ StopTyped
  BY <1>1, <1>2 DEF Init, HandleTyped, MarksTyped, ClaimsTyped, ProcsTyped, ChildTyped, StopTyped,
     ChildStates
<1>6. FwdTyped /\ CallTyped /\ JobTyped /\ BoundsTyped /\ HistoryTyped
  BY <1>1, <1>2 DEF Init, FwdTyped, CallTyped, JobTyped, BoundsTyped, HistoryTyped
<1>7. TypeOK
  BY <1>4, <1>5, <1>6, TypeParts
<1>8. Fresh
  BY <1>1, <1>3 DEF Init, Fresh
<1> QED
  BY <1>7, <1>8

\* What is fresh satisfies the invariant.
LEMMA SessionInit == Init => SessionInv
<1>1. SUFFICES ASSUME Init PROVE SessionInv
  OBVIOUS
<1>2. /\ TypeOK /\ Fresh /\ None \notin Slots /\ 0 \in 0 .. MaxChildren
  BY <1>1, InitIsFresh, LifecycleAssumption DEF LifecycleAssumption
<1>3. Numbered
  <2>1. Born = {} /\ {} = 1 .. 0
    BY <1>2 DEF Fresh, Born
  <2> QED
    BY <1>2, <2>1 DEF Numbered, Fresh, NoFwd
<1>4. Named
  BY <1>2 DEF Fresh, NoCall, NoJob, Named, HandlesNamed, JobsNamed, KillsNamed, SpawnerNamed,
     CallsNamed
<1>5. ClaimsAreSingle /\ \A k \in Callers : ~Claiming(k) /\ call[k].op = "none"
  BY <1>2 DEF Fresh, NoCall, ClaimsAreSingle, Claiming
<1>6. SpawnerStands /\ \A s \in Slots : spawner.slot # s
  BY <1>2 DEF Fresh, SpawnerStands
<1>7. SpawnsFirst
  <2>1. \A s \in Slots : ~Claimed(s)
    BY <1>5 DEF Claimed
  <2>2. \A s \in Slots, c \in Children : slotOf[c] # s
    BY <1>2 DEF Fresh
  <2> QED
    BY <1>2, <1>6, <2>1, <2>2 DEF Fresh, SpawnsFirst, PendingIsUnclaimed, ToSpawnIsUntouched,
       ToSpawn,
                         Untouched, SpawnedIsLatest
<1>8. LatestOnly /\ ClaimsClear
  BY <1>2, <1>5 DEF Fresh, LatestOnly, ClaimsClear
<1>9. \A s \in Slots : AliveIn(s) = {}
  BY <1>2 DEF Fresh, AliveIn, Alive
<1>10. ExitIsTheTruth /\ EveryChildHasItsHandle /\ ArchivedIsDeadUnlessMissed
  BY <1>9 DEF ExitIsTheTruth, EveryChildHasItsHandle, ArchivedIsDeadUnlessMissed
<1>11. ArchiveCloses /\ ArchiveReaches
  BY <1>2, <1>5 DEF Fresh, Archiving, ArchiveCloses, ArchiveReaches
<1>12. MarksStay /\ KilledIsNotACrash
  BY <1>2 DEF Fresh, NoFwd, MarksStay, Owed, KilledIsNotACrash
<1> QED
  BY <1>2, <1>3, <1>4, <1>5, <1>6, <1>7, <1>8, <1>10, <1>11, <1>12 DEF SessionInv

\* Every step keeps the invariant.
LEMMA SessionStep == SessionInv /\ [Next]_vars => SessionInv'
<1>1. SUFFICES ASSUME SessionInv, [Next]_vars PROVE SessionInv'
  OBVIOUS
<1>2. TypeOK'
  BY <1>1, TypesStep DEF SessionInv, Sound
<1>3. Numbered' /\ Named' /\ ClaimsAreSingle' /\ SpawnerStands'
  BY <1>1, NumberedStep, NamedStep, ClaimsAreSingleStep, SpawnerStandsStep
<1>4. SpawnsFirst' /\ LatestOnly' /\ ClaimsClear'
  BY <1>1, SpawnsFirstStep, LatestOnlyStep, ClaimsClearStep
<1>5. ExitIsTheTruth' /\ EveryChildHasItsHandle'
  BY <1>1, ExitIsTheTruthStep, EveryChildHasItsHandleStep
<1>6. ArchiveCloses' /\ ArchiveReaches' /\ ArchivedIsDeadUnlessMissed'
  BY <1>1, ArchiveClosesStep, ArchiveReachesStep, ArchivedIsDeadStep
<1>7. MarksStay' /\ KilledIsNotACrash'
  BY <1>1, MarksStayStep, KilledIsNotACrashStep
<1> QED
  BY <1>2, <1>3, <1>4, <1>5, <1>6, <1>7 DEF SessionInv

\* SessionInv is inductive: whatever commands overlap with the spawn thread, the
\* forwarders and processes that end by themselves.
THEOREM SessionInvariance == Spec => []SessionInv
  BY SessionInit, SessionStep, PTL DEF Spec

\* Types.
THEOREM SessionIsTyped == Spec => []TypeOK
<1>1. SessionInv => TypeOK
  BY DEF SessionInv
<1> QED
  BY <1>1, SessionInvariance, PTL

\* The claim of a resume and the order of the spawn thread leave a session at most
\* one process, unless a resume overtook an exit or a spawn.
THEOREM OneChild == Spec => []OneChildUnlessOvertaken
<1>1. ASSUME SessionInv, NEW s \in Slots \ overtaken
      PROVE  Cardinality(AliveIn(s)) <= 1
  <2>1. AliveIn(s) \subseteq {latest[s]}
    BY <1>1 DEF SessionInv, LatestOnly, AliveIn
  <2>2. CASE AliveIn(s) = {}
    BY <2>2, FS_EmptySet
  <2>3. CASE AliveIn(s) = {latest[s]}
    <3>1. Cardinality({latest[s]}) = 1
      BY FS_Singleton, Zenon
    <3> QED
      BY <2>3, <3>1
  <2>4. AliveIn(s) = {} \/ AliveIn(s) = {latest[s]}
    BY <2>1, Zenon
  <2> QED
    BY <2>2, <2>3, <2>4
<1>2. SessionInv => OneChildUnlessOvertaken
  BY <1>1 DEF OneChildUnlessOvertaken
<1> QED
  BY <1>2, SessionInvariance, PTL

\* A row that says stopped or crashed says so of a process that is gone.
THEOREM ExitsAreTrue == Spec => []ExitIsTheTruth
<1>1. SessionInv => ExitIsTheTruth
  BY DEF SessionInv
<1> QED
  BY <1>1, SessionInvariance, PTL

\* An archived mission leaves no process but those about to be stopped and those its
\* kill could not see.
THEOREM ArchivesEnd == Spec => []ArchivedIsDeadUnlessMissed
<1>1. SessionInv => ArchivedIsDeadUnlessMissed
  BY DEF SessionInv
<1> QED
  BY <1>1, SessionInvariance, PTL

\* Outside of a fork every process is known to the handle and to the runtime, so
\* that a kill reaches it.
THEOREM ChildrenHaveHandles == Spec => []EveryChildHasItsHandle
<1>1. SessionInv => EveryChildHasItsHandle
  BY DEF SessionInv
<1> QED
  BY <1>1, SessionInvariance, PTL

\* A process that its kill ended is recorded as stopped, not as crashed.
THEOREM KillsAreNotCrashes == Spec => []KilledIsNotACrash
<1>1. SessionInv => KilledIsNotACrash
  BY DEF SessionInv
<1> QED
  BY <1>1, SessionInvariance, PTL
=============================================================================
