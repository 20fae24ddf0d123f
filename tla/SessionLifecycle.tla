-------------------------- MODULE SessionLifecycle --------------------------
(***************************************************************************)
(* The sessions of one mission from fork to exit                           *)
(* (crates/runner-backend/src/session/manager/{spawn,lifecycle,output,mod} *)
(* .rs, the spawn thread of ops/mission.rs, session/pty_runtime.rs).       *)
(* Four kinds of threads share a slot's row, handle and killed mark:       *)
(*   - commands: stop and archive of the mission, kill, resume and restart *)
(*     of one session;                                                     *)
(*   - the spawn thread of mission_start, slot after slot;                 *)
(*   - one forwarder per child, which writes the exit and, if nobody       *)
(*     killed the child, reaps the other sessions of the mission;          *)
(*   - the threads of kill_many, one per session to kill.                  *)
(*                                                                         *)
(* A step is what runs under one hold of the session's state lock, one     *)
(* call of the runtime or one write of the row.  What the delivery gate    *)
(* does when a handle comes and goes is DeliveryGate.                      *)
(***************************************************************************)
EXTENDS Integers, FiniteSets

CONSTANTS
    Slots,        \* slots a crew may have, one session row each
    None,         \* no slot
    Callers,      \* threads that run commands
    Ops,          \* commands they may give
    MaxChildren,  \* bound: processes forked
    MaxMoves      \* bound: slots of the crew, commands given and stops that fail,
                  \*   together: the smaller the crew the more happens to it

LifecycleAssumption ==
    /\ IsFiniteSet(Slots) /\ None \notin Slots
    /\ Callers \cap (0 .. MaxChildren) = {}
    /\ Ops \subseteq {"stop", "archive", "kill", "resume", "restart"}
    /\ MaxChildren \in Nat /\ MaxMoves \in Nat
ASSUME LifecycleAssumption

Children == 1 .. MaxChildren
Spawner  == 0                        \* the spawn thread, as the owner of kills
Owners   == Callers \cup {Spawner} \cup Children  \* a child stands for its forwarder

VARIABLES
    mission,    \* "running" or "ended"
    row,        \* status of the session row: "running", "exited" for stopped and
                \*   crashed, which no thread tells apart, "none" outside the crew
    handle,     \* child of the installed SessionHandle, 0 when None
    forwarder,  \* child whose forwarder the handle would join, 0 when None
    killed,     \* the mark of an intentional kill
    resuming,   \* the claim of a resume
    latest,     \* child that the runtime knows by the session's id
    child,      \* what became of each process
    slotOf,     \* slot a process was forked for
    stop,       \* stop flag of each child's output stream
    fwd,        \* forwarder of each child: pc, killed mark taken
    cancel,     \* pending_mission_cancels: "none", "clear" or "set"
    spawner,    \* spawn thread: slots to go, pc, slot, child
    call,       \* command each caller runs
    job,        \* kill of a session by an owner: step, child it marked or joins
    given,      \* commands given
    stuck,      \* stops that failed and left the child alive
    missed,     \* history: slots past their last check when mission_archive
                \*   looked for handles, or resumed while it ran
    overtaken,  \* history: slots that a resume claimed or wrote while an
                \*   earlier child was exiting or a fork was still pending
    unmarked    \* history: slots whose mark a kill cleared before a forwarder took it

rows    == <<mission, row>>
handles == <<handle, forwarder, killed, resuming>>
procs   == <<latest, child, slotOf, stop>>
bounds  == <<given, stuck>>
history == <<missed, overtaken, unmarked>>
vars    == <<rows, handles, procs, fwd, cancel, spawner, call, job, bounds, history>>

NoJob  == [step |-> "none", child |-> 0]
NoCall == [op |-> "none", pc |-> "idle", slot |-> None, child |-> 0]
NoFwd  == [pc |-> "none", wasKilled |-> FALSE]

Init ==
    /\ mission = "running"
    /\ handle = [s \in Slots |-> 0] /\ forwarder = [s \in Slots |-> 0]
    /\ killed = [s \in Slots |-> FALSE] /\ resuming = [s \in Slots |-> FALSE]
    /\ latest = [s \in Slots |-> 0]
    /\ child = [c \in Children |-> "none"]
    /\ slotOf = [c \in Children |-> None]
    /\ stop = [c \in Children |-> FALSE]
    /\ fwd = [c \in Children |-> NoFwd]
    /\ \E crew \in SUBSET Slots \ {{}} :
          \/ /\ row = [s \in Slots |-> IF s \in crew THEN "running" ELSE "none"]
             /\ cancel = "clear"  \* mission_start
             /\ spawner = [pc |-> "next", todo |-> crew, slot |-> None, child |-> 0]
          \/ /\ row = [s \in Slots |-> IF s \in crew THEN "exited" ELSE "none"]
             /\ cancel = "none"   \* the app has started again
             /\ spawner = [pc |-> "done", todo |-> {}, slot |-> None, child |-> 0]
    /\ call = [k \in Callers |-> NoCall]
    /\ job = [o \in Owners |-> [s \in Slots |-> NoJob]]
    /\ given = 0 /\ stuck = 0 /\ missed = {} /\ overtaken = {} /\ unmarked = {}

-----------------------------------------------------------------------------
(* Processes.                                                               *)

Alive(c)   == child[c] = "alive"
Born       == {c \in Children : child[c] # "none"}
NextChild  == Cardinality(Born) + 1

\* Forks still owed to threads that are past the point of refusing.
Reserved == Cardinality({k \in Callers : call[k].pc \in {"killing", "row", "fork"}
                                         /\ call[k].op \in {"resume", "restart"}})
            + Cardinality(spawner.todo) + (IF spawner.pc = "gate" THEN 1 ELSE 0)

\* The runtime's spawn: a new process takes the session's id.
Fork(s) ==
    /\ NextChild \in Children
    /\ child' = [child EXCEPT ![NextChild] = "alive"]
    /\ slotOf' = [slotOf EXCEPT ![NextChild] = s]
    /\ latest' = [latest EXCEPT ![s] = NextChild]
    /\ UNCHANGED stop

MutStopLatest(s, end) == UNCHANGED child  \* returns before the process is dead

\* The runtime's stop, of whatever process has the session's id now.
StopLatest(s, end) ==
    child' = [c \in Children |-> IF c = latest[s] /\ Alive(c) THEN end ELSE child[c]]

Crew == {s \in Slots : row[s] # "none"}
Room == Cardinality(Crew) + given + stuck < MaxMoves

\* The child outlives the stop request.
StopFails(s) ==
    /\ Room /\ latest[s] # 0 /\ Alive(latest[s])
    /\ stuck' = stuck + 1

\* A best-effort stop failed: nobody looks after the process any more.
Strays(s) == child' = [child EXCEPT ![latest[s]] = "stray"]

ChildEnds(c) ==
    /\ Alive(c)
    /\ child' = [child EXCEPT ![c] = "dead"]
    /\ UNCHANGED <<rows, handles, latest, slotOf, stop, fwd, cancel, spawner, call, job,
                   bounds, history>>

-----------------------------------------------------------------------------
(* kill and kill_many.  Each session an owner kills is a job of its own.    *)

Step(o, s, step, c) == job' = [job EXCEPT ![o][s] = [step |-> step, child |-> c]]
Finished(o) == \A s \in Slots : job[o][s].step \in {"none", "ok", "failed"}
Succeeded(o) == \A s \in Slots : job[o][s].step \in {"none", "ok"}
Cleared(o) == [job EXCEPT ![o] = [s \in Slots |-> NoJob]]

MutMarks(o, s) ==  \* the kill is not marked as intended
    IF handle[s] = 0
    THEN /\ Step(o, s, "ok", 0) /\ UNCHANGED killed
    ELSE /\ Step(o, s, "stop", handle[s]) /\ UNCHANGED killed

\* kill's first step; a session without a handle is taken for dead.
Marks(o, s) ==
    IF handle[s] = 0
    THEN /\ Step(o, s, "ok", 0) /\ UNCHANGED killed
    ELSE /\ Step(o, s, "stop", handle[s]) /\ killed' = [killed EXCEPT ![s] = TRUE]

KillMarks(o, s) ==
    /\ job[o][s].step = "mark"
    /\ Marks(o, s)
    /\ UNCHANGED <<rows, handle, forwarder, resuming, procs, fwd, cancel, spawner, call,
                   bounds, history>>

KillStops(o, s) ==
    /\ job[o][s].step = "stop"
    /\ \/ /\ StopLatest(s, IF latest[s] = job[o][s].child THEN "killed" ELSE "dead")
          /\ Step(o, s, "take", 0)
          /\ UNCHANGED <<killed, stuck>>
       \/ /\ StopFails(s)
          /\ Step(o, s, "failed", 0)
          /\ killed' = [killed EXCEPT ![s] = FALSE]
          /\ UNCHANGED child
    /\ UNCHANGED <<rows, handle, forwarder, resuming, latest, slotOf, stop, fwd, cancel,
                   spawner, call, given, history>>

KillTakes(o, s) ==
    /\ job[o][s].step = "take"
    /\ IF handle[s] = 0
       THEN /\ Step(o, s, "ok", 0) /\ UNCHANGED <<handle, forwarder, stop>>
       ELSE /\ Step(o, s, IF forwarder[s] = 0 THEN "clear" ELSE "join", forwarder[s])
            /\ stop' = [stop EXCEPT ![handle[s]] = TRUE]
            /\ handle' = [handle EXCEPT ![s] = 0]
            /\ forwarder' = [forwarder EXCEPT ![s] = 0]
    /\ UNCHANGED <<rows, killed, resuming, latest, child, slotOf, fwd, cancel, spawner,
                   call, bounds, history>>

KillJoins(o, s) ==
    /\ job[o][s].step = "join"
    /\ fwd[job[o][s].child].pc = "done"
    /\ Step(o, s, "clear", 0)
    /\ UNCHANGED <<rows, handles, procs, fwd, cancel, spawner, call, bounds, history>>

KillClears(o, s) ==
    /\ job[o][s].step = "clear"
    /\ Step(o, s, "ok", 0)
    /\ killed' = [killed EXCEPT ![s] = FALSE]
    /\ unmarked' = IF killed[s] THEN unmarked \cup {s} ELSE unmarked
    /\ UNCHANGED <<rows, handle, forwarder, resuming, procs, fwd, cancel, spawner, call,
                   bounds, missed, overtaken>>

Killing(o, s) == KillMarks(o, s) \/ KillStops(o, s) \/ KillTakes(o, s)
                 \/ KillJoins(o, s) \/ KillClears(o, s)

MutKillAll(o) ==  \* the flag of the spawn thread is not raised
    /\ cancel' = cancel
    /\ job' = [job EXCEPT ![o] = [s \in Slots |->
                   IF handle[s] = 0 THEN NoJob ELSE [step |-> "mark", child |-> 0]]]

\* kill_all_for_mission: raise the flag of the spawn thread, then kill every
\* session with a handle.
KillAll(o) ==
    /\ cancel' = IF cancel = "clear" THEN "set" ELSE cancel
    /\ job' = [job EXCEPT ![o] = [s \in Slots |->
                   IF handle[s] = 0 THEN NoJob ELSE [step |-> "mark", child |-> 0]]]

MutHasSiblings == cancel # "none"  \* only the slots to come

\* reap_live_mission_siblings: nothing is done unless a session of the mission
\* has a handle or the spawn thread has not ended.
HasSiblings == (\E s \in Slots : handle[s] # 0) \/ cancel # "none"
Reap(o) == /\ mission = "running" /\ HasSiblings
           /\ KillAll(o)

-----------------------------------------------------------------------------
(* A session's handle.                                                      *)

InstallHandle(s, c) ==
    /\ handle' = [handle EXCEPT ![s] = c]
    /\ forwarder' = [forwarder EXCEPT ![s] = 0]
    /\ killed' = [killed EXCEPT ![s] = FALSE]
    /\ fwd' = [fwd EXCEPT ![c].pc = "drain"]

\* install_forwarder: into whatever handle is there by now.
InstallForwarder(s, c) ==
    forwarder' = [forwarder EXCEPT ![s] = IF handle[s] = 0 THEN 0 ELSE c]

-----------------------------------------------------------------------------
(* The forwarder of child c.                                                *)

Forwards(c, from, to) == fwd[c].pc = from /\ fwd' = [fwd EXCEPT ![c].pc = to]

\* Out of the loop, by the stop flag or the end of the output, with a last stop
\* of whatever process has the session's id.
ForwarderLeaves(c) ==
    LET s == slotOf[c] IN
    /\ fwd[c].pc = "drain"
    /\ stop[c] \/ ~Alive(c)
    /\ fwd' = [fwd EXCEPT ![c].pc = "take"]
    /\ \/ StopLatest(s, "dead") /\ UNCHANGED stuck
       \/ StopFails(s) /\ Strays(s)
    /\ UNCHANGED <<rows, handles, latest, slotOf, stop, cancel, spawner, call, job, given,
                   history>>

ForwarderTakesKilled(c) ==
    /\ fwd[c].pc = "take"
    /\ fwd' = [fwd EXCEPT ![c].pc = "row", ![c].wasKilled = killed[slotOf[c]]]
    /\ killed' = [killed EXCEPT ![slotOf[c]] = FALSE]
    /\ UNCHANGED <<rows, handle, forwarder, resuming, procs, cancel, spawner, call, job,
                   bounds, history>>

ForwarderWritesExit(c) ==
    /\ Forwards(c, "row", "forget")
    /\ row' = [row EXCEPT ![slotOf[c]] = "exited"]
    /\ UNCHANGED <<mission, handles, procs, cancel, spawner, call, job, bounds, history>>

\* The handle is compared by runtime and session id, which every child of the
\* session shares.
ForwarderForgets(c) ==
    /\ fwd[c].pc = "forget"
    /\ fwd' = [fwd EXCEPT ![c].pc = IF fwd[c].wasKilled THEN "done" ELSE "reap"]
    /\ handle' = [handle EXCEPT ![slotOf[c]] = 0]
    /\ forwarder' = [forwarder EXCEPT ![slotOf[c]] = 0]
    /\ UNCHANGED <<rows, killed, resuming, procs, cancel, spawner, call, job, bounds, history>>

ForwarderReaps(c) ==
    /\ \/ Reap(c) /\ Forwards(c, "reap", "reaping")
       \/ /\ ~(mission = "running" /\ HasSiblings)
          /\ Forwards(c, "reap", "done")
          /\ UNCHANGED <<cancel, job>>
    /\ UNCHANGED <<rows, handles, procs, spawner, call, bounds, history>>

ForwarderEnds(c) ==
    /\ Finished(c) /\ Forwards(c, "reaping", "done")
    /\ job' = Cleared(c)
    /\ UNCHANGED <<rows, handles, procs, cancel, spawner, call, bounds, history>>

Forwarder(c) ==
    ForwarderLeaves(c) \/ ForwarderTakesKilled(c)
    \/ ForwarderWritesExit(c) \/ ForwarderForgets(c) \/ ForwarderReaps(c) \/ ForwarderEnds(c)

-----------------------------------------------------------------------------
(* The spawn thread.                                                        *)

SpawnTo(pc) == spawner' = [spawner EXCEPT !.pc = pc]
SpawnOn     == spawner' = [spawner EXCEPT !.pc = "next", !.slot = None, !.child = 0]

MutSpawnCancelled(s) ==  \* the row is left as it is
    UNCHANGED <<rows, handles, fwd, cancel, call, job, given, history>>

\* A cancelled slot: the thread writes the row, whatever it says by now.
SpawnCancelled(s) ==
    /\ row' = [row EXCEPT ![s] = "exited"]
    /\ UNCHANGED <<mission, handles, fwd, cancel, call, job, given, history>>

\* The next slot, with a first look at the flag.
SpawnNext ==
    /\ spawner.pc = "next"
    /\ \E s \in spawner.todo :
          LET todo == spawner.todo \ {s} IN
          \/ /\ cancel = "set" /\ SpawnCancelled(s)
             /\ spawner' = [spawner EXCEPT !.todo = todo]
          \/ /\ cancel # "set"
             /\ spawner' = [spawner EXCEPT !.pc = "gate", !.slot = s, !.todo = todo]
             /\ UNCHANGED <<rows, handles, fwd, cancel, call, job, given, history>>
    /\ UNCHANGED <<procs, stuck>>

SpawnDrained ==
    /\ spawner.pc = "next" /\ spawner.todo = {}
    /\ SpawnTo("done") /\ cancel' = "none"
    /\ UNCHANGED <<rows, handles, procs, fwd, call, job, bounds, history>>

\* After the launch gate: another look at the flag, then the fork.
SpawnForks ==
    /\ spawner.pc = "gate" /\ cancel # "set"
    /\ Fork(spawner.slot)
    /\ spawner' = [spawner EXCEPT !.pc = "recheck", !.child = NextChild]
    /\ UNCHANGED <<rows, handles, fwd, cancel, call, job, bounds, history>>

SpawnCancelledInGate ==
    /\ spawner.pc = "gate" /\ cancel = "set"
    /\ SpawnCancelled(spawner.slot) /\ SpawnOn
    /\ UNCHANGED <<procs, stuck>>

\* The runtime cannot fork: the row ends and the mission is reaped.
SpawnFails ==
    /\ spawner.pc = "gate" /\ cancel # "set"
    /\ row' = [row EXCEPT ![spawner.slot] = "exited"]
    /\ SpawnTo("reap")
    /\ UNCHANGED <<mission, handles, procs, fwd, cancel, call, job, bounds, history>>

SpawnReaps ==
    /\ spawner.pc = "reap"
    /\ \/ Reap(Spawner) /\ SpawnTo("reaping")
       \/ ~(mission = "running" /\ HasSiblings) /\ SpawnOn /\ UNCHANGED <<cancel, job>>
    /\ UNCHANGED <<rows, handles, procs, fwd, call, bounds, history>>

SpawnReaped ==
    /\ spawner.pc = "reaping" /\ Finished(Spawner)
    /\ SpawnOn /\ job' = Cleared(Spawner)
    /\ UNCHANGED <<rows, handles, procs, fwd, cancel, call, bounds, history>>

\* The last look at the flag.
SpawnRechecks ==
    /\ spawner.pc = "recheck"
    /\ \/ /\ cancel = "set" /\ SpawnCancelled(spawner.slot) /\ SpawnOn
          /\ \/ StopLatest(spawner.slot, "dead") /\ UNCHANGED stuck
             \/ StopFails(spawner.slot) /\ Strays(spawner.slot)
       \/ /\ cancel # "set" /\ SpawnTo("install")
          /\ UNCHANGED <<rows, handles, child, fwd, cancel, call, job, bounds, history>>
    /\ UNCHANGED <<latest, slotOf, stop>>

SpawnInstalls ==
    /\ spawner.pc = "install" /\ SpawnTo("attach")
    /\ InstallHandle(spawner.slot, spawner.child)
    /\ UNCHANGED <<rows, resuming, procs, cancel, call, job, bounds, history>>

SpawnAttaches ==
    /\ spawner.pc = "attach" /\ SpawnOn
    /\ InstallForwarder(spawner.slot, spawner.child)
    /\ UNCHANGED <<rows, handle, killed, resuming, procs, fwd, cancel, call, job, bounds, history>>

Spawning == SpawnNext \/ SpawnDrained \/ SpawnForks \/ SpawnCancelledInGate \/ SpawnFails
            \/ SpawnReaps \/ SpawnReaped \/ SpawnRechecks \/ SpawnInstalls \/ SpawnAttaches

-----------------------------------------------------------------------------
(* Commands.  A command that is refused changes nothing.                    *)

Gives(k, op, s, pc) ==
    /\ op \in Ops /\ call[k].pc = "idle" /\ Room
    /\ given' = given + 1
    /\ call' = [call EXCEPT ![k] = [op |-> op, pc |-> pc, slot |-> s, child |-> 0]]

CallTo(k, pc) == call' = [call EXCEPT ![k].pc = pc]
Returns(k)    == call' = [call EXCEPT ![k] = NoCall]

\* Slots whose process no kill of the mission can see yet.
InFlight == {call[k].slot : k \in {j \in Callers :
                 call[j].op \in {"resume", "restart"}
                 /\ call[j].pc \in {"killing", "row", "fork", "install"}}}
            \cup (IF spawner.pc = "install" THEN {spawner.slot} ELSE {})

\* mission_stop, and the first half of mission_archive.
StopMission(k, op) ==
    /\ Gives(k, op, None, "killing")
    /\ KillAll(k)
    /\ missed' = IF op = "archive" THEN missed \cup InFlight ELSE missed
    /\ UNCHANGED <<rows, handles, procs, fwd, spawner, stuck, overtaken, unmarked>>

KillSession(k, s) ==
    /\ s \in Crew
    /\ Gives(k, "kill", s, "killing")
    /\ Marks(k, s)
    /\ UNCHANGED <<rows, handle, forwarder, resuming, procs, fwd, cancel, spawner, stuck,
                   history>>

\* The kills of the command are over; mission_archive goes on to end the
\* mission unless one failed.
KillReturns(k) ==
    /\ call[k].op \in {"stop", "archive", "kill"} /\ Finished(k)
    /\ mission' = IF call[k].op = "archive" /\ Succeeded(k) THEN "ended" ELSE mission
    /\ Returns(k) /\ job' = Cleared(k)
    /\ UNCHANGED <<row, handles, procs, fwd, cancel, spawner, bounds, history>>

\* Slots where an earlier child is on its way out, or a fork is pending.
Exiting(s) == \E c \in Children : /\ slotOf[c] = s
                                  /\ \/ fwd[c].pc \in {"take", "row", "forget"}
                                     \/ (fwd[c].pc = "drain" /\ (stop[c] \/ ~Alive(c)))
Pending(s) == spawner.pc # "done"
              /\ (s \in spawner.todo
                  \/ (s = spawner.slot /\ spawner.pc \in {"gate", "recheck", "install", "attach"}))
Overtakes(s) == overtaken' = IF Exiting(s) \/ Pending(s) THEN overtaken \cup {s} ELSE overtaken

MutMayResume(op, s) ==  \* no claim
    /\ s \in Crew /\ mission = "running"
    /\ op = "restart" \/ row[s] # "running"

MutMayResumeRunning(op, s) ==  \* whatever the row says
    s \in Crew /\ ~resuming[s] /\ mission = "running"

MayResume(op, s) ==
    /\ s \in Crew /\ ~resuming[s] /\ mission = "running"
    /\ op = "restart" \/ row[s] # "running"

\* session_resume, and session_restart, which kills a running session first:
\* the claim, then the checks of the row and the mission.
Resume(k, op, s) ==
    /\ op \in {"resume", "restart"}
    /\ MayResume(op, s)
    /\ Cardinality(Born) + Reserved < MaxChildren
    /\ resuming' = [resuming EXCEPT ![s] = TRUE]
    /\ IF op = "restart" /\ row[s] = "running"
       THEN /\ Gives(k, op, s, "killing") /\ Step(k, s, "mark", 0)
       ELSE /\ Gives(k, op, s, "row") /\ UNCHANGED job
    /\ Overtakes(s)
    /\ missed' = IF \E j \in Callers : call[j].op = "archive" THEN missed \cup {s} ELSE missed
    /\ UNCHANGED <<rows, handle, forwarder, killed, procs, fwd, cancel, spawner, stuck, unmarked>>

RestartKilled(k) ==
    /\ call[k].op = "restart" /\ call[k].pc = "killing" /\ Finished(k)
    /\ IF Succeeded(k)
       THEN CallTo(k, "row") /\ UNCHANGED resuming
       ELSE Returns(k) /\ resuming' = [resuming EXCEPT ![call[k].slot] = FALSE]
    /\ job' = Cleared(k)
    /\ UNCHANGED <<rows, handle, forwarder, killed, procs, fwd, cancel, spawner, bounds, history>>

ResumeInPlace(k) ==
    LET s == call[k].slot IN
    /\ call[k].pc = "row"
    /\ row' = [row EXCEPT ![s] = "running"]
    /\ CallTo(k, "fork")
    /\ Overtakes(s)
    /\ UNCHANGED <<mission, handles, procs, fwd, cancel, spawner, job, bounds, missed, unmarked>>

ResumeForks(k) ==
    LET s == call[k].slot IN
    /\ call[k].pc = "fork"
    /\ \/ /\ Fork(s)
          /\ call' = [call EXCEPT ![k].pc = "install", ![k].child = NextChild]
          /\ UNCHANGED <<row, resuming>>
       \/ /\ row' = [row EXCEPT ![s] = "exited"]
          /\ Returns(k) /\ resuming' = [resuming EXCEPT ![s] = FALSE]
          /\ UNCHANGED procs
    /\ UNCHANGED <<mission, handle, forwarder, killed, fwd, cancel, spawner, job, bounds, history>>

ResumeInstalls(k) ==
    /\ call[k].pc = "install" /\ CallTo(k, "attach")
    /\ InstallHandle(call[k].slot, call[k].child)
    /\ UNCHANGED <<rows, resuming, procs, cancel, spawner, job, bounds, history>>

ResumeReturns(k) ==
    /\ call[k].pc = "attach" /\ Returns(k)
    /\ InstallForwarder(call[k].slot, call[k].child)
    /\ resuming' = [resuming EXCEPT ![call[k].slot] = FALSE]
    /\ UNCHANGED <<rows, handle, killed, procs, fwd, cancel, spawner, job, bounds, history>>

Give(k) == \/ \E op \in {"stop", "archive"} : StopMission(k, op)
           \/ \E s \in Slots : KillSession(k, s)
           \/ \E s \in Slots, op \in Ops : Resume(k, op, s)
Go(k)   == KillReturns(k) \/ RestartKilled(k) \/ ResumeInPlace(k) \/ ResumeForks(k)
           \/ ResumeInstalls(k) \/ ResumeReturns(k)

-----------------------------------------------------------------------------
\* The threads that are under way; the rest of Next is up to the user and to
\* the children.
Proceed ==
    \/ \E k \in Callers : Go(k)
    \/ Spawning
    \/ \E c \in Children : Forwarder(c)
    \/ \E o \in Owners, s \in Slots : Killing(o, s)

Next == Proceed \/ (\E k \in Callers : Give(k)) \/ (\E c \in Children : ChildEnds(c))

Spec == Init /\ [][Next]_vars

\* As long as a thread can go on, one does.  No thread can go on for ever, so
\* that this weak assumption is enough.
FairSpec == Spec /\ WF_vars(Proceed)

-----------------------------------------------------------------------------
Statuses == {"none", "running", "exited"}
Steps    == {"none", "mark", "stop", "take", "join", "clear", "ok", "failed"}

TypeOK ==
    /\ mission \in {"running", "ended"} /\ row \in [Slots -> Statuses]
    /\ handle \in [Slots -> 0 .. MaxChildren] /\ forwarder \in [Slots -> 0 .. MaxChildren]
    /\ killed \in [Slots -> BOOLEAN] /\ resuming \in [Slots -> BOOLEAN]
    /\ latest \in [Slots -> 0 .. MaxChildren] /\ slotOf \in [Children -> Slots \cup {None}]
    /\ child \in [Children -> {"none", "alive", "dead", "killed", "stray"}]
    /\ stop \in [Children -> BOOLEAN]
    /\ fwd \in [Children -> [pc : {"none", "drain", "take", "row", "forget", "reap",
                                   "reaping", "done"}, wasKilled : BOOLEAN]]
    /\ cancel \in {"none", "clear", "set"}
    /\ spawner \in [pc : {"next", "gate", "recheck", "install", "attach", "reap", "reaping",
                          "done"}, todo : SUBSET Slots, slot : Slots \cup {None}, child : 0 .. MaxChildren]
    /\ call \in [Callers -> [op : Ops \cup {"none"}, slot : Slots \cup {None}, child : 0 .. MaxChildren,
                  pc : {"idle", "killing", "row", "fork", "install", "attach"}]]
    /\ job \in [Owners -> [Slots -> [step : Steps, child : 0 .. MaxChildren]]]
    /\ given \in 0 .. MaxMoves /\ stuck \in 0 .. MaxMoves
    /\ missed \subseteq Slots /\ overtaken \subseteq Slots /\ unmarked \subseteq Slots

\* The properties are about these; a process that outlived a failed best-effort stop
\* (Strays) is not among them, whatever they say of "no process" or "gone".
AliveIn(s) == {c \in Children : slotOf[c] = s /\ Alive(c)}

\* "Refuse rather than racing two PTY spawns against the same row" (spawn.rs):
\* a session has at most one process, whoever forks and kills meanwhile, unless
\* a resume overtook the exit of the child before, or the spawn thread.  Strays are
\* not counted.
OneChildUnlessOvertaken ==
    \A s \in Slots \ overtaken : Cardinality(AliveIn(s)) <= 1

\* A row that says stopped or crashed says so of a process that is gone, or that
\* strays since its last stop failed.
ExitIsTheTruth ==
    \A s \in Slots \ overtaken : row[s] = "exited" => AliveIn(s) = {}

\* The spawn thread is about to stop the process at its last look at the flag, or
\* its forwarder at the stop flag.
AboutToStop(c) == \/ spawner.pc = "recheck" /\ spawner.child = c /\ cancel = "set"
                  \/ stop[c] /\ fwd[c].pc = "drain"

\* "No live sessions after we return" (lifecycle.rs): what is left of an archived
\* mission is at most a process that is about to be stopped, in every slot but
\* those that were past the last check of their fork when the archive looked for
\* handles, or were resumed while it ran.  Strays outlive the mission.
ArchivedIsDeadUnlessMissed ==
    mission = "ended" =>
        \A s \in Slots \ (missed \cup overtaken) : \A c \in AliveIn(s) : AboutToStop(c)

\* Every process can be killed: outside of a fork it is the one the handle and
\* the runtime both know, or its forwarder is about to stop it.  A stray can not.
EveryChildHasItsHandle ==
    \A s \in Slots \ overtaken : \A c \in AliveIn(s) :
        /\ latest[s] = c
        /\ \/ handle[s] = c
           \/ AboutToStop(c)
           \/ spawner.child = c /\ spawner.pc \in {"recheck", "install"}
           \/ \E k \in Callers : call[k].child = c /\ call[k].pc = "install"

\* A process ended by the kill that marked it is recorded as stopped, not as
\* crashed, and does not take the rest of the mission with it, if no stop failed
\* and no kill cleared the mark too early.
KilledIsNotACrash ==
    stuck = 0 => \A c \in Children :
        /\ slotOf[c] \notin overtaken \cup unmarked /\ child[c] = "killed"
        /\ fwd[c].pc \in {"row", "forget", "reap", "reaping"}
        => fwd[c].wasKilled

\* All or nothing: when a session ends by itself, every other session that has its
\* handle by then is ended too, unless the mission is over or a stop failed.
SiblingsAreReaped ==
    \A c \in Children : \A d \in Children \ {c} :
        (fwd[c].pc = "row" /\ ~fwd[c].wasKilled /\ Alive(d)
         /\ \E s \in Slots : handle[s] = d)
            ~> (~Alive(d) \/ mission = "ended" \/ stuck > 0)

\* A row that says running has, or will get, a process or another status.
RowsSettle ==
    \A s \in Slots : row[s] = "running" ~> (row[s] # "running" \/ AliveIn(s) # {})
=============================================================================
