# Formal model of runners

Runner starts coding agents (Claude Code, Codex, ...) as child processes in
pseudo-terminals, groups them into missions, and lets them and the human talk
to each other: through an append-only event log per mission, and by typing
into each other's composer. This directory holds TLA+ specifications of the
parts of that program where several threads and processes meet, TLC
configurations that check them on small instances, and TLAPS proofs.

Paths below are relative to `src/`; `backend` stands for
`crates/runner-backend/src`.

## 1. Inventory

| Component | State | Operations | Hard part |
|---|---|---|---|
| **Session manager, delivery gate** (`backend/session/manager/{mod,output}.rs`) | per session: `DeliveryGateState` (generation, in_flight, tickets), observed composer, byte latch, recency stamps | `reserve_delivery`, `inject_reserved`, `finish_delivery`, `inject_direct_stdin`, `report_input_state`, `install_handle` | human keystrokes and router deliveries share one composer; a delivery is two writes 80 ms apart; the child may be replaced in between |
| **Session manager, lifecycle** (`manager/{spawn,lifecycle,output}.rs`) | handle, killed and resuming flags, pending mission cancels, session rows | `spawn`, `resume`, `kill`, forwarder exit path, `reap_live_mission_siblings` | kill, exit and resume of one id race; the runtime knows a child by its session id only |
| **Router** (`backend/router/mod.rs`, `handlers.rs`) | outbox per session, live and pending sessions, pending asks, status, unread counts, replay high-water mark | `handle_event`, `inject_delivery_at`, `flush_outbox`, `session_delivery_event`, timers, `reconstruct_from_log` | timers with generations, calls made without the lock, replay |
| **Event log** (`crates/runner-core/src/event_log`) | one NDJSON file per mission, an id generator per process | `open`, `append`, `try_append`, `read_from_lossy` | several processes; torn lines; clocks; readers without a lock |
| **Event bus** (`backend/event_bus/mod.rs`) | offset, one `RunnerInbox` per handle | `tick`, `handle_inbox_read`, `mount`, `unmount` | reports out of order; replay on mount |
| **CLI** (`cli/src/msg.rs`, `signal.rs`) | none of its own | `msg post`, `msg read`, `signal` | each call is a process; a read and its report are two steps |
| **Input tracker** (`crates/runner-terminal/src/input_state.rs`) | what the composer is believed to hold | `observe_input`, `observe_output` | reports are sent after the lock is released |
| **Missions** (`backend/ops/mission.rs`, `repo/mission.rs`) | mission rows, terminal events, the registries of buses and routers, tree nodes | start, attach, stop, archive, unarchive, delete, reset, fork | rollback when one of several steps fails; no lock but the database's |
| **Slots and crews** (`ops/slot.rs`, `ops/runner.rs`, `repo/slot.rs`) | slot positions, handles, the lead, engine and model | create, update, delete, `set_lead`, reorder; cascades of a runner or a crew | decisions by rows read before the transaction |
| **Node tree** (`ops/node.rs`, `repo/node.rs`) | tabs, pins, order, unread completions | move, pin, reorder, repair, `record_session_completion`, `node_mark_viewed` | a completion and a look at the tab overlap |
| **Windows** (`windows.rs`, `ops/window.rs`) and **pane layout** (`runner-app/src/pane_layout.rs`) | focus, displayed subjects; panes and drawers | `report_subjects`, `mark_focused`, `mark_blurred`; split, close | read by the completion check of another thread |
| **Session keys** (`session/codex_capture.rs`, `claude_rekey.rs`) | the agent's own conversation id, claims of the process | capture, re-key | a late capture of an earlier launch, a neighbour's conversation |
| PTY runtime, database, MCP server, skills, updater, views, packaging | - | - | operating system, SQL, formatting; not core logic |

How they interact:

```
 CLI process --append--> event log <--append-- session forwarder, router, UI
                             |
                          bus tick (one thread per mission)
                             |--> inbox projection --> unread counts
                             '--> router.handle_event --> outbox
                                       |  reserve / body / 80 ms / Enter / finish
 human key --> inject_direct_stdin --> delivery gate --> PTY of the agent
                                       |
                  InputCleared, Drained, Finished, Respawned, Exited --> router
```

The bus thread calls the router's handlers synchronously. The router holds its
state lock while it reserves for a dispatch, and does not while it reserves for
a flush. The session manager notifies the router after it released its locks,
from whichever thread caused the event; that thread may hold the router's own
lock, in one case, and then hangs (`outbox_jams`). Lock order is gate, then session;
neither is held during a notification.

Correctness, component by component: a body is followed by its own Enter and
by nothing else; input that queues is answered; a thread of a dead child is
harmless; a delivery is in one place at a time, in dispatch order, and is
flushed when the composer is free; a restart repeats no delivery, and an answer
goes to whoever asked, once; the file is a log that grows in id order,
and every committed event reaches the bus; unread counts are exact, and nothing
is read that was not shown; a session has one process, which can be killed, and
its row tells the truth about its end; a crew has one lead and dense positions;
a mission ends once, and its runtime and its node follow its row; a finished
turn is announced, and not on a tab in view; no session gets another's
conversation.

The hazards behind these properties are listed with their lines in
`PROJECT.json`.

## 2. Modules

| Module | Models | Stands on |
|---|---|---|
| `ComposerLock` | what the gate promises: a lock with an epoch that counts waiting input | |
| `DeliveryGate` | the gate itself: tickets, condition variable, cancelled set, generation | implements `ComposerLock` |
| `DeliveryGate_proofs` | proofs about it | `DeliveryGate` |
| `RouterOutbox` | one slot's outbox and all its threads | extends `ComposerLock` |
| `RouterOutbox_proofs` | proofs about it | `RouterOutbox` |
| `RouterDispatch` | the router's handlers, pending asks, and what a reopen folds from the log | assumes what `AppendLog` says of ids |
| `RouterDispatch_proofs` | proofs about it | `RouterDispatch` |
| `SessionLifecycle` | spawn thread, kill, resume, exit and reaping of a mission's sessions | |
| `SessionLifecycle_proofs` | proofs about it | `SessionLifecycle` |
| `AppendLog` | what the event log promises: a growing log in id order, projected prefix by prefix | |
| `EventLog` | the file, its writers and the bus's reader | implements `AppendLog` |
| `EventLog_proofs` | proofs about it, the refinement among them | `EventLog`, `AppendLog` |
| `Inbox` | `msg post` and `msg read`, and the inbox projection | assumes what `AppendLog` says of ids |
| `Inbox_proofs` | proofs about it | `Inbox` |
| `Crew` | the slots of a crew under concurrent editors | |
| `Missions` | a mission's row, terminal event, runtime and node under concurrent clients | leaves the sessions to `SessionLifecycle` |
| `Attention` | busy and idle chats, the completion check, windows, and the unread dot | |
| `KeyCapture`, `KeyCapture_proofs` | the watchers that find the conversation keys of Codex sessions | |
| `Workspace_proofs` | proofs about crews, missions and attention | `Crew`, `Missions`, `Attention` |
| `MCRouterInbox` | `RouterOutbox` and `Inbox` side by side | both |
| `MCIndicators` | `RouterOutbox` and `Attention` side by side | both |
| `MCMission` | `SessionLifecycle` and `Missions` side by side | both |
| `MCWorkspace` | `Crew`, `SessionLifecycle` and `KeyCapture` side by side | all three |
| `MC...` | instances for TLC | |

### ComposerLock and DeliveryGate

The gate's mutex and the session's mutex are both held across each check and
the PTY write it allows, so each operation of the code is one action.
`gate` is `DeliveryGateState`; `session` the draft-related part of
`SessionState`; `typer[t]` and `router[r]` are the program counters of threads
in `inject_direct_stdin` and `start_reserved_delivery`; `last` remembers the
last write the current child received. An input is `InputAtOnce`, or
`InputQueues` followed by `InputServed`, `InputTimesOut` or `InputAbandoned`; a
delivery is `Reserve`, `WriteBody`, `WriteEnter`, `FinishDelivery`. Writes may
fail. Time is abstracted to two flags ("within two seconds of the last input",
"... of the last observed submit") that `Elapse` lowers. `InstallHandle` may
run over a handle that has not been forgotten yet, as the code allows.

Approximations: a handle and the PTY behind it change in one step (the window
between `runtime.spawn` and `install_handle` is in `SessionLifecycle`), the gate's entry outlives the run
(`prune_empty_session_state` drops an entry only when the session never had
output), and tickets and generations are unbounded naturals rather than `u64`.

Out of scope: on Windows, the first turn of an agent started through a batch
wrapper is typed by a thread of its own (`deliver_windows_batch_first_turn` and
`inject_paste`, `backend/session/manager/output.rs` lines 286-345 and 599-624),
which writes body and Enter 120 ms apart and asks the gate for neither. What is
shown of body and Enter here does not cover it, nor deliveries that meet it.

### RouterOutbox

One mission slot. The threads of the router are a bag of records: senders
between body and Enter, the retry, flush and cool-down timers, and carriers of a
notification. Every acquisition of the state lock, and every call to the
session manager made without it, is a step; so a flush is `Check`,
`ReserveForFlush`, then `Granted` or `Refused`. `Inject` is
`inject_delivery_at`, all branches. `pill` is what the UI was last told by
`router/delivery-blocked`. `reserve_delivery` never returns `Err`, so the
corresponding arm of `flush_outbox` is not modelled; `synthesize_wake_busy` is
part of `WriteBody`.

A flush that reserved and finds nothing left gives the composer back while it
holds the state lock (`GrantedNothing`). If its token is still good, the session
manager notifies the router on the same thread, and that thread waits for the
lock it holds: it is `jammed` from then on, and every step that takes the state
lock has the guard `~Jammed`. Threads that do not need it go on to write their
bodies and Enters. In the code the lock belongs to all slots of the mission, so
all of its deliveries stop; here there is one slot.

`Prompt` states how threads are scheduled. With `Prompt = FALSE` any thread may
be preempted for as long as it likes. With `TRUE`, sleeps of at least 80 ms end
only when all running threads have come to rest, or wait for a lock that a
jammed thread will not release.

### RouterDispatch

`log` is the mission's file, an event's id its position. Agents and the human
append at any time (`Post`, `AskHuman`, `Answer`); the bus thread takes the
event at `cursor` and runs its handler, which may itself append: `DispatchAsk`
writes the card, `RecordPendingAsk` files it under `pending`, two steps because
the first takes the file lock and the second the router's; `DispatchResponse`
takes the asker out; `HandOver` gives one delivery to an outbox. `Ignore` covers
what is at or below the mark and what the router only observes. `AppEnds` is the
end of the process between any two of these; `ReconstructFromLog` and `MountBus`
are the two halves of `ensure_mission_router_mounted`, between which others
append. `since` and `handed` are history: where the log stood when the router
was built, and what was handed over in the whole life of the mission.

Approximations. What an outbox does with a delivery is `RouterOutbox`. A tick
reads a snapshot of the file and dispatches it; here the cursor walks the file,
which visits the same events in the same order. The recipients of a broadcast
are taken in any order instead of roster order. An append fails when the log is
full. `runner_status` events are left out (they change nothing modelled here).
Only the router writes `human_question`: the CLI would accept it from an agent
(`cli/src/signal.rs` line 27), which the hazards list. Its `mission_warning` is
the router's alone. An id is read back as it was committed, which is so of a bus
that locks; what a spliced line would do to one that does not is left to `EventLog`.

### AppendLog and EventLog

A line is two cells, a beginning with the id and an end with the newline, which
is enough for a line to be torn, repaired, rolled back and glued. Writers have an id
generator each, draw any clock value, and may fail or die between any two
steps. The bus reads piece by piece while writers cut and grow the file.
`reader.locks`, chosen once, is `cfg(windows)`. `try_append` differs from `append` only in
giving up when the lock is taken, which is no step.

A reader without the lock may have the beginning of a line in its buffer when
that is rolled back or cut off, and then read the end of the line written over
it (`Spliced`). Envelopes share their fields and the places of these, so that
whether such a line parses depends on where the cut was; `EndTick` lets any of
them parse, as an event with the id of its beginning. `origin` is history: whose
end each delivered event has. Two things are approximated: a cut inside the id
itself, which gives an id of neither line, counts as one of the beginning's, and
all lines are cut in the same place, so that lines of different lengths, whose
mixture begins or ends in the middle of another, are not followed.

### Inbox

Ids are positions in the log (that is what `EventLog` establishes for a reader
that locks; a spliced line is not among the inputs here). A read is
`Read` (snapshot and print), later `AppendInboxRead` or `InboxReadLost`; two
reads of one handle may overlap. Reports come from `msg read` only: an
`inbox_read` that somebody writes by hand, with `runner signal` and any `up_to`,
is outside of the model. `Tick` projects one event. `Remount` starts a
fresh projection.

### SessionLifecycle

One mission's sessions. `row`, `handle`, `forwarder`, `killed` and `resuming`
are a session's row and `SessionState`; `latest`, `child` and `slotOf` what the
runtime and the operating system know; `spawner` is the spawn thread of
`mission_start` with its flag `cancel`; `fwd[c]` the forwarder of child `c`;
`call` what each caller is in; `job[o][s]` the kill of session `s` that
`kill_many` runs for owner `o` (a caller, the spawn thread, or a forwarder that
reaps). The actions follow the code one hold of a lock at a time: `kill` is
`KillMarks`, `KillStops`, `KillTakes`, `KillJoins`, `KillClears`; a spawn is
`SpawnNext`, `SpawnForks`, `SpawnRechecks`, `SpawnInstalls`, `SpawnAttaches`; an
exit `ForwarderLeaves`, `ForwarderTakesKilled`, `ForwarderWritesExit`,
`ForwarderForgets`, `ForwarderReaps`; a resume `Resume`, `RestartKilled`,
`ResumeInPlace`, `ResumeForks`, `ResumeInstalls`, `ResumeReturns`.

Four history variables record what the code lets happen, so that the properties
can say what is true otherwise: `overtaken` (a resume came while an earlier
child was still exiting, or while the spawn thread had the slot before it),
`missed` (a slot that was past its last check when archive looked for handles,
or was resumed during it), `unmarked` (a kill that found no forwarder to join
cleared the mark), `stuck` (stops that failed). Stopped and crashed are one
value of `row`; which of the two is written follows `wasKilled`, which is kept.
The fresh fallback of a rejected resume and the pauses of the launch gate are
left out.

### Crew

`slots` are the rows of one crew, `runtimes` those of the runner templates.
`create`, `reorder` and the cascades of deleting a runner or the crew decide
inside their transaction and are one step. `delete`, `set_lead`, `slot::update`
and `runner::update` read first, so they are `...Reads` and `...Commits`, with
`calls[e]` holding what editor `e` read. A model is named by the engine it was
chosen for, so that "fits" can be said. History: `staleLead` (a delete committed
with a lead flag that was no longer true) and `staleEngine` (slots whose model
was kept by a caller that had read another engine).

### Missions

One mission and the threads that command it. `status`, `archived`, `node` are
in the database, `stops` counts `mission_stopped` in the log, `bus` and `reg`
are the routers that `BusRegistry` and `RouterRegistry` hold. `stop` keeps its
write transaction open while it appends, so it is `StopBegins`, `StopAppends`,
`StopCommits` with `writer` naming the thread. `mission_start` and
`mission_attach` build a router and put it into the two registries in steps of
their own (`Mounts`, `Routes`), `mission_archive` takes them out (`Unmounts`,
`Unroutes`). `Sweeps` and `ArchiveMissionStep` are the archive of a folder.
`Reopens` ends the app anywhere and mounts what is running. History: `torn`
(terminal events whose transaction was lost), `overlap` (two threads were at
the runtime at once), `ghost` (an unarchive was overtaken, or failed, between
its two statements).

### Attention

The dot of a tab. `activity` and `armed` are what the manager knows of each
session; `check[s]` is `record_session_completion` on the forwarder of `s`:
`CheckBegins` takes the write transaction, `CheckReads` the siblings' activity,
`CheckTakes` the arms, `CheckLooks` the window registry, `CheckWrites` the row.
The UI thread changes the registry and then, before anything else, marks what
came into view. `node_mark_viewed` takes its time and row first (`stamp`) and
writes later, over whatever a check has committed meanwhile: if the check's time
was the later one (`older`), the tab is unread afterwards, seen or not. `turn` is
history: whether the human's turn with a session runs or is done. `lost` and
`missedMarks` record what the code drops: a turn whose arm an earlier check took,
whose busy sibling ended without going idle, or whose check could not write; and
a mark that failed or was older than the completion.

### KeyCapture

Codex sessions of one directory. `stored` is what `sessions` says of status,
launch (`started_at`) and key; `launch` the processes; `rollout` when a file
appeared, counted in forks; `watcher` the threads of `codex_capture::run`;
`claimed` the set of the process, with the session it was claimed for. A watcher
finds its file by proof (`Proves`: the process has it open, or it has the
launch's marker), or by guess (`Guesses`, then `Checks` for siblings), `Claims`
it and `Persists` the key under the guards of the UPDATE. A process outside of
the app may write a rollout, too, and the app may end, which empties `claimed`
and leaves the rollouts. Rollouts of other directories, unreadable files and the
TRAE variant are left out.

### Side by side

`MCRouterInbox`, `MCIndicators`, `MCMission` and `MCWorkspace` put specifications
that share no variable into one run. Their initial state picks the part whose
steps the behaviour takes, the others keep their first state; so each part is
checked in all its behaviours, and the state space is the sum of the parts. The
first state of a part that is fair is one in which none of the steps that must go
on is enabled (no child, nothing to spawn), so fairness asks nothing of it while
it waits. `MCIndicators` has the outbox in two parts with different bounds on what
comes in from outside; they bound the human, the bus, the terminal and the child,
and no step that fairness is about.

## 3. Runs

| Run | Question | Bounds | Result |
|---|---|---|---|
| `gate` | one holder, tickets, body-then-Enter, stale threads, refinement, queued input is answered | 2 input and 2 delivery threads, 3 generations, 3 tickets each | holds, 296,234 states |
| `messages` | one place per delivery, relay order; exact unread counts, read means shown | outbox: 2 deliveries, 1 input, 2 epochs, preemption anywhere; inbox: 3 handles, 1 reader, 4 events, `--from` | holds, 1.6 M states |
| `indicators` | parked deliveries are flushed, the pill; dots in view, announced turns | outbox (prompt, no input waits behind a delivery): 2 deliveries, 2 inputs, 1 report, 2 epochs; pill: 2 inputs, 1 unread, 1 child, 2 deliveries or one and a reconciliation; attention: 2 sessions, 2 tabs, 1 window, 4 turns | holds, 813,642 states |
| `outbox_stuck` | parked deliveries are flushed, input may wait | 2 deliveries, 2 inputs | **violated** |
| `outbox_jams` | no thread waits for the router's mutex while it holds it | 2 deliveries, 2 inputs, 2 epochs, prompt | **violated** |
| `inbox_since` | read means shown, with `--since` | the same inbox | **violated** |
| `log` | torn lines, order, nothing skipped under the lock, refinement, committed events are delivered | 2 writers, ids 1..3, 1 remount, readers with and without the lock | holds, 91,048 states |
| `log_skip` | nothing skipped, unlocked reads | the same | **violated** |
| `dispatch` | deliveries in order and once, answers to askers, pending asks and badge against the file, asks are posed | 2 slots, 3 kinds of posts, 5 events, 2 mounts | holds, 2.2 M states |
| `mission` | siblings are reaped, rows settle; terminal event, runtime, node | sessions: 2 slots, 1 caller who stops the mission, 2 forks, 3 moves; mission: 2 clients, 2 routers, 6 commands | holds, 149,893 states |
| `workspace` | crew: order, lead, models; sessions: one process, its handle, its exit, archive, intentional kills; capture: keys shared, robbed, fresh | crew: 3 slots, 2 runners, 2 engines, 2 editors, 2 edits; sessions: 2 slots, 2 callers, 2 forks, 3 moves (slots of the crew, commands and failing stops together); capture: 2 sessions, 2 watchers, 2 launches, 2 app runs, 1 stranger | holds, 1.4 M states |
| `attention_stale` | marking a tab viewed puts no dot on it | as in `indicators` | **violated** |

`BusReadsInOrder` is about every bus: what it delivers, under whatever id, ends
with the line of a committed event, and these come in order and none twice. That
the id is the committed one as well follows from `LockedSkipsNothing` under the
lock, and from nothing without: `log_skip` shows how a reader without the lock
leaves the log.

Why the bounds are enough for the cases that matter. In `gate`, a
session without a child gets one and loses it or has it replaced, so a thread
of the first child meets a complete delivery to the second; three tickets let
one be cancelled behind another (and the proofs of section 4 cover the safety
properties for every number of each). In
`messages`, two deliveries are one under way and one parked, and `MaxThreads`
only stops new deliveries, keys and children from coming in while three
threads are running, not the threads themselves. In `dispatch`, five events are an
ask, its card, two answers and one more; the second mount comes after any of
them (section 4 removes the bounds for its safety properties). In `log`, three ids are a
committed line, a torn one and one written over it. Four events of the inbox are
two messages and two reports that overlap. In `indicators`, two inputs are one that
parks a delivery and one that comes in before its retry (`outbox_stuck` needs
both), or a draft and its end; two epochs are a child that is replaced with a
delivery under way; one unread message is enough for a pill that comes and goes,
and for a reconciliation with or without a delivery beside it. Among sessions, two forks are a
child and the one that replaces it, or two siblings of which one ends; a crew
of one slot leaves two commands that overlap with its exit or its spawn, a crew
of two leaves one. Two editors of a crew are one that reads and one that
changes what was read; six commands let a mission be started, stopped,
restored and attached by two clients with a failure in between; two launches
and two watchers are a session and its neighbour, or one session before and
after a restart. With three slots that may be created, deleted and reordered
TLC has few orders of a crew to look at. The safety of all these is proved for
every bound.

Each property has a mutant: an operator `Mut...` beside the definition that it
changes the way a plausible mistake would. Replacing the definition by it makes
the run find the property violated, so every property is sensitive to the code
it is about. Type invariants are in the proofs, not among the runs' properties.

Symmetry is used only where no temporal property with fairness is checked and
the members of the permuted sets are interchangeable; the three parts of
`workspace` use the same model values for that reason. Deadlock is not checked
where the system may stop (nobody has to type, to post, to resume or to edit,
and bounds run out); the `EventLog` runs check it, as the bus always ticks.

### Fairness

- `gate`: a delivery thread runs to its end (it is a plain OS thread and
  its only wait is a sleep), and the condition variable wakes a waiter that may
  go (every change of the gate is followed by `notify_all`). The five-second
  timeout is *not* assumed to fire.
- `indicators`, `outbox_stuck`: threads run, sleeps end, a waiting input that
  may be served is, and two-second windows elapse. No input, delivery, report,
  child or reconciliation is assumed.
- `dispatch`: the bus thread runs (a thread of its own, with a wait of at most
  500 ms) and a mount that has folded the log goes on to mount the bus. Nobody
  has to ask, answer or reopen. `AsksArePosed` excuses a router that ended and
  an append that failed, as the code drops the ask then.
- `mission`: as long as a spawn thread, a forwarder, a kill or a command is
  under way, one of them goes on (`WF_vars(Proceed)`). They are plain threads
  whose waits end (locks held for a moment, joins of threads that end). Children
  need not end, and nobody has to give a command. No thread can go on for ever,
  so weak fairness of the disjunction is enough.
- `log`: the bus ticks again and again (its loop waits at most 500 ms);
  starting a tick is strongly fair, because the lock it waits for is taken and
  released by writers. A writer inside `append` finishes, fails or dies.

### What the violations show

1. `outbox_stuck`. `schedule_delivery_cooldown` supersedes a sleeping retry
   without clearing `retry_scheduled` (`backend/router/mod.rs` line 1186). The
   retry returns without clearing it, the next `schedule_outbox_retry` returns
   because it is set, and a delivery parked as "recently typing" is left with no
   thread to flush it until the human next clears the composer.
2. `outbox_jams`. A cool-down and a drained input queue flush at once: both look
   and see one delivery. The first reserves, takes it, and fails to write it (or
   has written and submitted it before the second gets on); the second reserves,
   finds the queue empty, and calls `finish_delivery` with the router's state
   guard alive (`backend/router/mod.rs` line 1070; line 1066 is the same for an
   outbox that is gone). `finish_delivery` notifies synchronously, and
   `schedule_delivery_cooldown` locks the state again on the same thread. The
   router of the mission hangs; `docs/arch/arch.md` line 534 says that "nothing
   hard-fails".
3. `log_skip`. Without a lock, the reader can hold the beginning of a torn line
   in its buffer while a writer repairs the tail and commits a line over it; the
   mixture ends in a newline and is stepped over, and the committed event is lost
   to this bus. Cut behind the fields that all lines share, the mixture even
   parses: the bus then emits the event under an id that was never committed. The
   comment in `read_from_lossy` says a torn line is not advanced past, the ones at
   `log.rs` lines 5-7 and 20-23 promise whole lines and no fragment glued to the
   next one.
4. `inbox_since`. `msg read --since` marks older unread messages as read; the
   comment in `cli/src/msg.rs` lines 161-163 calls this safe.
5. `attention_stale`. `node_mark_viewed` takes its time, a completion that sees
   the tab in view is committed as viewed at a later time, and the unconditional
   UPDATE (`repo/node.rs` line 577) puts the older time back: marking the tab as
   viewed makes it unread. A test there calls the watermarks monotonic (line 907).

### Promises that hold with a proviso

Where a comment promises more than the code keeps, the property names what
breaks it in a history variable and holds everything else to the promise.

- Deliveries. `docs/arch/arch.md` line 534 says that "nothing is silently lost".
  A child that ends in the 80 ms between body and Enter takes the delivery with
  it: the sender ignores the result of the Enter (`router/mod.rs` line 1005). A
  body that fails during a flush is only logged, after the delivery was popped
  (lines 1079-1083).
- Sessions. "Refuse rather than racing two PTY spawns" (`spawn.rs` lines
  1970-1974) and "no live sessions after we return" (`lifecycle.rs` lines
  174-176) hold up to `overtaken` and `missed`. The forwarder of the child
  before stops and forgets by session id, which the resumed child shares
  (`lifecycle.rs` line 287); a kill between `install_handle` and
  `install_forwarder` has nobody to join and clears its own mark
  (`unmarked`); a best-effort stop that fails leaves a process behind, which none
  of the five safety properties counts (`Strays`). `SiblingsAreReaped` is about
  sessions that have their handle when the other one's exit is written; a child
  that is forked and not yet installed then can be missed.
- Crews. The header of `ops/slot.rs` (lines 12-14) says exactly one lead. A
  `delete` that read "is lead" before a `set_lead` of another slot promotes a
  second, and one that read "is not lead" before a `set_lead` of its slot leaves
  none (`staleLead`). A `slot::update` that leaves out the handle writes back
  the one it read, and so undoes a rename that came between.
- Missions. "No live runtime by invariant" (`ops/node.rs` lines 303-306, and
  `ops/mission.rs` lines 1277-1279) does not survive an attach that overlaps an
  archive, and two overlapping attaches leave the bus feeding a router that the
  registry does not have (`overlap`). `abort` overwrites whatever the row has
  become (`repo/mission.rs` line 184).
- Attention. Input submitted between the check's read of the activity and its
  take of the arms loses its arm; a busy sibling that ends without going idle
  leaves a finished turn unannounced; a check whose write fails does, too
  (`lost`). `node_mark_viewed` takes its time outside of the transaction, so that
  a completion in between stays or comes back (`missedMarks`); `NoDotInView` holds
  of the tabs that were marked since.
- Keys. A claim whose UPDATE failed stays claimed until the app ends. The guess
  cannot tell a Codex run by the user from its own. A sibling that has exited
  without a key can lose its rollout to a guess (`NobodyIsRobbed` is about
  running sessions). The fallback for TRAE can never succeed, because
  its row query asks for the runtime `codex` (`codex_capture.rs` line 330).

## 4. Proofs

`DeliveryGate_proofs` proves, for arbitrary sets of threads and arbitrary
bounds and under `GateAssumption` only (the two kinds of threads are disjoint,
`None` is neither a thread nor an input state, the bounds are naturals):

- `GateInvariant`: `GateInv` is an invariant, with its conjuncts as theorems of
  their own: `GateTyped`, `AtMostOneHolder`, `NoTicketIsLost`, `TokensStayPast`,
  `SendersBodyStays`;
- `BodyThenEnter`, `EnterFollowsBody`, `StaleAreInert`: the action properties;
- `GateImplementsLock`: the gate implements `ComposerLock`, if the input threads
  are finitely many, as threads are.

None of the conjuncts is inductive alone. The type of the gate needs the ticket
accounting, because `skip_cancelled_tickets` returns a ticket only when one is
left to return; `OneHolder` needs that no token belongs to a generation to come
(`TokensArePast`), or an install could make a stale thread current;
`BodyInComposer` needs that one thread holds the gate, or a second delivery could write
in between. So the invariant is their conjunction. The proof has one lemma per
action. `SkipStops` and `ServedGate` state what skipping cancelled tickets
returns (from the least-element principle on naturals), `LeavingKeepsTickets`
and `NewGenerationKeepsInv` carry the two patterns most actions share. The
action properties follow from the invariant, with `WhoWrites` telling which step
changes `last`. For the refinement, `WaitersCount` says that somebody waits
exactly when tickets are out, which is what the ticket accounting gives; then a
queued input adds one to the lock's count, one that is served or gives up takes
one off, and a timeout of a ticket that is not next leaves another behind, as the
lock demands.

`RouterOutbox_proofs` proves, for any number of deliveries, keystrokes, reports,
threads and children, prompt or not, and under `OutboxAssumption` only (the
bounds are naturals, `Prompt` is a Boolean), `OutboxInvariance`, and from it
`OutboxTyped`, `PillStaysCurrent`, `DeliveredOnce` and `RelaysStayInOrder`.
`OutboxInv` has five parts.

- `Shaped`: types, the pill, and that an outbox that was dropped holds nothing;
- `OneHolder`: at most one thread is between body and Enter of the present
  epoch of the composer;
- `Known`: no delivery is anywhere before it was handed over, so that a new one
  is new everywhere;
- `Once`: no delivery is in two of queue, threads and what the child received,
  and a thread that carries one has no second copy;
- `Ordered`: relays are queued in the order of dispatch, behind the one whose
  body is about to be written, behind those that were written.

A flush may read the queue, be refused, and put back what it took, while another
thread delivers; that a body is written before those that still wait therefore
rests on `OneHolder`, and that what is put back is in front rests on `Once`. The
threads are a bag: `BagMinus`, `BecomesBag`, `SpawnsBag` and `TouchedBag` say
once what taking a thread out, replacing it, starting one and marking the
retries leaves of the others, and each action cites them.

`SessionLifecycle_proofs` proves, for any finite set of slots, any callers and
any number of processes and failed stops, under `LifecycleAssumption` only,
`SessionInvariance`, and from it `SessionIsTyped` and the five safety
properties of the run: `OneChild`, `ExitsAreTrue`, `ArchivesEnd`,
`ChildrenHaveHandles`, `KillsAreNotCrashes`. None of the five is inductive:
between the steps of a spawn, a resume or a kill the state does not show what
the thread has seen. `SessionInv` adds what it has seen.

- `Numbered`, `Named`: processes are numbered as they are forked, and handles,
  kills, the spawn thread and the callers name processes of their own session.
- `ClaimsAreSingle`, `SpawnerStands`: a session claimed by `resuming` is claimed
  by one caller; the spawn thread has each slot once, and its flag exactly as
  long as it is there.
- `SpawnsFirst`: a slot the spawn thread has not come to has had no process and
  nobody has claimed it, and one it is forking for has that process as its
  latest. A resume that came first is what `overtaken` records.
- `LatestOnly`: only the latest process of a session is alive or has a forwarder
  at work. This is what `OneChild` follows from, and what makes a stop by session
  id a stop of the right process.
- `ClaimsClear`: what a claim has made sure of before it forks: that what is
  left of the session is being stopped, then that nothing is left, then that
  the new process is the latest.
- `ArchiveCloses`, `ArchiveReaches`: during an archive the flag is up and every
  fork under way is one of `missed`; a kill of the archive that got past its stop
  leaves only processes that are about to be stopped. `ArchivesEnd` is this at the
  moment the mission ends.
- `MarksStay`: as long as a process killed on purpose, or about to be, has its
  forwarder before the take, the mark is up. `KillsAreNotCrashes` is this at the
  take.

A lemma `<Action>Does` for each of the 31 actions says what it changes, types
included; a lemma `<Part>Step` for each part of the invariant goes through the
actions that touch what it speaks of and dismisses the rest together. TLC has
checked the parts of `SessionInv` on the constants of `workspace`
before.

`RouterDispatch_proofs` proves, for any roster, any posts and any bounds and
under `DispatchAssumption` only (the lead has a slot, the three reserved handles
have none, posts are well-formed):

- `DispatchInvariant`: `DispatchInv` is an invariant;
- `DispatchTyped`, `NothingTwice`, `AnswerReachesAsker`,
  `PendingIsWhatReopenReads`, `BadgeIsTheFiles`: the safety properties of the run.

The argument: the log only grows (`StepsGrow`, `GrowthIsStable`), and every
response names an earlier card and every card an earlier ask (`LogInv`). The
bus is past everything it handed over, or the mark is (`HandedInv`), so the
next event is new. A pending question was never answered by anything handed
over (`PendingInv`, through `SettledHasResponse`), and a card written a moment
ago cannot have been, because its response would stand behind it. The pending
asks are the questions left open by the responses dispatched so far, with the
card being recorded on top (`AgreeInv`); at a reopen everything counts as
dispatched, and that is what the fold reads. Neither order nor agreement is
inductive without these. The badge needs no counting: once the bus has caught up,
the two sets that are counted are the same.

`EventLog_proofs` proves, for any number of writers, ids and remounts, for buses
that lock and buses that do not, and under `LogAssumption` only:

- `FileInvariance`, and from it `NoLineIsGlued`. That every newline ends one event
  is not inductive: `FileInv` adds that the file is a sequence of whole lines with
  at most a beginning behind them (`Lines`), that the writer inside `append` holds
  the lock, and that the length it would cut back to is the end of a line.
  `RepairLeavesWholeLines`, `CutKeepsLines` and `AppendKeepsLines` say what the
  repair, a rollback and a write leave of that.
- `LogInvariance`, and from it `LogTyped`, `LockedReaderSkipsNothing` and
  `BusOrder`. `LogInv` adds that ids rise, also with the line that is being
  written (`IdsRise`); that every newline the bus has in its buffer is in the file
  at the same place, with or without the lock, and under the lock all else it has
  read (`ReaderInv`); and that the events whose ends it delivered rise and stand before
  its offset (`DeliveredInv`).
- `LogImplementsAppendLog`, the refinement: `WriteEnd` is a `Commit`, `EndTick` of
  a bus that locks a `Project`, `RemountBus` a `Remount`, and every other step,
  repairs and rollbacks among them, a stutter.

What carries the argument are the events as a sequence. In a file of whole lines
the ends are the cells at even places, so its events are the ids of those
(`Alternate`, `EndsParse`, `EventsOfLines`), and a step of a writer either keeps
the whole lines or completes one more (`FileStep`). What a bus without the
lock has in its buffer need not be lines of the file; that all it delivers still
ends with committed events, in order, follows from the newlines alone
(`EventsAre`, `EndTickDelivers`). A bus that locks has nothing spliced in its
buffer, and so delivers each event under its own id (`EndTickLocked`).

`Inbox_proofs` proves, for any roster, any number of events and remounts and
under `InboxAssumption` only, `InboxInvariance`, `InboxIsTyped`,
`UnreadStaysExact` and, when no read is given `--since`, `ReadStaysShown`; with
`--since` the run `inbox_since` refutes it. `InboxInv` says that the projection of
a handle is its messages before the cursor in the order of the log
(`Projected`), and that `read_idx` divides it at the watermark, which is the
highest report before the cursor (`Marked`). A new message is beyond every
watermark because a report looks back (`ReportsLookBack`). The unread count is
then a cardinality: `UnreadCounts` maps the positions beyond `read_idx` one to
one to the unread messages. `ReportsWereShown` is what `ReadStaysShown` adds:
what is reported, or about to be, was printed with all before it.

`Workspace_proofs` holds the proofs about `Crew`, `Missions` and `Attention`, each
under the assumption of its module. `CrewInvariance` holds for any finite set of slots and any sets
of names, runners, engines and editors. `CrewInv` adds
to the three properties the types and `UpdatesKnow`: a model that an update is
about to write was chosen for the engine the update leaves its slot on, as far
as it has read. Without it `ModelFitsEngine` says nothing of what is still to
be written. The hard part is density: `repack_positions` gives each row the
number of rows before it, and that these numbers are again `0 .. n-1` is a
cardinality argument (`Ranks`, from `Dense`: distinct naturals below `n`, `n` of
them, are all of them); `First` finds the slot that a deletion promotes.

`MissionInvariance` holds for any clients and bounds.
`OneTerminalEvent` needs to know that the thread between append and commit is
the database's only writer and saw the mission running (`RowInv`);
`TreeShowsTheMission` that an unarchive which nobody overtook finds its mission
listed (`NodeInv`). `RuntimeIsTheMissions` speaks of moments at which no thread
is at the runtime; `RuntimeInv` says what holds before: without `overlap` the
thread that sets the runtime up is alone, finds neither bus nor router, and
has a running mission from its check on, and one that takes it down has a
mission that does not run.

`AttentionInvariance` adds to `NoDotInView` that a check about to put a dot on a
tab in view, because it had looked before, will find the tab among those being marked; to `TurnsAreAnnounced` that a
running turn is armed unless a check took the arm.

`KeyCapture_proofs` proves `CaptureInvariance`. That keys are not shared rests
on the claims within one run of the app, and on age across runs: every key
is claimed for its holder, or older than every process of this run
(`ClaimInv`). That nobody is robbed needs the same of what watchers are about to
claim and store (`RobInv`, `WatchInv`). That fresh sessions stay fresh needs
that a row still has the launch its watcher was started for (`MayPersist`), and
that what a watcher found is not older than its launch.

Model-checked only: liveness (`QueuedInputIsAnswered`, `ParkedIsFlushed`,
`AsksArePosed`, `CommittedIsDelivered`, `SiblingsAreReaped`, `RowsSettle`), and what
the five violation runs refute. Every invariant of a passing run, every action
property and both refinements are proved. Liveness under fairness, and `ENABLED`, are beyond the
prover used here, and so is induction over data. The models that are proved about define
their sequences and sums without recursion for that reason; so `Events` numbers
the lines by counting those before each (`Nth`) instead of sorting them.

## 5. Plan

Done: the gate, the outbox and the dispatch of the router, the event log, the
inbox, the sessions of a mission, crews, missions, attention and key capture,
with the invariants of all ten and both refinements proved.

What would come next, in this order:

1. The status of mission agents in the log: busy and idle as said by the
   forwarder, by a submitted input and by a relay's synthesized wake. What the
   router believes should be the last status in the log; the hazards list two
   ways in which it may not be.
2. `mission_reset` and `mission_fork`, over `Missions` and `SessionLifecycle`.
3. The order of the node tree, with its moves between containers and repair.

## 6. Not modelled

Texts, prompts, launch arguments, key encodings and layout (formatting); the
PTY and process-group calls (operating system; a write or a stop succeeds or
fails); SQL migrations and row mapping; the MCP facade, skills, updater,
packaging and the views, which are more than half of the lines of the
repository and hold no state that another thread decides by; the tree of panes,
a data structure of one thread. `PROJECT.json` lists each part with its reason.
