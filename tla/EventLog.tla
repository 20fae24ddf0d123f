------------------------------- MODULE EventLog -------------------------------
(***************************************************************************)
(* The event file of one mission (crates/runner-core/src/event_log), the   *)
(* processes that append to it and the event bus that tails it             *)
(* (crates/runner-backend/src/event_bus).                                  *)
(*                                                                         *)
(* The app and every invocation of the CLI open the same file.  A writer   *)
(* takes the file lock, cuts off a torn last line, draws an id above the   *)
(* last one on disk and writes its line, which reaches the file in two     *)
(* cells: a beginning, and an end with the newline.  It may fail or die    *)
(* between any two steps; the operating system then releases its lock.     *)
(*                                                                         *)
(* The reader takes the lock only on Windows (reader.locks).  It reads the *)
(* file piece by piece, so a writer may cut and grow the file under it: it *)
(* may then take the beginning of one line and the end of another for a    *)
(* line.  Every line has two cells, so cut offsets and line lengths line   *)
(* up, and the beginning has the id.                                       *)
(***************************************************************************)
EXTENDS Integers, SequencesExt

CONSTANTS
    Writers,      \* processes that append
    Nobody,       \* owner of a free lock
    MaxId,        \* bound: ids run from 1 to MaxId
    MaxRemounts,  \* bound: times the bus is mounted again
    ReaderLocks   \* whether the reader holds the lock while it reads: TRUE, FALSE, or
                  \* both, one in each behaviour

ASSUME LogAssumption ==
    /\ Nobody \notin Writers
    /\ MaxId \in Nat /\ MaxRemounts \in Nat
    /\ ReaderLocks \subseteq BOOLEAN

VARIABLES
    file,    \* cells of the file
    flock,   \* the writer that holds the exclusive lock
    writer,  \* per process: step of append, generator floor, id, length before the write
    reader,  \* the bus: step of read_from_lossy, next_offset, cells read so far, and
             \* whether the platform's reader locks
    delivered, \* ids of the events emitted since the bus was mounted
    origin,    \* history: id of the line at whose newline each of these events ends
    remounts

vars == <<file, flock, writer, reader, delivered, origin, remounts>>

Cell == [id : 1 .. MaxId, end : BOOLEAN]

TypeOK ==
    /\ file \in Seq(Cell)
    /\ flock \in Writers \cup {Nobody}
    /\ writer \in [Writers -> [pc : {"down", "up", "head", "end", "unlock"},
                               floor : 0 .. MaxId, id : 0 .. MaxId, pre : Nat]]
    /\ reader \in [pc : {"idle", "reading"}, offset : Nat, buf : Seq(Cell),
                   locks : BOOLEAN]
    /\ delivered \in Seq(1 .. MaxId) /\ origin \in Seq(1 .. MaxId)
    /\ remounts \in 0 .. MaxRemounts

Down == [pc |-> "down", floor |-> 0, id |-> 0, pre |-> 0]

Init ==
    /\ file = <<>>
    /\ flock = Nobody
    /\ writer = [w \in Writers |-> Down]
    /\ reader \in [pc : {"idle"}, offset : {0}, buf : {<<>>}, locks : ReaderLocks]
    /\ delivered = <<>> /\ origin = <<>>
    /\ remounts = 0

-----------------------------------------------------------------------------
(* Lines.                                                                  *)

Newlines(cells) == {i \in DOMAIN cells : cells[i].end}

\* Cells up to and including the last newline.
Whole(cells) ==
    IF Newlines(cells) = {} THEN <<>>
    ELSE SubSeq(cells, 1, CHOOSE i \in Newlines(cells) :
                              \A j \in Newlines(cells) : j <= i)

\* Newlines that end a line which parses: its own beginning, alone, before it.
Parsed(cells) ==
    {i \in Newlines(cells) :
        /\ i - 1 \in DOMAIN cells
        /\ cells[i - 1] = [id |-> cells[i].id, end |-> FALSE]
        /\ i - 2 \in DOMAIN cells => cells[i - 2].end}

\* The n-th of a set of numbers, in order.
Nth(S, n) == CHOOSE i \in S : Cardinality({j \in S : j <= i}) = n

\* What the lines with these newlines begin and end with, in file order.
Heads(cells, ends) == [n \in 1 .. Cardinality(ends) |-> cells[Nth(ends, n) - 1].id]
Tails(cells, ends) == [n \in 1 .. Cardinality(ends) |-> cells[Nth(ends, n)].id]

\* The events of the lines that parse, in file order; the others are skipped.
Events(cells) == Tails(cells, Parsed(cells))

\* Lines that have the beginning of one append and the end of another.
Spliced(cells) ==
    {i \in Newlines(cells) :
        /\ i - 1 \in DOMAIN cells
        /\ ~cells[i - 1].end /\ cells[i - 1].id # cells[i].id
        /\ i - 2 \in DOMAIN cells => cells[i - 2].end}

\* last_id_in_file: walks back over lines that do not parse.
LastId(cells) == IF Parsed(cells) = {} THEN 0 ELSE Last(Events(cells))

-----------------------------------------------------------------------------
(* Writers: EventLog::open, append and try_append.                         *)

LockFree ==
    /\ flock = Nobody
    /\ reader.locks => reader.pc = "idle"

MutRepaired(cells) == cells  \* no repair_tail

\* repair_tail
Repaired(cells) == Whole(cells)

\* EventLog::open: repair and seed the generator.
Open(w) ==
    /\ writer[w].pc = "down"
    /\ LockFree
    /\ file' = Repaired(file)
    /\ writer' = [writer EXCEPT ![w] = [Down EXCEPT !.pc = "up", !.floor = LastId(Repaired(file))]]
    /\ UNCHANGED <<flock, reader, delivered, origin, remounts>>

MaxOf(a, b) == IF a > b THEN a ELSE b

MutNextId(floor, now) == IF now >= floor THEN now ELSE floor  \* the floor itself

\* UlidGen::next: the clock, unless an id that high was already seen.
NextId(floor, now) == IF now > floor THEN now ELSE floor + 1

\* The lock is taken, the tail repaired, the floor raised and the id drawn; the
\* writers' clocks need not agree nor advance.
Begin(w, now) ==
    /\ writer[w].pc = "up"
    /\ LockFree
    /\ LET floor == MaxOf(writer[w].floor, LastId(Repaired(file)))
           id    == NextId(floor, now)
       IN  /\ id <= MaxId
           /\ writer' = [writer EXCEPT ![w] = [pc |-> "head", floor |-> id, id |-> id,
                                               pre |-> Len(Repaired(file))]]
    /\ file' = Repaired(file)
    /\ flock' = w
    /\ UNCHANGED <<reader, delivered, origin, remounts>>

WriteHead(w) ==
    /\ writer[w].pc = "head"
    /\ file' = Append(file, [id |-> writer[w].id, end |-> FALSE])
    /\ writer' = [writer EXCEPT ![w].pc = "end"]
    /\ UNCHANGED <<flock, reader, delivered, origin, remounts>>

WriteEnd(w) ==
    /\ writer[w].pc = "end"
    /\ file' = Append(file, [id |-> writer[w].id, end |-> TRUE])
    /\ writer' = [writer EXCEPT ![w].pc = "unlock"]
    /\ UNCHANGED <<flock, reader, delivered, origin, remounts>>

MutWriteFails(w) ==  \* cut back to the start of the file's last line
    /\ writer[w].pc \in {"head", "end"}
    /\ file' = SubSeq(file, 1, writer[w].pre - 2)
    /\ writer' = [writer EXCEPT ![w].pc = "up"]
    /\ flock' = Nobody
    /\ UNCHANGED <<reader, delivered, origin, remounts>>

\* write_all fails: the file is cut back to its length before the write, or
\* that fails too.
WriteFails(w) ==
    /\ writer[w].pc \in {"head", "end"}
    /\ file' \in {SubSeq(file, 1, writer[w].pre), file}
    /\ writer' = [writer EXCEPT ![w].pc = "up"]
    /\ flock' = Nobody
    /\ UNCHANGED <<reader, delivered, origin, remounts>>

Unlock(w) ==
    /\ writer[w].pc = "unlock"
    /\ writer' = [writer EXCEPT ![w].pc = "up"]
    /\ flock' = Nobody
    /\ UNCHANGED <<file, reader, delivered, origin, remounts>>

\* The process ends, in the middle of a write or not.
Crash(w) ==
    /\ writer[w].pc # "down"
    /\ writer' = [writer EXCEPT ![w] = Down]
    /\ flock' = IF flock = w THEN Nobody ELSE flock
    /\ UNCHANGED <<file, reader, delivered, origin, remounts>>

-----------------------------------------------------------------------------
(* The bus: BusState::tick and read_from_lossy.                            *)

StartTick ==
    /\ reader.pc = "idle"
    /\ reader.locks => flock = Nobody
    /\ reader' = [reader EXCEPT !.pc = "reading", !.buf = <<>>]
    /\ UNCHANGED <<file, flock, writer, delivered, origin, remounts>>

Position == reader.offset + Len(reader.buf)

\* One read() of the buffered reader returns some of what follows.
ReadPiece ==
    /\ reader.pc = "reading"
    /\ \E upto \in (Position + 1) .. Len(file) :
          reader' = [reader EXCEPT !.buf = @ \o SubSeq(file, Position + 1, upto)]
    /\ UNCHANGED <<file, flock, writer, delivered, origin, remounts>>

MutEndTick ==  \* past the torn line too
    /\ reader.pc = "reading"
    /\ Position >= Len(file)
    /\ reader' = [reader EXCEPT !.pc = "idle", !.offset = Position, !.buf = <<>>]
    /\ delivered' = delivered \o Events(reader.buf)
    /\ origin' = origin \o Events(reader.buf)
    /\ UNCHANGED <<file, flock, writer, remounts>>

\* read() returns 0: what is left without a newline is tried again next tick;
\* lines that do not parse are reported and stepped over.  All lines begin alike up
\* to the payload, so a spliced one parses if it was cut there, as an event with the
\* id of the line that begins it, and does not if it was cut elsewhere.
EndTick ==
    /\ reader.pc = "reading"
    /\ Position >= Len(file)
    /\ reader' = [reader EXCEPT !.pc = "idle", !.offset = @ + Len(Whole(reader.buf)), !.buf = <<>>]
    /\ \E spliced \in SUBSET Spliced(Whole(reader.buf)) :
          LET ends == Parsed(Whole(reader.buf)) \cup spliced
          IN  /\ delivered' = delivered \o Heads(Whole(reader.buf), ends)
              /\ origin' = origin \o Tails(Whole(reader.buf), ends)
    /\ UNCHANGED <<file, flock, writer, remounts>>

\* The mission is reopened: a fresh bus replays the file from offset 0.
RemountBus ==
    /\ remounts < MaxRemounts
    /\ remounts' = remounts + 1
    /\ reader' = [reader EXCEPT !.pc = "idle", !.offset = 0, !.buf = <<>>]
    /\ delivered' = <<>> /\ origin' = <<>>
    /\ UNCHANGED <<file, flock, writer>>

-----------------------------------------------------------------------------
Writing(w) == WriteHead(w) \/ WriteEnd(w) \/ WriteFails(w) \/ Unlock(w) \/ Crash(w)

Next ==
    \/ \E w \in Writers :
          \/ Open(w)
          \/ \E now \in 1 .. MaxId : Begin(w, now)
          \/ Writing(w)
    \/ StartTick \/ ReadPiece \/ EndTick \/ RemountBus

Spec == Init /\ [][Next]_vars

\* The bus ticks at least every 500 ms; a writer inside append gets through it,
\* fails or dies.  Nobody has to append.
Fairness ==
    /\ SF_vars(StartTick) /\ WF_vars(ReadPiece) /\ WF_vars(EndTick)
    /\ \A w \in Writers : WF_vars(writer[w].pc \in {"head", "end", "unlock"} /\ Writing(w))

FairSpec == Spec /\ Fairness

-----------------------------------------------------------------------------
(* Properties.                                                             *)

\* Whoever crashed where, every line that ends in a newline is one event: a
\* torn tail is never glued to the next line.
NoGluedLines ==
    \A i \in Newlines(file) : i \in Parsed(file)

\* The bus has emitted every committed event that lies before its offset, once
\* and in order: nothing is stepped over but lines that were never committed,
\* and a repair never leaves the offset beyond the end of the file.
NothingSkipped ==
    /\ reader.offset <= Len(file)
    /\ delivered = Events(SubSeq(file, 1, reader.offset))

\* That is so of a reader that locks; without the lock it is refuted.
LockedSkipsNothing == reader.locks => NothingSkipped

\* Also without the lock, and under whatever id, an event that the bus emits ends
\* with the line of a committed one; these come in the order of the file and none
\* twice.
BusReadsInOrder ==
    /\ \A i, j \in DOMAIN origin : i < j => origin[i] < origin[j]
    /\ ToSet(origin) \subseteq ToSet(Events(file))

\* To its readers the file is a log that only grows, in the order of its ids,
\* whatever is torn, repaired or rolled back, and a bus that locks projects a
\* prefix of it.
Abstract == INSTANCE AppendLog WITH
    log <- Events(file),
    delivered <- IF reader.locks THEN delivered ELSE <<>>

ImplementsAppendLog == Abstract!AppendSpec

\* A committed event reaches the subscribers of a bus that locks, unless it is
\* remounted.
CommittedIsDelivered ==
    \A id \in 1 .. MaxId :
        reader.locks /\ id \in ToSet(Events(file)) ~> id \in ToSet(delivered)
=============================================================================
