--------------------------- MODULE EventLog_proofs ---------------------------
(***************************************************************************)
(* Proofs about EventLog, for any number of writers, of ids and of         *)
(* remounts.                                                               *)
(*                                                                         *)
(* FileInv says that the file is a sequence of whole lines, with perhaps   *)
(* one beginning behind them.  Then ends are the cells at even places, the *)
(* events are the ids of those (EventsOfLines), and a step either keeps    *)
(* the whole lines or completes one more (FileStep).  On that rest LogInv: *)
(* ids rise, what the bus has read are line ends of the file, what it has  *)
(* delivered ended before its offset; and the refinement of AppendLog.     *)
(***************************************************************************)
EXTENDS EventLog, FiniteSetTheorems, SequenceTheorems, WellFoundedInduction, TLAPS

-----------------------------------------------------------------------------
(* The inductive invariant.                                                *)

\* A sequence of whole lines, the last of which may lack its end.
Lines(cells) ==
    /\ cells \in Seq({cells[i] : i \in DOMAIN cells})
    /\ \A i \in DOMAIN cells :
          IF cells[i].end
          THEN i > 1 /\ cells[i - 1] = [id |-> cells[i].id, end |-> FALSE]
          ELSE i > 1 => cells[i - 1].end

\* The first n cells of the file are whole lines.
Even(n) == n \in 0 .. Len(file) /\ (n > 0 => file[n].end)

\* A writer inside append holds the lock, knows where its line begins, and has
\* written as much of it as its step says.
WriterInv(w) ==
    LET me == writer[w]
    IN  /\ me = [pc |-> me.pc, floor |-> me.floor, id |-> me.id, pre |-> me.pre]
        /\ me.pc \in {"head", "end", "unlock"} => flock = w
        /\ me.pc \in {"head", "end"} => Even(me.pre)
        /\ me.pc = "head" => Len(file) = me.pre
        /\ me.pc = "end" => /\ Len(file) = me.pre + 1
                            /\ file[Len(file)] = [id |-> me.id, end |-> FALSE]

FileInv ==
    /\ Lines(file)
    /\ writer = [w \in Writers |-> writer[w]]
    /\ \A w \in Writers : WriterInv(w)

-----------------------------------------------------------------------------
(* What the operators on the file preserve.                                *)

\* A sequence is one over the set of its own elements.
LEMMA OwnElements ==
    ASSUME NEW S, NEW cells \in Seq(S)
    PROVE  cells \in Seq({cells[i] : i \in DOMAIN cells})
<1> DEFINE T == {cells[i] : i \in DOMAIN cells}
<1>1. Len(cells) \in Nat /\ cells \in [1 .. Len(cells) -> T]
  OBVIOUS
<1> HIDE DEF T
<1>2. cells \in Seq(T)
  BY <1>1
<1> QED
  BY <1>2 DEF T

\* A cut at the end of a line, or anywhere else, leaves lines.
LEMMA CutKeepsLines ==
    ASSUME NEW cells, Lines(cells), NEW n \in 0 .. Len(cells)
    PROVE  /\ Lines(SubSeq(cells, 1, n))
           /\ Len(SubSeq(cells, 1, n)) = n
           /\ \A i \in 1 .. n : SubSeq(cells, 1, n)[i] = cells[i]
<1> DEFINE S   == {cells[i] : i \in DOMAIN cells}
           cut == SubSeq(cells, 1, n)
<1>1. cells \in Seq(S) /\ Len(cells) \in Nat /\ DOMAIN cells = 1 .. Len(cells)
  BY DEF Lines
<1> HIDE DEF S
<1>2. /\ cut \in Seq(S) /\ Len(cut) = n /\ DOMAIN cut = 1 .. n
      /\ \A i \in 1 .. n : cut[i] = cells[i] /\ i \in DOMAIN cells
  BY <1>1
<1> HIDE DEF cut
<1>3. cut \in Seq({cut[i] : i \in DOMAIN cut})
  BY <1>2, OwnElements
<1>4. ASSUME NEW i \in 1 .. n
      PROVE  IF cut[i].end THEN i > 1 /\ cut[i - 1] = [id |-> cut[i].id, end |-> FALSE]
                           ELSE i > 1 => cut[i - 1].end
  <2>1. i > 1 => cut[i - 1] = cells[i - 1]
    BY <1>2
  <2> QED
    BY <1>2, <2>1 DEF Lines
<1> QED
  BY <1>2, <1>3, <1>4 DEF Lines, cut

\* repair_tail leaves whole lines, all that there are.
LEMMA RepairLeavesWholeLines ==
    ASSUME NEW cells, Lines(cells)
    PROVE  /\ Lines(Repaired(cells))
           /\ Len(Repaired(cells)) \in Nat
           /\ Len(Repaired(cells)) > 0 => Repaired(cells)[Len(Repaired(cells))].end
<1>1. Len(cells) \in Nat /\ DOMAIN cells = 1 .. Len(cells)
  BY DEF Lines
<1>2. CASE Newlines(cells) = {}
  BY <1>2 DEF Repaired, Whole, Lines
<1>3. CASE Newlines(cells) # {}
  <2>1. PICK i \in DOMAIN cells : cells[i].end
    BY <1>3 DEF Newlines
  <2> DEFINE last == IF cells[Len(cells)].end THEN Len(cells) ELSE Len(cells) - 1
  <2>2. last \in Newlines(cells) /\ \A j \in Newlines(cells) : j <= last
    <3>1. Len(cells) \in DOMAIN cells
      BY <1>1, <2>1
    <3>2. ~cells[Len(cells)].end => Len(cells) > 1 /\ cells[Len(cells) - 1].end
      <4> SUFFICES ASSUME ~cells[Len(cells)].end
                   PROVE  Len(cells) > 1 /\ cells[Len(cells) - 1].end
        OBVIOUS
      <4>1. i # Len(cells)
        BY <2>1
      <4>2. Len(cells) > 1
        BY <1>1, <2>1, <4>1
      <4> QED
        BY <3>1, <4>2 DEF Lines
    <3> QED
      BY <1>1, <3>1, <3>2 DEF Newlines
  <2> HIDE DEF last
  <2> DEFINE top == CHOOSE k \in Newlines(cells) : \A j \in Newlines(cells) : j <= k
  <2>3. top \in Newlines(cells) /\ \A j \in Newlines(cells) : j <= top
    BY <2>2
  <2> HIDE DEF top
  <2>4. top \in 1 .. Len(cells) /\ cells[top].end
    BY <1>1, <2>3 DEF Newlines
  <2>5. Repaired(cells) = SubSeq(cells, 1, top)
    BY <1>3 DEF Repaired, Whole, top
  <2> QED
    BY <1>1, <2>4, <2>5, CutKeepsLines
<1> QED
  BY <1>2, <1>3

\* Appending a beginning after whole lines, or the end of the last beginning.
LEMMA AppendKeepsLines ==
    ASSUME NEW cells, Lines(cells), NEW c,
           \/ ~c.end /\ (Len(cells) > 0 => cells[Len(cells)].end)
           \/ /\ c.end /\ Len(cells) > 0
              /\ cells[Len(cells)] = [id |-> c.id, end |-> FALSE]
    PROVE  /\ Lines(Append(cells, c))
           /\ Len(Append(cells, c)) = Len(cells) + 1
           /\ Append(cells, c)[Len(cells) + 1] = c
           /\ \A i \in 1 .. Len(cells) : Append(cells, c)[i] = cells[i]
<1> DEFINE S   == {cells[i] : i \in DOMAIN cells} \cup {c}
           new == Append(cells, c)
<1>1. cells \in Seq(S) /\ c \in S /\ Len(cells) \in Nat /\ DOMAIN cells = 1 .. Len(cells)
  BY DEF Lines
<1> HIDE DEF S
<1>2. /\ new \in Seq(S) /\ Len(new) = Len(cells) + 1 /\ DOMAIN new = 1 .. (Len(cells) + 1)
      /\ new[Len(cells) + 1] = c
      /\ \A i \in 1 .. Len(cells) : new[i] = cells[i]
  BY <1>1
<1> HIDE DEF new
<1>3. new \in Seq({new[i] : i \in DOMAIN new})
  BY <1>2, OwnElements
<1>4. ASSUME NEW i \in DOMAIN new
      PROVE  IF new[i].end THEN i > 1 /\ new[i - 1] = [id |-> new[i].id, end |-> FALSE]
                           ELSE i > 1 => new[i - 1].end
  <2>1. CASE i \in 1 .. Len(cells)
    <3>1. i > 1 => new[i - 1] = cells[i - 1]
      BY <1>1, <1>2, <2>1
    <3> QED
      BY <1>1, <1>2, <2>1, <3>1 DEF Lines
  <2>2. CASE i = Len(cells) + 1
    <3>1. /\ i > 1 <=> Len(cells) > 0
          /\ i > 1 => i - 1 = Len(cells) /\ new[i - 1] = cells[Len(cells)]
      BY <1>1, <1>2, <2>2
    <3>2. new[i] = c
      BY <1>2, <2>2
    <3>3. CASE ~c.end /\ (Len(cells) > 0 => cells[Len(cells)].end)
      BY <3>1, <3>2, <3>3
    <3>4. CASE /\ c.end /\ Len(cells) > 0
               /\ cells[Len(cells)] = [id |-> c.id, end |-> FALSE]
      BY <3>1, <3>2, <3>4
    <3> QED
      BY <3>3, <3>4
  <2> QED
    BY <1>1, <1>2, <2>1, <2>2
<1> QED
  BY <1>1, <1>2, <1>3, <1>4 DEF Lines, new

-----------------------------------------------------------------------------
(* FileInv is inductive.                                                   *)

\* A step of one writer that keeps the file disturbs no other writer.
LEMMA OthersKeep ==
    ASSUME NEW w \in Writers, WriterInv(w),
           writer'[w] = writer[w], UNCHANGED file,
           writer[w].pc \in {"head", "end", "unlock"} => flock' = w
    PROVE  WriterInv(w)'
BY DEF WriterInv, Even

\* A writer that is not inside append knows nothing of the file.
LEMMA IdleKeeps ==
    ASSUME NEW w \in Writers, WriterInv(w),
           writer'[w] = writer[w], writer[w].pc \notin {"head", "end", "unlock"}
    PROVE  WriterInv(w)'
BY DEF WriterInv

(* Opening the log repairs its tail: what is left ends in a newline.          *)
LEMMA OpenKeeps ==
    ASSUME FileInv, NEW w \in Writers, Open(w), Nobody \notin Writers
    PROVE  FileInv'
<1>1. /\ flock = Nobody /\ file' = Repaired(file) /\ UNCHANGED flock
      /\ writer' = [writer EXCEPT ![w] = [Down EXCEPT !.pc = "up", !.floor = LastId(Repaired(file))]]
  BY DEF Open, LockFree
<1>2. Lines(file)'
  BY <1>1, RepairLeavesWholeLines DEF FileInv
<1>3. writer' = [x \in Writers |-> writer'[x]]
  BY <1>1 DEF FileInv
<1>4. ASSUME NEW x \in Writers PROVE WriterInv(x)'
  <2>1. CASE x = w
    <3>1. writer'[x] = [pc |-> "up", floor |-> LastId(Repaired(file)), id |-> 0, pre |-> 0]
      BY <1>1, <2>1 DEF FileInv, Down
    <3> QED
      BY <3>1 DEF WriterInv
  <2>2. CASE x # w
    <3>1. writer'[x] = writer[x] /\ WriterInv(x)
      BY <1>1, <2>2 DEF FileInv
    <3>2. writer[x].pc \notin {"head", "end", "unlock"}
      BY <1>1, <3>1 DEF WriterInv
    <3> QED
      BY <3>1, <3>2, IdleKeeps
  <2> QED
    BY <2>1, <2>2
<1> QED
  BY <1>2, <1>3, <1>4 DEF FileInv

(* A writer inside the lock notes a length at which a line ends. The repair   *)
(* before it leaves no other.                                                  *)
LEMMA BeginKeeps ==
    ASSUME FileInv, NEW w \in Writers, NEW now, Begin(w, now), Nobody \notin Writers
    PROVE  FileInv'
<1>1. PICK id, floor :
        writer' = [writer EXCEPT ![w] = [pc |-> "head", floor |-> floor, id |-> id,
                                         pre |-> Len(Repaired(file))]]
  BY DEF Begin
<1>2. flock = Nobody /\ file' = Repaired(file) /\ flock' = w
  BY DEF Begin, LockFree
<1>3. /\ Lines(file)' /\ Len(file)' = Len(Repaired(file))
      /\ Len(file') \in Nat /\ (Len(file') > 0 => file'[Len(file')].end)
  BY <1>2, RepairLeavesWholeLines DEF FileInv
<1>4. writer' = [x \in Writers |-> writer'[x]]
  BY <1>1 DEF FileInv
<1>5. ASSUME NEW x \in Writers PROVE WriterInv(x)'
  <2>1. CASE x = w
    <3>1. writer'[x] = [pc |-> "head", floor |-> floor, id |-> id, pre |-> Len(file')]
      BY <1>1, <1>3, <2>1 DEF FileInv
    <3> QED
      BY <1>2, <1>3, <2>1, <3>1 DEF WriterInv, Even
  <2>2. CASE x # w
    <3>1. writer'[x] = writer[x] /\ WriterInv(x)
      BY <1>1, <2>2 DEF FileInv
    <3>2. writer[x].pc \notin {"head", "end", "unlock"}
      BY <1>2, <3>1 DEF WriterInv
    <3> QED
      BY <3>1, <3>2, IdleKeeps
  <2> QED
    BY <2>1, <2>2
<1> QED
  BY <1>3, <1>4, <1>5 DEF FileInv

\* What the other writers know while one is inside append.
LEMMA OthersIdle ==
    ASSUME FileInv, NEW w \in Writers, writer[w].pc \in {"head", "end", "unlock"},
           NEW x \in Writers, x # w
    PROVE  WriterInv(x) /\ writer[x].pc \notin {"head", "end", "unlock"}
BY DEF FileInv, WriterInv

(* The beginning of a line goes behind whole lines only.                      *)
LEMMA WriteHeadKeeps ==
    ASSUME FileInv, NEW w \in Writers, WriteHead(w)
    PROVE  FileInv'
<1> DEFINE c == [id |-> writer[w].id, end |-> FALSE]
<1>1. /\ writer[w].pc = "head" /\ file' = Append(file, c) /\ UNCHANGED flock
      /\ writer' = [writer EXCEPT ![w].pc = "end"]
  BY DEF WriteHead
<1>2. WriterInv(w) /\ Lines(file) /\ ~c.end
  BY DEF FileInv
<1>3. Len(file) = writer[w].pre /\ Even(Len(file)) /\ Len(file) \in Nat
  BY <1>1, <1>2 DEF WriterInv, Lines
<1>4. /\ Lines(file)' /\ Len(file') = Len(file) + 1 /\ file'[Len(file) + 1] = c
      /\ \A i \in 1 .. Len(file) : file'[i] = file[i]
  <2>1. Len(file) > 0 => file[Len(file)].end
    BY <1>3 DEF Even
  <2> HIDE DEF c
  <2>2. /\ Lines(Append(file, c)) /\ Len(Append(file, c)) = Len(file) + 1
        /\ Append(file, c)[Len(file) + 1] = c
        /\ \A i \in 1 .. Len(file) : Append(file, c)[i] = file[i]
    BY <1>2, <2>1, AppendKeepsLines
  <2> QED
    BY <1>1, <2>2
<1>5. writer' = [x \in Writers |-> writer'[x]]
  BY <1>1 DEF FileInv
<1>6. ASSUME NEW x \in Writers PROVE WriterInv(x)'
  <2>1. CASE x = w
    <3>1. writer'[x] = [pc |-> "end", floor |-> writer[w].floor, id |-> writer[w].id,
                        pre |-> writer[w].pre]
      BY <1>1, <1>2, <2>1 DEF FileInv, WriterInv
    <3>2. Len(file') > 0 /\ writer[w].pre \in 0 .. Len(file')
          /\ (writer[w].pre > 0 => file'[writer[w].pre].end)
      BY <1>3, <1>4 DEF Even
    <3> QED
      BY <1>1, <1>2, <1>3, <1>4, <2>1, <3>1, <3>2 DEF WriterInv, Even
  <2>2. CASE x # w
    <3>1. writer'[x] = writer[x]
      BY <1>1, <2>2 DEF FileInv
    <3> QED
      BY <1>1, <2>2, <3>1, OthersIdle, IdleKeeps
  <2> QED
    BY <2>1, <2>2
<1> QED
  BY <1>4, <1>5, <1>6 DEF FileInv

(* The rest of a line goes behind its own beginning.                          *)
LEMMA WriteEndKeeps ==
    ASSUME FileInv, NEW w \in Writers, WriteEnd(w)
    PROVE  FileInv'
<1> DEFINE c == [id |-> writer[w].id, end |-> TRUE]
<1>1. /\ writer[w].pc = "end" /\ file' = Append(file, c) /\ UNCHANGED flock
      /\ writer' = [writer EXCEPT ![w].pc = "unlock"]
  BY DEF WriteEnd
<1>2. WriterInv(w) /\ Lines(file)
  BY DEF FileInv
<1>3. Lines(file)'
  <2>1. /\ Len(file) > 0 /\ c.end
        /\ file[Len(file)] = [id |-> c.id, end |-> FALSE]
    BY <1>1, <1>2 DEF WriterInv, Lines, Even
  <2> HIDE DEF c
  <2>2. Lines(Append(file, c))
    BY <1>2, <2>1, AppendKeepsLines
  <2> QED
    BY <1>1, <2>2
<1>4. writer' = [x \in Writers |-> writer'[x]]
  BY <1>1 DEF FileInv
<1>5. ASSUME NEW x \in Writers PROVE WriterInv(x)'
  <2>1. CASE x = w
    <3>1. writer'[x] = [pc |-> "unlock", floor |-> writer[w].floor, id |-> writer[w].id,
                        pre |-> writer[w].pre]
      BY <1>1, <1>2, <2>1 DEF FileInv, WriterInv
    <3> QED
      BY <1>1, <1>2, <2>1, <3>1 DEF WriterInv
  <2>2. CASE x # w
    <3>1. writer'[x] = writer[x]
      BY <1>1, <2>2 DEF FileInv
    <3> QED
      BY <1>1, <2>2, <3>1, OthersIdle, IdleKeeps
  <2> QED
    BY <2>1, <2>2
<1> QED
  BY <1>3, <1>4, <1>5 DEF FileInv

\* A failed write is cut back to whole lines, or left as it is.
LEMMA WriteFailsKeeps ==
    ASSUME FileInv, NEW w \in Writers, WriteFails(w)
    PROVE  FileInv'
<1>1. /\ writer[w].pc \in {"head", "end"}
      /\ file' \in {SubSeq(file, 1, writer[w].pre), file}
      /\ writer' = [writer EXCEPT ![w].pc = "up"]
  BY DEF WriteFails
<1>2. WriterInv(w) /\ Lines(file)
  BY DEF FileInv
<1>3. Lines(file)'
  <2>1. writer[w].pre \in 0 .. Len(file)
    BY <1>1, <1>2 DEF WriterInv, Even
  <2>2. Lines(SubSeq(file, 1, writer[w].pre))
    BY <1>2, <2>1, CutKeepsLines
  <2> QED
    BY <1>1, <1>2, <2>2
<1>4. writer' = [x \in Writers |-> writer'[x]]
  BY <1>1 DEF FileInv
<1>5. ASSUME NEW x \in Writers PROVE WriterInv(x)'
  <2>1. CASE x = w
    <3>1. writer'[x] = [pc |-> "up", floor |-> writer[w].floor, id |-> writer[w].id,
                        pre |-> writer[w].pre]
      BY <1>1, <1>2, <2>1 DEF FileInv, WriterInv
    <3> QED
      BY <3>1 DEF WriterInv
  <2>2. CASE x # w
    <3>1. writer'[x] = writer[x]
      BY <1>1, <2>2 DEF FileInv
    <3> QED
      BY <1>1, <2>2, <3>1, OthersIdle, IdleKeeps
  <2> QED
    BY <2>1, <2>2
<1> QED
  BY <1>3, <1>4, <1>5 DEF FileInv

(* A writer releases the lock only when its line is whole or cut off.         *)
LEMMA UnlockKeeps ==
    ASSUME FileInv, NEW w \in Writers, Unlock(w)
    PROVE  FileInv'
<1>1. /\ writer[w].pc = "unlock" /\ UNCHANGED file
      /\ writer' = [writer EXCEPT ![w].pc = "up"]
  BY DEF Unlock
<1>2. Lines(file)' /\ writer' = [x \in Writers |-> writer'[x]]
  BY <1>1 DEF FileInv
<1>3. ASSUME NEW x \in Writers PROVE WriterInv(x)'
  <2>1. CASE x = w
    <3>1. writer'[x] = [pc |-> "up", floor |-> writer[w].floor, id |-> writer[w].id,
                        pre |-> writer[w].pre]
      <4>1. /\ WriterInv(w)
            /\ writer'[w] = [writer[w] EXCEPT !.pc = "up"]
        BY <1>1 DEF FileInv
      <4> QED
        BY <2>1, <4>1 DEF WriterInv
    <3> QED
      BY <3>1 DEF WriterInv
  <2>2. CASE x # w
    <3>1. writer'[x] = writer[x]
      BY <1>1, <2>2 DEF FileInv
    <3> QED
      BY <1>1, <2>2, <3>1, OthersIdle, IdleKeeps
  <2> QED
    BY <2>1, <2>2
<1> QED
  BY <1>2, <1>3 DEF FileInv

\* A process that ends leaves the file as it is, torn or not.
LEMMA CrashKeeps ==
    ASSUME FileInv, NEW w \in Writers, Crash(w)
    PROVE  FileInv'
<1>1. /\ UNCHANGED file /\ writer' = [writer EXCEPT ![w] = Down]
      /\ flock' = IF flock = w THEN Nobody ELSE flock
  BY DEF Crash
<1>2. Lines(file)' /\ writer' = [x \in Writers |-> writer'[x]]
  BY <1>1 DEF FileInv
<1>3. ASSUME NEW x \in Writers PROVE WriterInv(x)'
  <2>1. CASE x = w
    <3>1. writer'[x] = [pc |-> "down", floor |-> 0, id |-> 0, pre |-> 0]
      BY <1>1, <2>1 DEF FileInv, Down
    <3> QED
      BY <3>1 DEF WriterInv
  <2>2. CASE x # w
    <3>1. writer'[x] = writer[x] /\ WriterInv(x)
      BY <1>1, <2>2 DEF FileInv
    <3>2. writer[x].pc \in {"head", "end", "unlock"} => flock' = x
      BY <1>1, <2>2, <3>1 DEF WriterInv
    <3> QED
      BY <1>1, <3>1, <3>2, OthersKeep
  <2> QED
    BY <2>1, <2>2
<1> QED
  BY <1>2, <1>3 DEF FileInv

\* Every step keeps FileInv.
LEMMA FileInvStep ==
    ASSUME FileInv, [Next]_vars PROVE FileInv'
<1>1. ASSUME UNCHANGED <<file, flock, writer>> PROVE FileInv'
  <2>1. Lines(file)' /\ writer' = [w \in Writers |-> writer'[w]]
    BY <1>1 DEF FileInv
  <2>2. \A w \in Writers : WriterInv(w)'
    BY <1>1 DEF FileInv, WriterInv, Even
  <2> QED
    BY <2>1, <2>2 DEF FileInv
<1>2. ASSUME NEW w \in Writers, Open(w) PROVE FileInv'
  BY <1>2, OpenKeeps, LogAssumption DEF LogAssumption
<1>3. ASSUME NEW w \in Writers, NEW now, Begin(w, now) PROVE FileInv'
  BY <1>3, BeginKeeps, LogAssumption DEF LogAssumption
<1>4. ASSUME NEW w \in Writers, Writing(w) PROVE FileInv'
  BY <1>4, WriteHeadKeeps, WriteEndKeeps, WriteFailsKeeps, UnlockKeeps, CrashKeeps
     DEF Writing
<1>5. CASE StartTick \/ ReadPiece \/ EndTick \/ RemountBus
  BY <1>1, <1>5 DEF StartTick, ReadPiece, EndTick, RemountBus
<1>6. CASE UNCHANGED vars
  BY <1>1, <1>6 DEF vars
<1> QED
  BY <1>2, <1>3, <1>4, <1>5, <1>6 DEF Next

-----------------------------------------------------------------------------
(* The theorems about the file.                                            *)

\* FileInv holds in every reachable state: the file is a sequence of whole
\* lines, possibly with a beginning behind them, and the writer that holds the
\* lock knows where its line begins.
THEOREM FileInvariance == Spec => []FileInv
<1>1. Init => FileInv
  <2> SUFFICES ASSUME Init PROVE FileInv
    OBVIOUS
  <2>1. Lines(file)
    BY DEF Init, Lines
  <2>2. writer = [w \in Writers |-> writer[w]]
    BY DEF Init
  <2>3. ASSUME NEW w \in Writers PROVE WriterInv(w)
    <3>1. writer[w] = [pc |-> "down", floor |-> 0, id |-> 0, pre |-> 0]
      BY DEF Init, Down
    <3> QED
      BY <3>1 DEF WriterInv
  <2> QED
    BY <2>1, <2>2, <2>3 DEF FileInv
<1>2. FileInv /\ [Next]_vars => FileInv'
  BY FileInvStep
<1> QED
  BY <1>1, <1>2, PTL DEF Spec

\* Whatever writers and rollbacks fail or die, and wherever: every line that
\* ends in a newline is one event, never a torn tail glued to the next line.
THEOREM NoLineIsGlued == Spec => []NoGluedLines
<1>1. FileInv => NoGluedLines
  <2> SUFFICES ASSUME FileInv, NEW i \in Newlines(file) PROVE i \in Parsed(file)
    BY DEF NoGluedLines
  <2>1. Lines(file) /\ DOMAIN file = 1 .. Len(file) /\ i \in DOMAIN file /\ file[i].end
    <3>1. Lines(file)
      BY DEF FileInv
    <3>2. i \in DOMAIN file /\ file[i].end
      BY DEF Newlines
    <3> QED
      BY <3>1, <3>2 DEF Lines
  <2>2. /\ i - 1 \in DOMAIN file
        /\ file[i - 1] = [id |-> file[i].id, end |-> FALSE]
    BY <2>1 DEF Lines
  <2>3. i - 2 \in DOMAIN file => file[i - 2].end
    <3>1. ~file[i - 1].end /\ (i - 2 \in DOMAIN file => i - 1 > 1 /\ (i - 1) - 1 = i - 2)
      BY <2>1, <2>2
    <3> QED
      BY <2>1, <2>2, <3>1 DEF Lines
  <2> QED
    BY <2>2, <2>3 DEF Parsed
<1> QED
  BY <1>1, FileInvariance, PTL

-----------------------------------------------------------------------------
(* Nth: the elements of a finite set of numbers, in order.                 *)

\* The elements of S up to i.
UpTo(S, i) == {j \in S : j <= i}

\* Counting the elements up to each one gives the numbers from 1 to their number,
\* each once and in order.
LEMMA Counting ==
    ASSUME NEW S \in SUBSET Int, IsFiniteSet(S)
    PROVE  /\ Cardinality(S) \in Nat
           /\ \A i \in S : Cardinality(UpTo(S, i)) \in 1 .. Cardinality(S)
           /\ \A i, j \in S : i < j => Cardinality(UpTo(S, i)) < Cardinality(UpTo(S, j))
           /\ \A n \in 1 .. Cardinality(S) : \E i \in S : Cardinality(UpTo(S, i)) = n
<1> DEFINE g == [i \in S |-> Cardinality(UpTo(S, i))]
           R == {g[i] : i \in S}
           N == 1 .. Cardinality(S)
<1>1. Cardinality(S) \in Nat
  BY FS_CardinalityType
<1>2. ASSUME NEW i \in S PROVE IsFiniteSet(UpTo(S, i)) /\ g[i] \in N
  <2>1. UpTo(S, i) \in SUBSET S /\ UpTo(S, i) # {}
    BY DEF UpTo
  <2>2. IsFiniteSet(UpTo(S, i)) /\ Cardinality(UpTo(S, i)) <= Cardinality(S)
    BY <2>1, FS_Subset
  <2>3. Cardinality(UpTo(S, i)) \in Nat /\ Cardinality(UpTo(S, i)) # 0
    BY <2>1, <2>2, FS_CardinalityType, FS_EmptySet
  <2> QED
    BY <1>1, <2>2, <2>3
<1>3. ASSUME NEW i \in S, NEW j \in S, i < j PROVE g[i] < g[j]
  <2>1. UpTo(S, i) \in SUBSET UpTo(S, j) /\ j \in UpTo(S, j) /\ j \notin UpTo(S, i)
    <3>1. i \in Int /\ j \in Int
      OBVIOUS
    <3>2. ASSUME NEW k \in S, k <= i PROVE k <= j
      <4>1. k \in Int
        OBVIOUS
      <4> QED
        BY <1>3, <3>1, <3>2, <4>1
    <3>3. j <= j /\ ~(j <= i)
      BY <1>3, <3>1
    <3> QED
      BY <3>2, <3>3, Zenon DEF UpTo
  <2>2. /\ Cardinality(UpTo(S, i)) <= Cardinality(UpTo(S, j))
        /\ Cardinality(UpTo(S, i)) # Cardinality(UpTo(S, j))
    BY <1>2, <2>1, FS_Subset
  <2> QED
    BY <1>1, <1>2, <2>2
<1>4. ASSUME NEW i \in S, NEW j \in S, i # j PROVE g[i] # g[j]
  <2>1. i < j \/ j < i
    BY <1>4
  <2>2. g[i] \in Int /\ g[j] \in Int
    BY <1>1, <1>2
  <2> QED
    BY <1>3, <2>1, <2>2
<1>5. R = N
  <2>1. g \in [S -> R] /\ R \in SUBSET N
    BY <1>2
  <2>2. g \in Injection(S, R) /\ g \in Surjection(S, R)
    <3> HIDE DEF g
    <3> QED
      BY <1>4, <2>1 DEF Injection, Surjection, IsInjective
  <2>3. Cardinality(R) = Cardinality(S)
    <3> HIDE DEF g, R
    <3> QED
      BY <2>2, FS_Surjection
  <2>4. IsFiniteSet(N) /\ Cardinality(N) = Cardinality(S)
    BY <1>1, FS_Interval
  <2> HIDE DEF R, N
  <2> QED
    BY <2>1, <2>3, <2>4, FS_Subset
<1> HIDE DEF N
<1>6. \A n \in N : \E i \in S : g[i] = n
  BY <1>5
<1>7. \A i \in S : g[i] = Cardinality(UpTo(S, i))
  OBVIOUS
<1> HIDE DEF g
<1> QED
  BY <1>1, <1>2, <1>3, <1>6, <1>7 DEF N

\* Nth enumerates the set, in order.
LEMMA NthIs ==
    ASSUME NEW S \in SUBSET Int, IsFiniteSet(S), NEW n \in 1 .. Cardinality(S)
    PROVE  /\ Nth(S, n) \in S
           /\ \A i \in S : Cardinality(UpTo(S, i)) = n => i = Nth(S, n)
           /\ \A m \in 1 .. Cardinality(S) : m < n => Nth(S, m) < Nth(S, n)
<1> DEFINE c == [i \in S |-> Cardinality(UpTo(S, i))]
<1>1. \A m \in 1 .. Cardinality(S) : Nth(S, m) \in S /\ c[Nth(S, m)] = m
  <2> SUFFICES ASSUME NEW m \in 1 .. Cardinality(S)
               PROVE  Nth(S, m) \in S /\ c[Nth(S, m)] = m
    OBVIOUS
  <2>1. \E i \in S : Cardinality(UpTo(S, i)) = m
    BY Counting
  <2>2. Nth(S, m) \in S /\ Cardinality(UpTo(S, Nth(S, m))) = m
    BY <2>1, Zenon DEF Nth, UpTo
  <2> QED
    BY <2>2
<1>2. \A i, j \in S : c[i] \in Int /\ (i < j => c[i] < c[j])
  BY Counting
<1>3. \A i \in S : i \in Int /\ c[i] = Cardinality(UpTo(S, i))
  OBVIOUS
<1>4. Cardinality(S) \in Nat
  BY FS_CardinalityType
<1> HIDE DEF c
<1>5. ASSUME NEW i \in S, NEW j \in S, c[i] <= c[j] PROVE i <= j
  <2>1. i \in Int /\ j \in Int /\ c[i] \in Int /\ c[j] \in Int
    BY <1>2, <1>3
  <2>2. j < i => c[j] < c[i]
    BY <1>2
  <2> QED
    BY <1>5, <2>1, <2>2
<1>6. ASSUME NEW i \in S, c[i] = n PROVE i = Nth(S, n)
  <2>1. c[i] = c[Nth(S, n)] /\ Nth(S, n) \in S
    BY <1>1, <1>6
  <2>2. PICK k \in S : k = Nth(S, n)
    BY <2>1
  <2>3. c[i] <= c[k] /\ c[k] <= c[i]
    BY <1>2, <2>1, <2>2
  <2>4. i <= k /\ k <= i /\ i \in Int /\ k \in Int
    BY <1>5, <1>3, <2>3
  <2> QED
    BY <2>2, <2>4
<1>7. ASSUME NEW m \in 1 .. Cardinality(S), m < n PROVE Nth(S, m) < Nth(S, n)
  <2>1. /\ Nth(S, m) \in S /\ Nth(S, n) \in S
        /\ c[Nth(S, m)] = m /\ c[Nth(S, n)] = n
    BY <1>1
  <2>2. PICK j \in S, k \in S : j = Nth(S, m) /\ k = Nth(S, n)
    BY <2>1
  <2>3. c[j] < c[k]
    BY <1>7, <2>1, <2>2
  <2>4. j \in Int /\ k \in Int /\ c[j] \in Int /\ c[k] \in Int
    BY <1>2, <1>3
  <2>5. ~(k <= j)
    BY <1>5, <2>3, <2>4
  <2> QED
    BY <2>2, <2>4, <2>5
<1> QED
  BY <1>1, <1>3, <1>6, <1>7

-----------------------------------------------------------------------------
(* Lines: beginnings and ends take turns.                                  *)

\* What a cell says of the one before it.
LEMMA LinesAt ==
    ASSUME NEW cells, Lines(cells), NEW i \in DOMAIN cells
    PROVE  /\ cells[i].end => /\ i > 1
                              /\ cells[i - 1] = [id |-> cells[i].id, end |-> FALSE]
                              /\ ~cells[i - 1].end
           /\ ~cells[i].end => (i > 1 => cells[i - 1].end)
<1>1. /\ cells[i].end => i > 1 /\ cells[i - 1] = [id |-> cells[i].id, end |-> FALSE]
      /\ ~cells[i].end => (i > 1 => cells[i - 1].end)
  BY Zenon DEF Lines
<1>2. cells[i - 1] = [id |-> cells[i].id, end |-> FALSE] => ~cells[i - 1].end
  OBVIOUS
<1> QED
  BY <1>1, <1>2, Zenon

\* Of a sequence of lines, the cells at even places are the ends.
LEMMA Alternate ==
    ASSUME NEW cells, Lines(cells)
    PROVE  \A i \in DOMAIN cells : cells[i].end <=> i % 2 = 0
<1> DEFINE Bad == {i \in DOMAIN cells : ~(cells[i].end <=> i % 2 = 0)}
<1>1. DOMAIN cells = 1 .. Len(cells) /\ Len(cells) \in Nat
  BY DEF Lines
<1>2. SUFFICES ASSUME Bad # {} PROVE FALSE
  OBVIOUS
<1>3. Bad \in SUBSET Nat
  BY <1>1
<1>4. PICK i \in Bad : \A k \in Bad : ~ (<<k, i>> \in OpToRel(<, Nat))
  <2> HIDE DEF Bad
  <2> QED
    BY <1>2, <1>3, NatLessThanWellFounded, WFMin
<1>5. \A k \in Bad : ~(k < i)
  BY <1>3, <1>4 DEF OpToRel
<1>6. i \in DOMAIN cells /\ i \in 1 .. Len(cells) /\ ~(cells[i].end <=> i % 2 = 0)
  BY <1>1
<1>7. CASE i = 1
  <2>1. ~cells[i].end
    <3>1. ~(i > 1)
      BY <1>7
    <3> QED
      BY <1>6, <3>1, LinesAt, Zenon
  <2>2. i % 2 # 0
    BY <1>7
  <2> QED
    BY <1>6, <2>1, <2>2
<1>8. CASE i > 1
  <2>1. i - 1 \in DOMAIN cells
    BY <1>1, <1>6, <1>8
  <2>2. cells[i - 1].end <=> (i - 1) % 2 = 0
    BY <1>5, <1>6, <2>1
  <2>3. (i - 1) % 2 = 0 <=> i % 2 # 0
    BY <1>6
  <2>4. CASE cells[i].end
    <3>1. ~cells[i - 1].end
      BY <1>1, <1>6, <2>4, LinesAt
    <3> QED
      BY <1>6, <2>2, <2>3, <2>4, <3>1
  <2>5. CASE ~cells[i].end
    <3>1. cells[i - 1].end
      BY <1>1, <1>6, <1>8, <2>5, LinesAt
    <3> QED
      BY <1>6, <2>2, <2>3, <2>5, <3>1
  <2> QED
    BY <2>4, <2>5
<1> QED
  BY <1>1, <1>6, <1>7, <1>8

\* The ids of the whole lines.
Ids(cells) == [n \in 1 .. Len(cells) \div 2 |-> cells[2 * n].id]

\* Of a sequence of lines, every end parses, and they are every other cell.
LEMMA EndsParse ==
    ASSUME NEW cells, Lines(cells)
    PROVE  /\ Parsed(cells) = Newlines(cells)
           /\ Newlines(cells) = {i \in 1 .. Len(cells) : i % 2 = 0}
<1>1. DOMAIN cells = 1 .. Len(cells) /\ Len(cells) \in Nat
  BY DEF Lines
<1>2. Newlines(cells) = {i \in 1 .. Len(cells) : i % 2 = 0}
  BY <1>1, Alternate DEF Newlines
<1>3. ASSUME NEW i \in Newlines(cells) PROVE i \in Parsed(cells)
  <2>1. i \in DOMAIN cells /\ cells[i].end
    BY DEF Newlines
  <2>2. i > 1 /\ cells[i - 1] = [id |-> cells[i].id, end |-> FALSE]
    BY <2>1 DEF Lines
  <2>3. i - 2 \in DOMAIN cells => cells[i - 2].end
    BY <1>1, <2>1, Alternate
  <2> QED
    BY <1>1, <2>1, <2>2, <2>3 DEF Parsed
<1> QED
  BY <1>2, <1>3 DEF Parsed

\* There are n even numbers up to 2 * n or 2 * n + 1.
LEMMA CountEvens ==
    ASSUME NEW n \in Nat, NEW k \in {2 * n, 2 * n + 1}
    PROVE  /\ IsFiniteSet({i \in 1 .. k : i % 2 = 0})
           /\ Cardinality({i \in 1 .. k : i % 2 = 0}) = n
<1> DEFINE E == {i \in 1 .. k : i % 2 = 0}
           f == [m \in 1 .. n |-> 2 * m]
<1>1. f \in [1 .. n -> E]
  OBVIOUS
<1>2. \A a, b \in 1 .. n : f[a] = f[b] => a = b
  OBVIOUS
<1>3. ASSUME NEW i \in E PROVE \E m \in 1 .. n : f[m] = i
  <2>1. i \div 2 \in 1 .. n /\ 2 * (i \div 2) = i
    OBVIOUS
  <2> QED
    BY <2>1
<1> HIDE DEF f, E
<1>4. f \in Bijection(1 .. n, E)
  BY <1>1, <1>2, <1>3 DEF Bijection, Injection, Surjection, IsInjective
<1>5. IsFiniteSet(1 .. n) /\ Cardinality(1 .. n) = n
  BY FS_Interval
<1>6. IsFiniteSet(E) /\ Cardinality(E) = n
  BY <1>4, <1>5, FS_Bijection DEF ExistsBijection
<1> QED
  BY <1>6 DEF E

\* The events of a sequence of lines are the ids of its even cells.
LEMMA EventsOfLines ==
    ASSUME NEW cells, Lines(cells)
    PROVE  Events(cells) = Ids(cells)
<1>1. Len(cells) \in Nat
  BY DEF Lines
<1> DEFINE half == Len(cells) \div 2
           E    == Parsed(cells)
<1>2. half \in Nat /\ Len(cells) \in {2 * half, 2 * half + 1}
  BY <1>1
<1>3. E = {i \in 1 .. Len(cells) : i % 2 = 0}
  BY EndsParse
<1>4. IsFiniteSet(E) /\ Cardinality(E) = half
  <2> HIDE DEF half, E
  <2> QED
    BY <1>2, <1>3, CountEvens
<1>5. ASSUME NEW n \in 1 .. half PROVE Nth(E, n) = 2 * n
  <2>1. 2 * n \in E
    BY <1>1, <1>3
  <2>2. UpTo(E, 2 * n) = {i \in 1 .. 2 * n : i % 2 = 0}
    BY <1>1, <1>2, <1>3 DEF UpTo
  <2>3. Cardinality(UpTo(E, 2 * n)) = n
    <3>1. n \in Nat /\ 2 * n \in {2 * n, 2 * n + 1}
      BY <1>2
    <3> QED
      BY <2>2, <3>1, CountEvens
  <2>4. E \in SUBSET Int
    BY <1>3
  <2>5. n \in 1 .. Cardinality(E)
    BY <1>4
  <2> HIDE DEF E, half
  <2> QED
    BY <1>4, <2>1, <2>3, <2>4, <2>5, NthIs
<1>6. Events(cells) = [n \in 1 .. Cardinality(E) |-> cells[Nth(E, n)].id]
  BY DEF Events, Tails
<1> HIDE DEF E
<1>7. Events(cells) = [n \in 1 .. half |-> cells[2 * n].id]
  BY <1>4, <1>5, <1>6
<1> QED
  BY <1>7 DEF Ids

-----------------------------------------------------------------------------
(* How the steps of writers change the lines of the file.                  *)

\* The cells of whole lines.
WholeLength(cells) == 2 * (Len(cells) \div 2)

\* Sequences with the same whole lines have the same ids.
LEMMA SameLines ==
    ASSUME NEW a, NEW b, Lines(a), Lines(b), WholeLength(a) = WholeLength(b),
           \A i \in 1 .. WholeLength(a) : a[i] = b[i]
    PROVE  /\ Newlines(a) = Newlines(b)
           /\ Ids(a) = Ids(b)
<1>1. Len(a) \in Nat /\ Len(b) \in Nat
  BY DEF Lines
<1>2. Len(a) \div 2 = Len(b) \div 2
  BY <1>1 DEF WholeLength
<1>3. {i \in 1 .. Len(a) : i % 2 = 0} = {i \in 1 .. Len(b) : i % 2 = 0}
  BY <1>1, <1>2
<1>4. Newlines(a) = Newlines(b)
  BY <1>3, EndsParse
<1>5. \A n \in 1 .. Len(a) \div 2 : 2 * n \in 1 .. WholeLength(a)
  BY <1>1 DEF WholeLength
<1>6. Ids(a) = Ids(b)
  BY <1>2, <1>5 DEF Ids
<1> QED
  BY <1>4, <1>6

\* What is left of a sequence of lines that is cut after its whole lines.
LEMMA CutToWholeLines ==
    ASSUME NEW cells, Lines(cells)
    PROVE  /\ WholeLength(cells) \in 0 .. Len(cells)
           /\ Lines(SubSeq(cells, 1, WholeLength(cells)))
           /\ Len(SubSeq(cells, 1, WholeLength(cells))) = WholeLength(cells)
           /\ WholeLength(SubSeq(cells, 1, WholeLength(cells))) = WholeLength(cells)
           /\ \A i \in 1 .. WholeLength(cells) : SubSeq(cells, 1, WholeLength(cells))[i] = cells[i]
<1>1. Len(cells) \in Nat
  BY DEF Lines
<1>2. WholeLength(cells) \in 0 .. Len(cells) /\ 2 * (WholeLength(cells) \div 2) = WholeLength(cells)
  BY <1>1 DEF WholeLength
<1>3. /\ Lines(SubSeq(cells, 1, WholeLength(cells)))
      /\ Len(SubSeq(cells, 1, WholeLength(cells))) = WholeLength(cells)
      /\ \A i \in 1 .. WholeLength(cells) : SubSeq(cells, 1, WholeLength(cells))[i] = cells[i]
  BY <1>2, CutKeepsLines
<1>4. WholeLength(SubSeq(cells, 1, WholeLength(cells))) = WholeLength(cells)
  BY <1>2, <1>3, Zenon DEF WholeLength
<1> QED
  BY <1>2, <1>3, <1>4

\* repair_tail and read_from_lossy cut after the whole lines.
LEMMA WholeIs ==
    ASSUME NEW cells, Lines(cells)
    PROVE  Whole(cells) = SubSeq(cells, 1, WholeLength(cells))
<1>1. Len(cells) \in Nat
  BY DEF Lines
<1>2. Newlines(cells) = {i \in 1 .. Len(cells) : i % 2 = 0}
  BY EndsParse
<1>3. CASE Newlines(cells) = {}
  <2>1. ~(2 \in 1 .. Len(cells))
    BY <1>2, <1>3
  <2>2. WholeLength(cells) = 0
    BY <1>1, <2>1 DEF WholeLength
  <2>3. SubSeq(cells, 1, 0) = <<>>
    <3>1. cells \in Seq({cells[i] : i \in DOMAIN cells})
      BY DEF Lines
    <3> QED
      BY <1>1, <3>1
  <2> QED
    BY <1>3, <2>2, <2>3 DEF Whole
<1>4. CASE Newlines(cells) # {}
  <2> DEFINE top == CHOOSE i \in Newlines(cells) : \A j \in Newlines(cells) : j <= i
  <2>1. WholeLength(cells) \in Newlines(cells) /\ \A j \in Newlines(cells) : j <= WholeLength(cells)
    BY <1>1, <1>2, <1>4 DEF WholeLength
  <2>2. top \in Newlines(cells) /\ \A j \in Newlines(cells) : j <= top
    BY <2>1
  <2> HIDE DEF top
  <2>3. top \in Int /\ WholeLength(cells) \in Int
    BY <1>2, <2>1, <2>2
  <2>4. top = WholeLength(cells)
    BY <2>1, <2>2, <2>3
  <2> QED
    BY <1>4, <2>4 DEF Whole, top
<1> QED
  BY <1>3, <1>4

\* The last id is that of the last whole line.
LEMMA LastIdIs ==
    ASSUME NEW cells, Lines(cells)
    PROVE  /\ Newlines(cells) = {} => LastId(cells) = 0
           /\ Newlines(cells) # {} => /\ WholeLength(cells) \in Newlines(cells)
                                      /\ LastId(cells) = cells[WholeLength(cells)].id
<1>1. Len(cells) \in Nat
  BY DEF Lines
<1>2. Newlines(cells) = {i \in 1 .. Len(cells) : i % 2 = 0} /\ Parsed(cells) = Newlines(cells)
  BY EndsParse
<1>3. Newlines(cells) = {} => LastId(cells) = 0
  BY <1>2 DEF LastId
<1>4. ASSUME Newlines(cells) # {}
      PROVE  WholeLength(cells) \in Newlines(cells) /\ LastId(cells) = cells[WholeLength(cells)].id
  <2> DEFINE half == Len(cells) \div 2
  <2>1. WholeLength(cells) \in Newlines(cells) /\ half \in 1 .. half /\ half \in Nat
    BY <1>1, <1>2, <1>4 DEF WholeLength
  <2>2. LastId(cells) = Last(Ids(cells))
    BY <1>2, <1>4, EventsOfLines DEF LastId
  <2>3. Ids(cells) = [n \in 1 .. half |-> cells[2 * n].id]
    BY DEF Ids
  <2>4. Len(Ids(cells)) = half /\ Ids(cells)[half] = cells[2 * half].id
    <3> HIDE DEF half
    <3> QED
      BY <2>1, <2>3
  <2>5. LastId(cells) = Ids(cells)[Len(Ids(cells))]
    BY <2>2 DEF Last
  <2> QED
    BY <2>1, <2>4, <2>5 DEF WholeLength
<1> QED
  BY <1>3, <1>4

\* The whole lines stay as they are.
Kept ==
    /\ WholeLength(file') = WholeLength(file)
    /\ \A i \in 1 .. WholeLength(file) : file'[i] = file[i]

\* One line is completed behind them.
Committed(id) ==
    /\ Len(file') = Len(file) + 1
    /\ WholeLength(file') = Len(file') /\ WholeLength(file) = Len(file) - 1
    /\ \A i \in 1 .. Len(file) : file'[i] = file[i]
    /\ file'[Len(file')] = [id |-> id, end |-> TRUE]

\* Where a writer inside append finds the end of the file.
LEMMA WriterAtEnd ==
    ASSUME FileInv, NEW w \in Writers, writer[w].pc \in {"head", "end"}
    PROVE  /\ writer[w].pre = WholeLength(file)
           /\ writer[w].pc = "head" => Len(file) = WholeLength(file)
           /\ writer[w].pc = "end" => Len(file) = WholeLength(file) + 1
<1>1. Lines(file) /\ WriterInv(w) /\ Len(file) \in Nat /\ DOMAIN file = 1 .. Len(file)
  BY DEF FileInv, Lines
<1>2. /\ writer[w].pre \in 0 .. Len(file)
      /\ writer[w].pre > 0 => file[writer[w].pre].end
      /\ writer[w].pc = "head" => Len(file) = writer[w].pre
      /\ writer[w].pc = "end" => Len(file) = writer[w].pre + 1
  BY <1>1 DEF WriterInv, Even
<1>3. writer[w].pre % 2 = 0
  <2>1. CASE writer[w].pre = 0
    BY <2>1
  <2>2. CASE writer[w].pre > 0
    <3>1. writer[w].pre \in DOMAIN file
      BY <1>1, <1>2, <2>2
    <3> QED
      BY <1>1, <1>2, <2>2, <3>1, Alternate
  <2> QED
    BY <1>2, <2>1, <2>2
<1>4. WholeLength(file) = IF Len(file) % 2 = 0 THEN Len(file) ELSE Len(file) - 1
  BY <1>1 DEF WholeLength
<1>5. CASE writer[w].pc = "head"
  BY <1>1, <1>2, <1>3, <1>4, <1>5
<1>6. CASE writer[w].pc = "end"
  <2>1. Len(file) = writer[w].pre + 1 /\ writer[w].pre \in Nat
    BY <1>1, <1>2, <1>6
  <2>2. Len(file) % 2 # 0
    BY <1>3, <2>1
  <2>3. WholeLength(file) = Len(file) - 1
    BY <1>4, <2>2
  <2> QED
    BY <1>6, <2>1, <2>3
<1> QED
  BY <1>5, <1>6

\* What a step does to the lines of the file.
LEMMA FileStep ==
    ASSUME FileInv, FileInv', [Next]_vars
    PROVE  \/ Kept
           \/ \E w \in Writers : WriteEnd(w) /\ Committed(writer[w].id)
<1>1. Lines(file) /\ Lines(file)' /\ Len(file) \in Nat /\ Len(file') \in Nat
  BY DEF FileInv, Lines
<1>2. ASSUME file' = file PROVE Kept
  BY <1>2 DEF Kept
<1>3. ASSUME file' = Repaired(file) PROVE Kept
  <2>1. file' = SubSeq(file, 1, WholeLength(file))
    BY <1>1, <1>3, WholeIs DEF Repaired
  <2> QED
    BY <1>1, <2>1, CutToWholeLines DEF Kept
<1>4. ASSUME NEW w \in Writers, Writing(w)
      PROVE  Kept \/ (WriteEnd(w) /\ Committed(writer[w].id))
  <2>1. CASE WriteHead(w)
    <3> DEFINE c == [id |-> writer[w].id, end |-> FALSE]
    <3>1. Len(file) = WholeLength(file) /\ file' = Append(file, c)
      BY <2>1, WriterAtEnd DEF WriteHead
    <3>2. file \in Seq({file[i] : i \in DOMAIN file})
      BY <1>1 DEF Lines
    <3>3. Len(file') = Len(file) + 1 /\ \A i \in 1 .. Len(file) : file'[i] = file[i]
      <4> HIDE DEF c
      <4> QED
        BY <3>1, <3>2
    <3>4. WholeLength(file') = WholeLength(file)
      <4>1. Len(file) = 2 * (Len(file) \div 2)
        BY <3>1 DEF WholeLength
      <4> QED
        BY <1>1, <3>3, <4>1 DEF WholeLength
    <3> QED
      BY <3>1, <3>3, <3>4 DEF Kept
  <2>2. CASE WriteEnd(w)
    <3> DEFINE c == [id |-> writer[w].id, end |-> TRUE]
    <3>1. Len(file) = WholeLength(file) + 1 /\ file' = Append(file, c)
      BY <2>2, WriterAtEnd DEF WriteEnd
    <3>2. file \in Seq({file[i] : i \in DOMAIN file})
      BY <1>1 DEF Lines
    <3>3. /\ Len(file') = Len(file) + 1 /\ file'[Len(file) + 1] = c
          /\ \A i \in 1 .. Len(file) : file'[i] = file[i]
      <4> HIDE DEF c
      <4> QED
        BY <3>1, <3>2
    <3>4. WholeLength(file') = Len(file') /\ WholeLength(file) = Len(file) - 1
      <4>1. Len(file) = 2 * (Len(file) \div 2) + 1
        BY <3>1 DEF WholeLength
      <4> QED
        BY <1>1, <3>3, <4>1 DEF WholeLength
    <3> QED
      BY <2>2, <3>3, <3>4 DEF Committed
  <2>3. CASE WriteFails(w)
    <3>1. writer[w].pc \in {"head", "end"} /\ file' \in {SubSeq(file, 1, writer[w].pre), file}
      BY <2>3 DEF WriteFails
    <3>2. file' = SubSeq(file, 1, WholeLength(file)) \/ file' = file
      BY <3>1, WriterAtEnd
    <3>3. ASSUME file' = SubSeq(file, 1, WholeLength(file)) PROVE Kept
      BY <1>1, <3>3, CutToWholeLines DEF Kept
    <3> QED
      BY <1>2, <3>2, <3>3
  <2>4. CASE Unlock(w) \/ Crash(w)
    BY <1>2, <2>4 DEF Unlock, Crash
  <2> QED
    BY <1>4, <2>1, <2>2, <2>3, <2>4 DEF Writing
<1>5. ASSUME NEW w \in Writers, Open(w) \/ \E now \in 1 .. MaxId : Begin(w, now)
      PROVE  Kept
  BY <1>3, <1>5 DEF Open, Begin
<1>6. CASE StartTick \/ ReadPiece \/ EndTick \/ RemountBus
  BY <1>2, <1>6 DEF StartTick, ReadPiece, EndTick, RemountBus
<1>7. CASE UNCHANGED vars
  BY <1>2, <1>7 DEF vars
<1> QED
  BY <1>4, <1>5, <1>6, <1>7 DEF Next

\* A step that keeps the lines keeps their newlines and ids.
LEMMA KeptNewlines ==
    ASSUME FileInv, FileInv', Kept
    PROVE  /\ Newlines(file)' = Newlines(file)
           /\ Ids(file)' = Ids(file)
           /\ \A i \in Newlines(file) : file'[i] = file[i]
<1>1. Lines(file) /\ Lines(file') /\ Len(file) \in Nat
  <2>1. Lines(file) /\ Lines(file')
    BY Zenon DEF FileInv
  <2>2. Lines(file) => Len(file) \in Nat
    BY DEF Lines
  <2> QED
    BY <2>1, <2>2
<1>2. Newlines(file') = Newlines(file) /\ Ids(file') = Ids(file)
  BY <1>1, SameLines DEF Kept
<1>3. Newlines(file) = {i \in 1 .. Len(file) : i % 2 = 0}
  BY <1>1, EndsParse
<1>4. \A i \in Newlines(file) : i \in 1 .. WholeLength(file)
  BY <1>1, <1>3 DEF WholeLength
<1> QED
  BY <1>2, <1>4 DEF Kept

\* A completed line adds its newline, and its id behind the others.
LEMMA CommittedNewlines ==
    ASSUME FileInv, FileInv', NEW id, Committed(id)
    PROVE  /\ Newlines(file)' = Newlines(file) \cup {Len(file')}
           /\ Len(file') \notin Newlines(file)
           /\ Ids(file)' = Append(Ids(file), id)
           /\ \A i \in Newlines(file) : file'[i] = file[i] /\ i < Len(file')
           /\ file'[Len(file')].id = id
<1>1. Lines(file) /\ Lines(file') /\ Len(file) \in Nat
  <2>1. Lines(file) /\ Lines(file')
    BY Zenon DEF FileInv
  <2>2. Lines(file) => Len(file) \in Nat
    BY DEF Lines
  <2> QED
    BY <2>1, <2>2
<1>2. /\ Len(file') = Len(file) + 1
      /\ Len(file') = 2 * (Len(file') \div 2) /\ Len(file) = 2 * (Len(file) \div 2) + 1
      /\ \A i \in 1 .. Len(file) : file'[i] = file[i]
      /\ file'[Len(file')] = [id |-> id, end |-> TRUE]
  BY <1>1 DEF Committed, WholeLength
<1>3. /\ Newlines(file) = {i \in 1 .. Len(file) : i % 2 = 0}
      /\ Newlines(file') = {i \in 1 .. Len(file') : i % 2 = 0}
  BY <1>1, EndsParse
<1>4. Newlines(file') = Newlines(file) \cup {Len(file')}
  BY <1>1, <1>2, <1>3
<1>5. Len(file') \notin Newlines(file) /\ \A i \in Newlines(file) : file'[i] = file[i] /\ i < Len(file')
  BY <1>1, <1>2, <1>3
<1>6. Ids(file') = Append(Ids(file), id)
  <2> DEFINE h == Len(file) \div 2
             s == Ids(file)
  <2>1. h \in Nat /\ Len(file') \div 2 = h + 1 /\ 2 * (h + 1) = Len(file')
    BY <1>1, <1>2
  <2>2. s = [n \in 1 .. h |-> file[2 * n].id]
    BY DEF Ids
  <2>3. Ids(file') = [n \in 1 .. h + 1 |-> file'[2 * n].id]
    BY <2>1 DEF Ids
  <2>4. \A n \in 1 .. h : file'[2 * n] = file[2 * n]
    BY <1>1, <1>2
  <2>5. file'[2 * (h + 1)].id = id
    BY <1>2, <2>1
  <2> HIDE DEF h, s
  <2>6. Ids(file') = [n \in 1 .. h + 1 |-> IF n = h + 1 THEN id ELSE s[n]]
    <3>1. ASSUME NEW n \in 1 .. h + 1
          PROVE  file'[2 * n].id = IF n = h + 1 THEN id ELSE s[n]
      <4>1. n # h + 1 => n \in 1 .. h
        BY <2>1
      <4> QED
        BY <2>2, <2>4, <2>5, <4>1
    <3> QED
      BY <2>3, <3>1
  <2>7. Append(s, id) = [n \in 1 .. h + 1 |-> IF n = h + 1 THEN id ELSE s[n]]
    <3> DEFINE S == {s[n] : n \in 1 .. h} \cup {id}
    <3>1. s \in Seq(S) /\ Len(s) = h /\ id \in S
      <4>1. s \in [1 .. h -> S] /\ id \in S
        BY <2>2
      <4> HIDE DEF S
      <4> QED
        BY <2>1, <4>1
    <3> DEFINE t == Append(s, id)
    <3> HIDE DEF S
    <3>2. /\ t \in Seq(S) /\ Len(t) = h + 1 /\ t[h + 1] = id
          /\ \A n \in 1 .. h : t[n] = s[n]
      BY <2>1, <3>1
    <3>3. \A n \in 1 .. h + 1 : n = h + 1 \/ n \in 1 .. h
      BY <2>1
    <3> HIDE DEF t
    <3>4. t \in [1 .. h + 1 -> S]
      BY <3>2
    <3>5. t = [n \in 1 .. h + 1 |-> IF n = h + 1 THEN id ELSE s[n]]
      BY <3>2, <3>3, <3>4
    <3> QED
      BY <3>5 DEF t
  <2> QED
    BY <2>6, <2>7 DEF s
<1> QED
  BY <1>2, <1>4, <1>5, <1>6

-----------------------------------------------------------------------------
(* The ids.                                                                *)

\* Ids rise from line to line, and a writer's id is above those of the file.
IdsRise ==
    /\ \A i, j \in Newlines(file) : i < j => file[i].id < file[j].id
    /\ \A w \in Writers : writer[w].pc \in {"head", "end"} =>
          /\ writer[w].id >= 1
          /\ \A i \in Newlines(file) : file[i].id < writer[w].id

\* What a cell and a cut of cells are.
LEMMA CellsTyped ==
    ASSUME NEW cells \in Seq(Cell)
    PROVE  /\ \A i \in DOMAIN cells : cells[i].id \in 1 .. MaxId
           /\ \A i \in Newlines(cells) : i \in DOMAIN cells /\ cells[i].id \in 1 .. MaxId
           /\ \A n \in 0 .. Len(cells) : SubSeq(cells, 1, n) \in Seq(Cell)
<1>1. ASSUME NEW i \in DOMAIN cells PROVE cells[i].id \in 1 .. MaxId
  <2>1. cells[i] \in Cell
    OBVIOUS
  <2> QED
    BY <2>1 DEF Cell
<1>2. \A i \in Newlines(cells) : i \in DOMAIN cells
  BY DEF Newlines
<1>3. \A n \in 0 .. Len(cells) : SubSeq(cells, 1, n) \in Seq(Cell)
  OBVIOUS
<1> QED
  BY <1>1, <1>2, <1>3

\* A repaired file is a file, with the lines it had.
LEMMA RepairedFile ==
    ASSUME NEW cells \in Seq(Cell), Lines(cells)
    PROVE  /\ Repaired(cells) \in Seq(Cell) /\ Lines(Repaired(cells))
           /\ Newlines(Repaired(cells)) = Newlines(cells)
           /\ \A i \in Newlines(cells) : i \in DOMAIN cells /\ Repaired(cells)[i] = cells[i]
           /\ WholeLength(Repaired(cells)) = WholeLength(cells)
<1>1. Repaired(cells) = SubSeq(cells, 1, WholeLength(cells)) /\ Len(cells) \in Nat
  BY WholeIs DEF Repaired
<1>2. /\ WholeLength(cells) \in 0 .. Len(cells) /\ Lines(Repaired(cells))
      /\ WholeLength(Repaired(cells)) = WholeLength(cells)
      /\ \A i \in 1 .. WholeLength(cells) : Repaired(cells)[i] = cells[i]
  BY <1>1, CutToWholeLines
<1>3. Repaired(cells) \in Seq(Cell)
  BY <1>1, <1>2, CellsTyped
<1>4. Newlines(Repaired(cells)) = Newlines(cells)
  BY <1>2, SameLines
<1>5. \A i \in Newlines(cells) : i \in 1 .. WholeLength(cells) /\ i \in DOMAIN cells
  <2>1. Newlines(cells) = {i \in 1 .. Len(cells) : i % 2 = 0}
    BY EndsParse
  <2> QED
    BY <1>1, <2>1 DEF WholeLength
<1> QED
  BY <1>2, <1>3, <1>4, <1>5

\* The last id is one of them, or 0, and with rising ids the highest.
LEMMA LastIdBounds ==
    ASSUME NEW cells \in Seq(Cell), Lines(cells),
           \A i, j \in Newlines(cells) : i < j => cells[i].id < cells[j].id
    PROVE  /\ LastId(Repaired(cells)) \in 0 .. MaxId
           /\ \A i \in Newlines(cells) : cells[i].id <= LastId(Repaired(cells))
<1> DEFINE r == Repaired(cells)
           e == WholeLength(cells)
<1>1. /\ r \in Seq(Cell) /\ Lines(r) /\ Newlines(r) = Newlines(cells)
      /\ \A i \in Newlines(cells) : i \in DOMAIN cells /\ r[i] = cells[i]
      /\ WholeLength(r) = e
  BY RepairedFile
<1>2. /\ Newlines(r) = {} => LastId(r) = 0
      /\ Newlines(r) # {} => e \in Newlines(r) /\ LastId(r) = r[e].id
  BY <1>1, LastIdIs
<1>3. CASE Newlines(cells) = {}
  BY <1>1, <1>2, <1>3, LogAssumption DEF LogAssumption
<1>4. CASE Newlines(cells) # {}
  <2>1. e \in Newlines(cells) /\ e \in DOMAIN cells /\ LastId(r) = cells[e].id
    BY <1>1, <1>2, <1>4
  <2>2. \A i \in DOMAIN cells : cells[i].id \in 1 .. MaxId
    BY CellsTyped
  <2>3. Newlines(cells) = {i \in 1 .. Len(cells) : i % 2 = 0}
    BY EndsParse
  <2>4. ASSUME NEW i \in Newlines(cells) PROVE cells[i].id <= LastId(r)
    <3>1. i = e \/ i < e
      BY <2>3 DEF WholeLength
    <3>2. cells[i].id \in Int /\ cells[e].id \in Int
      BY <1>1, <2>1, <2>2
    <3>3. i < e => cells[i].id < cells[e].id
      BY <2>1
    <3> HIDE DEF e, r
    <3> QED
      BY <2>1, <3>1, <3>2, <3>3
  <2>5. LastId(r) \in 0 .. MaxId
    <3>1. cells[e].id \in 1 .. MaxId
      BY <2>1, <2>2
    <3> HIDE DEF e, r
    <3> QED
      BY <2>1, <3>1, LogAssumption DEF LogAssumption
  <2> QED
    BY <2>4, <2>5
<1> QED
  BY <1>3, <1>4

\* The types of what writers change.
WriterTypes ==
    /\ file \in Seq(Cell)
    /\ flock \in Writers \cup {Nobody}
    /\ writer \in [Writers -> [pc : {"down", "up", "head", "end", "unlock"},
                               floor : 0 .. MaxId, id : 0 .. MaxId, pre : Nat]]

\* What a process that opens the log knows.
LEMMA OpenedWriter ==
    ASSUME NEW S, NEW last \in S, 0 \in S
    PROVE  [Down EXCEPT !.pc = "up", !.floor = last]
              \in [pc : {"down", "up", "head", "end", "unlock"}, floor : S, id : S, pre : Nat]
BY DEF Down

\* A writer begins to write with an id above all of the file.
LEMMA BeginId ==
    ASSUME WriterTypes, FileInv, IdsRise, NEW w \in Writers, NEW now \in 1 .. MaxId, Begin(w, now)
    PROVE  \E id \in 1 .. MaxId :
              /\ writer' = [writer EXCEPT ![w] = [pc |-> "head", floor |-> id, id |-> id,
                                                  pre |-> Len(Repaired(file))]]
              /\ \A i \in Newlines(file) : file[i].id < id
<1>1. file \in Seq(Cell) /\ Lines(file) /\ writer[w].floor \in 0 .. MaxId
  BY DEF WriterTypes, FileInv
<1> DEFINE last  == LastId(Repaired(file))
           floor == MaxOf(writer[w].floor, last)
           id    == NextId(floor, now)
<1>2. last \in 0 .. MaxId /\ \A i \in Newlines(file) : file[i].id <= last
  BY <1>1, LastIdBounds DEF IdsRise
<1>3. /\ id <= MaxId
      /\ writer' = [writer EXCEPT ![w] = [pc |-> "head", floor |-> id, id |-> id,
                                          pre |-> Len(Repaired(file))]]
  BY DEF Begin
<1>4. MaxId \in Nat
  BY LogAssumption DEF LogAssumption
<1> HIDE DEF last
<1>5. id \in 1 .. MaxId /\ last < id
  BY <1>1, <1>2, <1>3, <1>4 DEF MaxOf, NextId
<1> HIDE DEF id
<1>6. \A i \in Newlines(file) : file[i].id \in Int
  <2>1. \A i \in Newlines(file) : file[i].id \in 1 .. MaxId
    BY <1>1, CellsTyped
  <2> QED
    BY <2>1, <1>4
<1>7. ASSUME NEW i \in Newlines(file) PROVE file[i].id < id
  <2>1. file[i].id \in Int /\ file[i].id <= last
    BY <1>2, <1>6
  <2> QED
    BY <1>2, <1>5, <2>1
<1> QED
  BY <1>3, <1>5, <1>7

\* A step keeps the types of what writers change.
LEMMA WriterTypesStep ==
    ASSUME WriterTypes, FileInv, IdsRise, [Next]_vars
    PROVE  WriterTypes'
<1> DEFINE W == [pc : {"down", "up", "head", "end", "unlock"},
                 floor : 0 .. MaxId, id : 0 .. MaxId, pre : Nat]
<1>1. /\ file \in Seq(Cell) /\ Lines(file) /\ Repaired(file) \in Seq(Cell)
      /\ flock \in Writers \cup {Nobody} /\ writer \in [Writers -> W]
  BY RepairedFile DEF WriterTypes, FileInv
<1>2. MaxId \in Nat
  BY LogAssumption DEF LogAssumption
<1>3. ASSUME UNCHANGED <<file, flock, writer>> PROVE WriterTypes'
  BY <1>3 DEF WriterTypes
<1>4. ASSUME NEW w \in Writers, Open(w) PROVE WriterTypes'
  <2>1. [Down EXCEPT !.pc = "up", !.floor = LastId(Repaired(file))] \in W
    <3>1. PICK last \in 0 .. MaxId : last = LastId(Repaired(file))
      BY <1>1, LastIdBounds DEF IdsRise
    <3>2. 0 \in 0 .. MaxId
      BY <1>2
    <3>3. [Down EXCEPT !.pc = "up", !.floor = last] \in W
      BY <3>2, OpenedWriter
    <3> QED
      BY <3>1, <3>3, Zenon
  <2> HIDE DEF W
  <2>2. /\ file' = Repaired(file) /\ flock' = flock
        /\ writer' = [writer EXCEPT ![w] = [Down EXCEPT !.pc = "up", !.floor = LastId(Repaired(file))]]
    BY <1>4 DEF Open
  <2>3. writer' \in [Writers -> W]
    BY <1>1, <2>1, <2>2
  <2> QED
    BY <1>1, <2>2, <2>3 DEF WriterTypes, W
<1>5. ASSUME NEW w \in Writers, NEW now \in 1 .. MaxId, Begin(w, now) PROVE WriterTypes'
  <2>1. file' = Repaired(file) /\ flock' = w
    BY <1>5 DEF Begin
  <2>2. PICK id \in 1 .. MaxId :
            writer' = [writer EXCEPT ![w] = [pc |-> "head", floor |-> id, id |-> id,
                                             pre |-> Len(Repaired(file))]]
    BY <1>5, BeginId
  <2>3. [pc |-> "head", floor |-> id, id |-> id, pre |-> Len(Repaired(file))] \in W
    BY <1>1, <1>2
  <2> HIDE DEF W
  <2>4. writer' \in [Writers -> W]
    BY <1>1, <2>2, <2>3
  <2> QED
    BY <1>1, <2>1, <2>4 DEF WriterTypes, W
<1>6. ASSUME NEW w \in Writers, Writing(w) PROVE WriterTypes'
  <2>1. writer[w] \in W
    BY <1>1
  <2>2. CASE WriteHead(w)
    <3>1. writer[w].id \in 1 .. MaxId
      BY <2>1, <2>2, <1>2 DEF IdsRise, WriteHead
    <3>2. [id |-> writer[w].id, end |-> FALSE] \in Cell
      BY <3>1 DEF Cell
    <3>3. file' \in Seq(Cell) /\ flock' = flock /\ writer' = [writer EXCEPT ![w].pc = "end"]
      BY <1>1, <2>2, <3>2 DEF WriteHead
    <3>4. writer' \in [Writers -> W]
      BY <1>1, <3>3
    <3> QED
      BY <1>1, <3>3, <3>4 DEF WriterTypes
  <2>3. CASE WriteEnd(w)
    <3>1. writer[w].id \in 1 .. MaxId
      BY <2>1, <2>3, <1>2 DEF IdsRise, WriteEnd
    <3>2. [id |-> writer[w].id, end |-> TRUE] \in Cell
      BY <3>1 DEF Cell
    <3>3. file' \in Seq(Cell) /\ flock' = flock /\ writer' = [writer EXCEPT ![w].pc = "unlock"]
      BY <1>1, <2>3, <3>2 DEF WriteEnd
    <3>4. writer' \in [Writers -> W]
      BY <1>1, <3>3
    <3> QED
      BY <1>1, <3>3, <3>4 DEF WriterTypes
  <2>4. CASE WriteFails(w)
    <3>1. writer[w].pc \in {"head", "end"} /\ file' \in {SubSeq(file, 1, writer[w].pre), file}
      BY <2>4 DEF WriteFails
    <3>2. writer[w].pre = WholeLength(file) /\ WholeLength(file) \in 0 .. Len(file)
      BY <1>1, <3>1, WriterAtEnd, CutToWholeLines
    <3>3. file' \in Seq(Cell)
      <4>1. SubSeq(file, 1, WholeLength(file)) \in Seq(Cell)
        BY <1>1, <3>2, CellsTyped
      <4>2. file' = SubSeq(file, 1, WholeLength(file)) \/ file' = file
        BY <3>1, <3>2
      <4> QED
        BY <1>1, <4>1, <4>2
    <3>4. flock' = Nobody /\ writer' = [writer EXCEPT ![w].pc = "up"]
      BY <2>4 DEF WriteFails
    <3>5. writer' \in [Writers -> W]
      BY <1>1, <3>4
    <3> QED
      BY <1>1, <3>3, <3>4, <3>5 DEF WriterTypes
  <2>5. CASE Unlock(w)
    <3>1. file' = file /\ flock' = Nobody /\ writer' = [writer EXCEPT ![w].pc = "up"]
      BY <2>5 DEF Unlock
    <3>2. writer' \in [Writers -> W]
      BY <1>1, <3>1
    <3> QED
      BY <1>1, <3>1, <3>2 DEF WriterTypes
  <2>6. CASE Crash(w)
    <3>1. /\ file' = file /\ flock' \in {flock, Nobody}
          /\ writer' = [writer EXCEPT ![w] = Down]
      BY <2>6 DEF Crash
    <3>2. Down \in W
      BY <1>2 DEF Down
    <3>3. writer' \in [Writers -> W]
      <4> HIDE DEF W
      <4> QED
        BY <1>1, <3>1, <3>2
    <3> QED
      BY <1>1, <3>1, <3>3 DEF WriterTypes
  <2> QED
    BY <1>6, <2>2, <2>3, <2>4, <2>5, <2>6 DEF Writing
<1>7. CASE StartTick \/ ReadPiece \/ EndTick \/ RemountBus
  BY <1>3, <1>7 DEF StartTick, ReadPiece, EndTick, RemountBus
<1>8. CASE UNCHANGED vars
  BY <1>3, <1>8 DEF vars
<1> QED
  BY <1>4, <1>5, <1>6, <1>7, <1>8 DEF Next

\* Who is writing after a step wrote before it, with the same id, or begins.
LEMMA WritersStep ==
    ASSUME WriterTypes, FileInv, IdsRise, [Next]_vars, NEW w \in Writers,
           writer'[w].pc \in {"head", "end"}
    PROVE  /\ ~\E x \in Writers : WriteEnd(x)
           /\ \/ writer[w].pc \in {"head", "end"} /\ writer'[w].id = writer[w].id
              \/ /\ writer'[w].id >= 1
                 /\ \A i \in Newlines(file) : file[i].id < writer'[w].id
<1>1. writer = [x \in Writers |-> writer[x]] /\ \A x \in Writers : WriterInv(x)
  BY DEF FileInv
<1>2. ASSUME NEW x \in Writers, writer[x].pc \in {"head", "end", "unlock"},
             writer[w].pc \in {"head", "end", "unlock"}
      PROVE  x = w
  BY <1>1, <1>2 DEF WriterInv
<1>3. ASSUME NEW x \in Writers, WriteEnd(x) PROVE FALSE
  <2>1. writer[x].pc = "end" /\ writer' = [writer EXCEPT ![x].pc = "unlock"]
    BY <1>3 DEF WriteEnd
  <2>2. x # w
    BY <1>1, <2>1
  <2>3. writer'[w] = writer[w]
    BY <1>1, <2>1, <2>2
  <2> QED
    BY <1>2, <2>1, <2>2, <2>3
<1> DEFINE Same == writer[w].pc \in {"head", "end"} /\ writer'[w].id = writer[w].id
<1>4. ASSUME writer'[w] = writer[w] PROVE Same
  BY <1>4
<1>5. ASSUME NEW x \in Writers, NEW now \in 1 .. MaxId, Begin(x, now)
      PROVE  \/ Same
             \/ /\ writer'[w].id >= 1
                /\ \A i \in Newlines(file) : file[i].id < writer'[w].id
  <2>1. PICK id \in 1 .. MaxId :
              /\ writer' = [writer EXCEPT ![x] = [pc |-> "head", floor |-> id, id |-> id,
                                                  pre |-> Len(Repaired(file))]]
              /\ \A i \in Newlines(file) : file[i].id < id
    BY <1>5, BeginId
  <2>2. CASE x = w
    <3>1. writer'[w].id = id
      BY <1>1, <2>1, <2>2
    <3> QED
      BY <2>1, <3>1
  <2>3. CASE x # w
    <3>1. writer'[w] = writer[w]
      BY <1>1, <2>1, <2>3
    <3> QED
      BY <1>4, <3>1
  <2> QED
    BY <2>2, <2>3
<1>6. ASSUME NEW x \in Writers, NEW r, writer' = [writer EXCEPT ![x] = r],
             r.pc \notin {"head", "end"} \/ (r.id = writer[x].id /\ writer[x].pc \in {"head", "end"})
      PROVE  Same
  <2>1. CASE x = w
    <3>1. writer'[w] = r
      BY <1>1, <1>6, <2>1
    <3> QED
      BY <1>6, <2>1, <3>1
  <2>2. CASE x # w
    <3>1. writer'[w] = writer[w]
      BY <1>1, <1>6, <2>2
    <3> QED
      BY <1>4, <3>1
  <2> QED
    BY <2>1, <2>2
<1>7. ASSUME NEW x \in Writers, Open(x) \/ Crash(x) PROVE Same
  <2>1. PICK r : writer' = [writer EXCEPT ![x] = r] /\ r.pc \notin {"head", "end"}
    <3>1. Down.pc = "down" /\ [Down EXCEPT !.pc = "up", !.floor = LastId(Repaired(file))].pc = "up"
      BY DEF Down
    <3> QED
      BY <1>7, <3>1 DEF Open, Crash
  <2> QED
    BY <1>6, <2>1
<1>8. ASSUME NEW x \in Writers, WriteHead(x) \/ WriteFails(x) \/ Unlock(x) PROVE Same
  <2>1. writer[x] = [pc |-> writer[x].pc, floor |-> writer[x].floor, id |-> writer[x].id,
                     pre |-> writer[x].pre]
    BY <1>1 DEF WriterInv
  <2>2. PICK p \in {"end", "up"} :
           /\ writer' = [writer EXCEPT ![x] = [@ EXCEPT !.pc = p]]
           /\ p = "end" => writer[x].pc = "head"
    <3>1. WriteHead(x) => writer' = [writer EXCEPT ![x] = [@ EXCEPT !.pc = "end"]] /\ writer[x].pc = "head"
      BY DEF WriteHead
    <3>2. WriteFails(x) \/ Unlock(x) => writer' = [writer EXCEPT ![x] = [@ EXCEPT !.pc = "up"]]
      BY DEF WriteFails, Unlock
    <3> QED
      BY <1>8, <3>1, <3>2
  <2>3. /\ [writer[x] EXCEPT !.pc = p].pc = p
        /\ [writer[x] EXCEPT !.pc = p].id = writer[x].id
    BY <2>1
  <2>4. writer' = [writer EXCEPT ![x] = [writer[x] EXCEPT !.pc = p]]
    BY <2>2
  <2> QED
    BY <1>6, <2>2, <2>3, <2>4
<1>9. CASE StartTick \/ ReadPiece \/ EndTick \/ RemountBus \/ UNCHANGED vars
  <2>1. writer' = writer
    BY <1>9 DEF StartTick, ReadPiece, EndTick, RemountBus, vars
  <2> QED
    BY <1>3, <1>4, <2>1
<1> QED
  BY <1>3, <1>5, <1>7, <1>8, <1>9 DEF Next, Writing

\* Ids rise, whoever appends next and whatever its clock says.
LEMMA IdsStep ==
    ASSUME WriterTypes, FileInv, FileInv', IdsRise, [Next]_vars
    PROVE  IdsRise'
<1>1. CASE Kept
  <2>1. /\ Newlines(file)' = Newlines(file)
        /\ \A i \in Newlines(file) : file'[i] = file[i]
    BY <1>1, KeptNewlines
  <2>2. ASSUME NEW w \in Writers, writer'[w].pc \in {"head", "end"}
        PROVE  /\ writer'[w].id >= 1
               /\ \A i \in Newlines(file) : file[i].id < writer'[w].id
    BY <2>2, WritersStep DEF IdsRise
  <2> QED
    BY <2>1, <2>2 DEF IdsRise
<1>2. ASSUME NEW w \in Writers, WriteEnd(w), Committed(writer[w].id) PROVE IdsRise'
  <2>1. /\ Newlines(file)' = Newlines(file) \cup {Len(file')}
        /\ \A i \in Newlines(file) : file'[i] = file[i] /\ i < Len(file')
        /\ file'[Len(file')].id = writer[w].id
    BY <1>2, CommittedNewlines
  <2>2. \A i \in Newlines(file) : file[i].id < writer[w].id /\ i \in Int
    <3>1. writer[w].pc = "end" /\ Lines(file)
      BY <1>2 DEF WriteEnd, FileInv
    <3> QED
      BY <3>1 DEF IdsRise, Newlines, Lines
  <2>3. Len(file') \in Int
    BY DEF FileInv, Lines
  <2>4. \A x \in Writers : writer'[x].pc \notin {"head", "end"}
    BY <1>2, WritersStep
  <2>5. ASSUME NEW i \in Newlines(file)', NEW j \in Newlines(file)', i < j
        PROVE  file'[i].id < file'[j].id
    <3>1. i \in Newlines(file)
      BY <2>1, <2>2, <2>3, <2>5
    <3>2. CASE j \in Newlines(file)
      BY <2>1, <2>5, <3>1, <3>2 DEF IdsRise
    <3>3. CASE j = Len(file')
      BY <2>1, <2>2, <3>1, <3>3
    <3> QED
      BY <2>1, <3>2, <3>3
  <2> QED
    BY <2>4, <2>5 DEF IdsRise
<1> QED
  BY <1>1, <1>2, FileStep

-----------------------------------------------------------------------------
(* What the bus reads.                                                     *)

\* The bus is at the end of a line.  Whatever else it has read, the line ends
\* among it are those of the file; a bus that locks has read the file as it is,
\* and no writer is about.
ReaderInv ==
    /\ Even(reader.offset)
    /\ \A p \in Newlines(reader.buf) : /\ reader.offset + p \in DOMAIN file
                                       /\ file[reader.offset + p] = reader.buf[p]
    /\ reader.locks /\ reader.pc = "reading" =>
          /\ flock = Nobody
          /\ \A p \in DOMAIN reader.buf : /\ reader.offset + p \in DOMAIN file
                                          /\ file[reader.offset + p] = reader.buf[p]

\* What was delivered ended with lines before the bus's offset, with rising ids.
DeliveredInv ==
    /\ \A i, j \in DOMAIN origin : i < j => origin[i] < origin[j]
    /\ \A i \in DOMAIN origin :
          \E n \in Newlines(file) : n <= reader.offset /\ file[n].id = origin[i]

\* The types of what the bus changes.
ReaderTypes ==
    /\ reader \in [pc : {"idle", "reading"}, offset : Nat, buf : Seq(Cell),
                   locks : BOOLEAN]
    /\ delivered \in Seq(1 .. MaxId) /\ origin \in Seq(1 .. MaxId)
    /\ remounts \in 0 .. MaxRemounts

\* A function on an interval from 1 is a sequence.
LEMMA FunctionIsSeq ==
    ASSUME NEW S, NEW k \in Nat, NEW e \in [1 .. k -> S]
    PROVE  e \in Seq(S) /\ Len(e) = k
OBVIOUS

\* A piece of a sequence, and what it makes appended to another.
LEMMA PieceIs ==
    ASSUME NEW S, NEW cells \in Seq(S), NEW a \in Nat, NEW b \in a + 1 .. Len(cells)
    PROVE  /\ SubSeq(cells, a + 1, b) \in Seq(S)
           /\ Len(SubSeq(cells, a + 1, b)) = b - a
           /\ \A i \in 1 .. b - a : SubSeq(cells, a + 1, b)[i] = cells[a + i]
<1>1. \A i \in a + 1 .. b : i \in DOMAIN cells
  OBVIOUS
<1>2. SubSeq(cells, a + 1, b) \in Seq(S)
  BY <1>1
<1>3. Len(SubSeq(cells, a + 1, b)) = b - a
  BY <1>1
<1>4. ASSUME NEW i \in 1 .. b - a PROVE SubSeq(cells, a + 1, b)[i] = cells[a + i]
  <2>1. (a + 1) + i - 1 = a + i
    OBVIOUS
  <2> QED
    BY <1>1, <1>3, <2>1
<1> QED
  BY <1>2, <1>3, <1>4

\* The newlines of any cells can be counted off.
LEMMA NthOfNewlines ==
    ASSUME NEW cells \in Seq(Cell), NEW P \in SUBSET Newlines(cells)
    PROVE  /\ Cardinality(P) \in Nat
           /\ \A n \in 1 .. Cardinality(P) :
                 /\ Nth(P, n) \in P
                 /\ \A m \in 1 .. Cardinality(P) : m < n => Nth(P, m) < Nth(P, n)
<1>1. P \in SUBSET (1 .. Len(cells)) /\ Len(cells) \in Nat
  BY DEF Newlines
<1>2. IsFiniteSet(P) /\ P \in SUBSET Int
  <2>1. IsFiniteSet(1 .. Len(cells)) /\ 1 .. Len(cells) \in SUBSET Int
    BY <1>1, FS_Interval
  <2>2. IsFiniteSet(P)
    BY <1>1, <2>1, FS_Subset, Zenon
  <2> QED
    BY <1>1, <2>1, <2>2
<1>3. Cardinality(P) \in Nat
  BY <1>2, FS_CardinalityType
<1>4. \A n \in 1 .. Cardinality(P) :
         /\ Nth(P, n) \in P
         /\ \A m \in 1 .. Cardinality(P) : m < n => Nth(P, m) < Nth(P, n)
  BY <1>2, NthIs, SMTT(30)
<1> QED
  BY <1>3, <1>4

\* Whatever newlines of whatever cells are taken, the lines end there with ids, in
\* the order of the newlines.
LEMMA TailsAre ==
    ASSUME NEW cells \in Seq(Cell), NEW P \in SUBSET Newlines(cells)
    PROVE  /\ Tails(cells, P) \in Seq(1 .. MaxId)
           /\ \E f \in [1 .. Len(Tails(cells, P)) -> Newlines(cells)] :
                 /\ \A n \in 1 .. Len(Tails(cells, P)) : Tails(cells, P)[n] = cells[f[n]].id
                 /\ \A m, n \in 1 .. Len(Tails(cells, P)) : m < n => f[m] < f[n]
<1> DEFINE k == Cardinality(P)
           f == [n \in 1 .. k |-> Nth(P, n)]
           e == Tails(cells, P)
<1>1. P \in SUBSET Newlines(cells) /\ P \in SUBSET (1 .. Len(cells)) /\ Len(cells) \in Nat
  BY DEF Newlines
<1>2. k \in Nat /\ \A n \in 1 .. k : Nth(P, n) \in P
                                     /\ \A m \in 1 .. k : m < n => Nth(P, m) < Nth(P, n)
  BY NthOfNewlines
<1>3. e = [n \in 1 .. k |-> cells[Nth(P, n)].id]
  BY DEF Tails
<1>4. \A p \in P : cells[p].id \in 1 .. MaxId
  BY <1>1, CellsTyped
<1> HIDE DEF k, e
<1>5. f \in [1 .. k -> Newlines(cells)] /\ \A m, n \in 1 .. k : m < n => f[m] < f[n]
  BY <1>1, <1>2
<1>6. e \in [1 .. k -> 1 .. MaxId] /\ \A n \in 1 .. k : e[n] = cells[f[n]].id
  BY <1>2, <1>3, <1>4
<1> HIDE DEF f
<1>7. e \in Seq(1 .. MaxId) /\ Len(e) = k
  BY <1>2, <1>6, FunctionIsSeq
<1>8. \E g \in [1 .. k -> Newlines(cells)] :
           /\ \A n \in 1 .. k : e[n] = cells[g[n]].id
           /\ \A m, n \in 1 .. k : m < n => g[m] < g[n]
  BY <1>5, <1>6
<1> QED
  BY <1>7, <1>8, Zenon DEF e

\* They begin with ids too, where there is a cell before the newline.
LEMMA HeadsAre ==
    ASSUME NEW cells \in Seq(Cell), NEW P \in SUBSET Newlines(cells),
           \A p \in P : p - 1 \in DOMAIN cells
    PROVE  Heads(cells, P) \in Seq(1 .. MaxId)
<1> DEFINE k == Cardinality(P)
           e == Heads(cells, P)
<1>1. k \in Nat /\ \A n \in 1 .. k : Nth(P, n) \in P
  BY NthOfNewlines
<1>2. e = [n \in 1 .. k |-> cells[Nth(P, n) - 1].id]
  BY DEF Heads
<1>3. \A p \in P : cells[p - 1].id \in 1 .. MaxId
  BY CellsTyped
<1> HIDE DEF k, e
<1>4. e \in [1 .. k -> 1 .. MaxId]
  BY <1>1, <1>2, <1>3
<1>5. e \in Seq(1 .. MaxId)
  BY <1>1, <1>4, FunctionIsSeq
<1> QED
  BY <1>5 DEF e

\* The cells up to the last newline, of any cells.
LEMMA WholeOf ==
    ASSUME NEW cells \in Seq(Cell)
    PROVE  /\ Whole(cells) \in Seq(Cell)
           /\ Len(Whole(cells)) \in 0 .. Len(cells)
           /\ \A i \in 1 .. Len(Whole(cells)) : Whole(cells)[i] = cells[i]
           /\ Len(Whole(cells)) > 0 => Len(Whole(cells)) \in Newlines(cells)
<1>1. CASE Newlines(cells) = {}
  <2>1. Whole(cells) = <<>>
    BY <1>1, Zenon DEF Whole
  <2>2. << >> \in Seq(Cell) /\ Len(<< >>) = 0 /\ Len(cells) \in Nat
    OBVIOUS
  <2>3. Whole(cells) \in Seq(Cell) /\ Len(Whole(cells)) = 0
    BY <2>1, <2>2, Zenon
  <2>4. 0 \in 0 .. Len(cells) /\ 1 .. 0 = {} /\ ~(0 > 0)
    BY <2>2
  <2> QED
    BY <2>3, <2>4, Zenon
<1>2. CASE Newlines(cells) # {}
  <2> DEFINE N   == Newlines(cells)
             B   == {Len(cells) - j : j \in N}
             top == CHOOSE i \in N : \A j \in N : j <= i
  <2>1. N \in SUBSET (1 .. Len(cells)) /\ Len(cells) \in Nat
    BY DEF Newlines
  <2>2. PICK b \in B : \A d \in B : ~ (<<d, b>> \in OpToRel(<, Nat))
    <3>1. B \in SUBSET Nat /\ B # {}
      BY <1>2, <2>1
    <3> HIDE DEF B
    <3> QED
      BY <3>1, NatLessThanWellFounded, WFMin
  <2>3. PICK i \in N : b = Len(cells) - i
    OBVIOUS
  <2>4. ASSUME NEW j \in N PROVE j <= i
    <3>1. Len(cells) - j \in B
      OBVIOUS
    <3>2. ~(Len(cells) - j < b)
      <4> HIDE DEF B
      <4>1. Len(cells) - j \in Nat /\ b \in Nat
        BY <2>1, <2>3
      <4> QED
        BY <2>2, <3>1, <4>1 DEF OpToRel
    <3> HIDE DEF B, N
    <3> QED
      BY <2>1, <2>3, <3>2
  <2>5. top \in N
    <3> HIDE DEF N
    <3> QED
      BY <2>4
  <2> HIDE DEF top
  <2>6. top \in 1 .. Len(cells)
    BY <2>1, <2>5
  <2>7. Whole(cells) = SubSeq(cells, 1, top)
    BY <1>2 DEF Whole, top
  <2>8. Len(SubSeq(cells, 1, top)) = top /\ \A j \in 1 .. top : SubSeq(cells, 1, top)[j] = cells[j]
    BY <2>6
  <2> QED
    BY <2>1, <2>5, <2>6, <2>7, <2>8, CellsTyped
<1> QED
  BY <1>1, <1>2

\* Where the bus stands.
LEMMA OffsetIs ==
    ASSUME Lines(file), NEW n, Even(n)
    PROVE  n \in 0 .. WholeLength(file) /\ n % 2 = 0 /\ WholeLength(file) \in 0 .. Len(file)
<1>1. n \in 0 .. Len(file) /\ (n > 0 => file[n].end) /\ Len(file) \in Nat
  BY DEF Even, Lines
<1>2. n % 2 = 0
  <2>1. CASE n = 0
    BY <2>1
  <2>2. CASE n > 0
    <3>1. n \in DOMAIN file /\ file[n].end
      BY <1>1, <2>2 DEF Lines
    <3> QED
      BY <3>1, Alternate
  <2> QED
    BY <1>1, <2>1, <2>2
<1>3. WholeLength(file) = IF Len(file) % 2 = 0 THEN Len(file) ELSE Len(file) - 1
  BY <1>1 DEF WholeLength
<1> QED
  BY <1>1, <1>2, <1>3

\* A step keeps the whole lines, and may add one.
LEMMA LinesStay ==
    ASSUME FileInv, FileInv', [Next]_vars
    PROVE  \A i \in 1 .. WholeLength(file) : i \in 1 .. Len(file') /\ i \in DOMAIN file' /\ file'[i] = file[i]
<1>1. Lines(file) /\ Lines(file')
  BY Zenon DEF FileInv
<1>2. Len(file) \in Nat /\ Len(file') \in Nat /\ DOMAIN file' = 1 .. Len(file')
  <2>1. \A c : Lines(c) => Len(c) \in Nat /\ DOMAIN c = 1 .. Len(c)
    BY DEF Lines
  <2> QED
    BY <1>1, <2>1
<1>3. CASE Kept
  <2>1. WholeLength(file') \in 0 .. Len(file')
    BY <1>1, CutToWholeLines
  <2> QED
    BY <1>2, <1>3, <2>1 DEF Kept
<1>4. CASE \E id : Committed(id)
  <2>1. WholeLength(file) \in 0 .. Len(file) /\ Len(file') = Len(file) + 1
        /\ \A i \in 1 .. Len(file) : file'[i] = file[i]
    BY <1>1, <1>4, CutToWholeLines DEF Committed
  <2> QED
    BY <1>2, <2>1
<1> QED
  BY <1>3, <1>4, FileStep

\* While a bus that locks reads, nobody writes.
LEMMA LockedOut ==
    ASSUME FileInv, reader.locks, reader.pc = "reading", flock = Nobody, NEW w \in Writers,
           Open(w) \/ (\E now \in 1 .. MaxId : Begin(w, now)) \/ Writing(w)
    PROVE  file' = file /\ flock' = Nobody
<1>1. ~LockFree
  BY DEF LockFree
<1>2. writer[w].pc \notin {"head", "end", "unlock"}
  BY LogAssumption DEF FileInv, WriterInv, LogAssumption
<1>3. Crash(w)
  BY <1>1, <1>2 DEF Open, Begin, Writing, WriteHead, WriteEnd, WriteFails, Unlock
<1> QED
  BY <1>3 DEF Crash

\* A step of a writer takes nothing from under the bus.
LEMMA WritersLeaveReader ==
    ASSUME FileInv, FileInv', ReaderInv, DeliveredInv, LockedSkipsNothing, NEW w \in Writers,
           Open(w) \/ (\E now \in 1 .. MaxId : Begin(w, now)) \/ Writing(w),
           ReaderTypes
    PROVE  ReaderTypes' /\ ReaderInv' /\ DeliveredInv' /\ LockedSkipsNothing'
<1>1. [Next]_vars
  BY DEF Next
<1>2. reader' = reader /\ delivered' = delivered /\ origin' = origin /\ remounts' = remounts
  BY DEF Open, Begin, Writing, WriteHead, WriteEnd, WriteFails, Unlock, Crash
<1>3. Lines(file) /\ Lines(file')
  BY Zenon DEF FileInv
<1>4. \A i \in 1 .. WholeLength(file) : i \in 1 .. Len(file') /\ i \in DOMAIN file' /\ file'[i] = file[i]
  BY <1>1, LinesStay
<1>5. /\ reader.offset \in 0 .. WholeLength(file) /\ reader.offset % 2 = 0
      /\ WholeLength(file) \in 0 .. Len(file) /\ Len(file) \in Nat /\ Len(file') \in Nat
      /\ DOMAIN file = 1 .. Len(file)
  <2>1. \A c : Lines(c) => Len(c) \in Nat /\ DOMAIN c = 1 .. Len(c)
    BY DEF Lines
  <2> QED
    BY <1>3, <2>1, OffsetIs DEF ReaderInv
<1>6. Newlines(file) = {i \in 1 .. WholeLength(file) : i % 2 = 0}
  <2>1. Newlines(file) = {i \in 1 .. Len(file) : i % 2 = 0}
    BY <1>3, EndsParse
  <2> QED
    BY <1>5, <2>1 DEF WholeLength
<1>7. \A i \in Newlines(file) : i \in Newlines(file') /\ file'[i] = file[i] /\ i \in DOMAIN file'
  BY <1>4, <1>6 DEF Newlines
<1>8. Even(reader.offset)'
  <2>1. reader.offset \in 0 .. Len(file')
    BY <1>4, <1>5
  <2>2. reader.offset > 0 => file'[reader.offset].end
    <3>1. Even(reader.offset)
      BY DEF ReaderInv
    <3> QED
      BY <1>4, <1>5, <3>1 DEF Even
  <2> QED
    BY <1>2, <2>1, <2>2 DEF Even
<1>9. ASSUME NEW p \in Newlines(reader.buf)
      PROVE  reader.offset + p \in DOMAIN file' /\ file'[reader.offset + p] = reader.buf[p]
  <2>1. reader.offset + p \in DOMAIN file /\ file[reader.offset + p] = reader.buf[p]
    BY DEF ReaderInv
  <2>2. reader.offset + p \in Newlines(file)
    BY <2>1 DEF Newlines
  <2> QED
    BY <1>7, <2>1, <2>2
<1>10. ASSUME reader.locks, reader.pc = "reading"
       PROVE  /\ flock' = Nobody
              /\ \A p \in DOMAIN reader.buf : /\ reader.offset + p \in DOMAIN file'
                                              /\ file'[reader.offset + p] = reader.buf[p]
  <2>1. flock = Nobody
    BY <1>10 DEF ReaderInv
  <2>2. file' = file /\ flock' = Nobody
    BY <1>10, <2>1, LockedOut
  <2> QED
    BY <1>10, <2>2 DEF ReaderInv
<1>11. ReaderInv'
  BY <1>2, <1>8, <1>9, <1>10 DEF ReaderInv
<1>12. DeliveredInv'
  BY <1>2, <1>7 DEF DeliveredInv
<1>13. LockedSkipsNothing'
  <2>1. SubSeq(file', 1, reader.offset) = SubSeq(file, 1, reader.offset)
    <3>1. \A i \in 1 .. reader.offset : file'[i] = file[i]
      BY <1>4, <1>5
    <3>2. file \in Seq({file[i] : i \in DOMAIN file}) /\ file' \in Seq({file'[i] : i \in DOMAIN file'})
      BY <1>3, Zenon DEF Lines
    <3>3. SubSeq(file, 1, reader.offset) = [i \in 1 .. reader.offset |-> file[i]]
      BY <1>5
    <3>4. SubSeq(file', 1, reader.offset) = [i \in 1 .. reader.offset |-> file'[i]]
      BY <1>5
    <3> QED
      BY <3>1, <3>3, <3>4
  <2>2. reader.offset <= Len(file')
    BY <1>8, <1>5, <1>2 DEF Even
  <2> QED
    BY <1>2, <2>1, <2>2 DEF LockedSkipsNothing, NothingSkipped
<1> QED
  BY <1>2, <1>11, <1>12, <1>13 DEF ReaderTypes

\* The ids of the whole lines up to an even place are a prefix of all of them.
LEMMA IdsOfCut ==
    ASSUME NEW cells, Lines(cells), NEW n \in 0 .. WholeLength(cells), n % 2 = 0
    PROVE  /\ Lines(SubSeq(cells, 1, n))
           /\ Events(SubSeq(cells, 1, n)) = [k \in 1 .. n \div 2 |-> cells[2 * k].id]
<1>1. Len(cells) \in Nat /\ WholeLength(cells) \in 0 .. Len(cells)
  BY CutToWholeLines DEF Lines
<1>2. n \in 0 .. Len(cells)
  BY <1>1
<1>3. /\ Lines(SubSeq(cells, 1, n)) /\ Len(SubSeq(cells, 1, n)) = n
      /\ \A i \in 1 .. n : SubSeq(cells, 1, n)[i] = cells[i]
  BY <1>2, CutKeepsLines
<1>4. Events(SubSeq(cells, 1, n)) = Ids(SubSeq(cells, 1, n))
  BY <1>3, EventsOfLines
<1>5. \A k \in 1 .. n \div 2 : 2 * k \in 1 .. n
  BY <1>2
<1> QED
  BY <1>3, <1>4, <1>5 DEF Ids

\* What StartTick, ReadPiece and RemountBus leave.
LEMMA ReadingKeeps ==
    ASSUME FileInv, ReaderInv, DeliveredInv, LockedSkipsNothing, ReaderTypes, file \in Seq(Cell),
           StartTick \/ ReadPiece \/ RemountBus
    PROVE  ReaderTypes' /\ ReaderInv' /\ DeliveredInv' /\ LockedSkipsNothing'
<1>1. file' = file /\ flock' = flock
  BY DEF StartTick, ReadPiece, RemountBus
<1>2. reader = [pc |-> reader.pc, offset |-> reader.offset, buf |-> reader.buf, locks |-> reader.locks]
      /\ reader.pc \in {"idle", "reading"} /\ reader.offset \in Nat /\ reader.buf \in Seq(Cell)
      /\ reader.locks \in BOOLEAN
  BY DEF ReaderTypes
<1>3. Newlines(<<>>) = {} /\ DOMAIN <<>> = {}
  <2>1. DOMAIN <<>> = {}
    OBVIOUS
  <2> QED
    BY <2>1 DEF Newlines
<1>4. Even(reader.offset) /\ Even(0)
  <2>1. Len(file) \in Nat
    OBVIOUS
  <2> QED
    BY <2>1 DEF ReaderInv, Even
<1>5. CASE StartTick
  <2>1. /\ reader' = [reader EXCEPT !.pc = "reading", !.buf = <<>>]
        /\ delivered' = delivered /\ origin' = origin /\ remounts' = remounts
        /\ (reader.locks => flock = Nobody)
    BY <1>5 DEF StartTick
  <2>2. /\ reader'.pc = "reading" /\ reader'.offset = reader.offset /\ reader'.buf = <<>>
        /\ reader'.locks = reader.locks
    BY <1>2, <2>1
  <2>3. reader' \in [pc : {"idle", "reading"}, offset : Nat, buf : Seq(Cell), locks : BOOLEAN]
    <3>1. <<>> \in Seq(Cell)
      OBVIOUS
    <3> QED
      BY <2>1, <3>1 DEF ReaderTypes
  <2>4. ReaderInv'
    <3>1. Even(reader.offset)'
      BY <1>1, <1>4, <2>2 DEF Even
    <3> QED
      BY <1>1, <1>3, <2>1, <2>2, <3>1 DEF ReaderInv
  <2>5. DeliveredInv' /\ LockedSkipsNothing'
    BY <1>1, <2>1, <2>2 DEF DeliveredInv, LockedSkipsNothing, NothingSkipped
  <2> QED
    BY <2>1, <2>3, <2>4, <2>5 DEF ReaderTypes
<1>6. CASE RemountBus
  <2>1. /\ reader' = [reader EXCEPT !.pc = "idle", !.offset = 0, !.buf = <<>>]
        /\ delivered' = <<>> /\ origin' = <<>> /\ remounts' \in 0 .. MaxRemounts
    BY <1>6, LogAssumption DEF RemountBus, ReaderTypes, LogAssumption
  <2>2. /\ reader'.pc = "idle" /\ reader'.offset = 0 /\ reader'.buf = <<>>
        /\ reader'.locks = reader.locks
    BY <1>2, <2>1
  <2>3. reader' \in [pc : {"idle", "reading"}, offset : Nat, buf : Seq(Cell), locks : BOOLEAN]
    <3>1. <<>> \in Seq(Cell)
      OBVIOUS
    <3> QED
      BY <2>1, <3>1 DEF ReaderTypes
  <2>4. ReaderInv'
    <3>1. Even(reader.offset)'
      BY <1>1, <1>4, <2>2 DEF Even
    <3> QED
      BY <1>1, <1>3, <2>1, <2>2, <3>1 DEF ReaderInv
  <2>5. DeliveredInv'
    BY <1>3, <2>1 DEF DeliveredInv
  <2>6. Events(SubSeq(file, 1, 0)) = <<>> /\ Len(file) \in Nat
    <3>1. Lines(file)
      BY DEF FileInv
    <3>2. 0 \in 0 .. WholeLength(file) /\ 0 % 2 = 0 /\ 0 \div 2 = 0
      BY <3>1, CutToWholeLines
    <3>3. Events(SubSeq(file, 1, 0)) = [k \in 1 .. 0 |-> file[2 * k].id]
      BY <3>1, <3>2, IdsOfCut
    <3> QED
      BY <3>3
  <2>7. LockedSkipsNothing'
    BY <1>1, <2>1, <2>2, <2>6 DEF LockedSkipsNothing, NothingSkipped
  <2>8. delivered' \in Seq(1 .. MaxId) /\ origin' \in Seq(1 .. MaxId)
    BY <2>1
  <2> QED
    BY <2>1, <2>3, <2>4, <2>5, <2>7, <2>8 DEF ReaderTypes
<1>7. CASE ReadPiece
  <2> DEFINE at == reader.offset + Len(reader.buf)
  <2>1. PICK upto \in (at + 1) .. Len(file) :
           reader' = [reader EXCEPT !.buf = reader.buf \o SubSeq(file, at + 1, upto)]
    BY <1>7 DEF ReadPiece, Position
  <2>2. reader.pc = "reading" /\ delivered' = delivered /\ origin' = origin /\ remounts' = remounts
    BY <1>7 DEF ReadPiece
  <2>3. at \in Nat /\ Len(reader.buf) \in Nat /\ upto \in Nat /\ upto - at \in Nat \ {0}
    <3>1. at \in Nat /\ Len(reader.buf) \in Nat
      BY <1>2
    <3> HIDE DEF at
    <3> QED
      BY <2>1, <3>1
  <2> DEFINE piece == SubSeq(file, at + 1, upto)
             new   == reader.buf \o piece
  <2>0. PICK n \in Nat \ {0} : n = upto - at
    BY <2>3
  <2>4. /\ piece \in Seq(Cell) /\ Len(piece) = n
        /\ \A i \in 1 .. n : piece[i] = file[at + i]
    <3>1. /\ piece \in Seq(Cell) /\ Len(piece) = upto - at
          /\ \A i \in 1 .. upto - at : piece[i] = file[at + i]
      <4> HIDE DEF at
      <4> QED
        BY <2>1, <2>3, PieceIs
    <3> HIDE DEF piece, at
    <3> QED
      BY <2>0, <3>1
  <2>5. /\ new \in Seq(Cell) /\ Len(new) = Len(reader.buf) + n
        /\ \A i \in 1 .. Len(reader.buf) : new[i] = reader.buf[i]
        /\ \A i \in 1 .. n : new[Len(reader.buf) + i] = piece[i]
    <3> HIDE DEF piece
    <3>1. /\ new \in Seq(Cell) /\ Len(new) = Len(reader.buf) + n
          /\ \A i \in 1 .. Len(reader.buf) + n : new[i] =
                IF i <= Len(reader.buf) THEN reader.buf[i] ELSE piece[i - Len(reader.buf)]
      BY <1>2, <2>4, ConcatProperties
    <3> HIDE DEF new, at
    <3>2. \A i \in 1 .. Len(reader.buf) : new[i] = reader.buf[i]
      BY <2>3, <3>1
    <3>3. ASSUME NEW i \in 1 .. n PROVE new[Len(reader.buf) + i] = piece[i]
      <4> DEFINE j == Len(reader.buf) + i
      <4>1. j \in 1 .. Len(reader.buf) + n /\ ~(j <= Len(reader.buf)) /\ j - Len(reader.buf) = i
        BY <2>3
      <4> HIDE DEF j
      <4>2. new[j] = piece[i]
        BY <3>1, <4>1
      <4> QED
        BY <4>2 DEF j
    <3> QED
      BY <3>1, <3>2, <3>3
  <2> HIDE DEF new, piece
  <2>6. /\ reader'.pc = reader.pc /\ reader'.offset = reader.offset /\ reader'.buf = new
        /\ reader'.locks = reader.locks
    BY <1>2, <2>1 DEF new, piece
  <2>7. reader' \in [pc : {"idle", "reading"}, offset : Nat, buf : Seq(Cell), locks : BOOLEAN]
    BY <2>1, <2>5 DEF ReaderTypes, new, piece
  <2>8. ASSUME NEW p \in DOMAIN new
        PROVE  \/ p \in DOMAIN reader.buf /\ new[p] = reader.buf[p]
               \/ reader.offset + p \in DOMAIN file /\ file[reader.offset + p] = new[p]
    <3>1. p \in 1 .. Len(reader.buf) + n
      BY <2>5
    <3>2. CASE p \in 1 .. Len(reader.buf)
      BY <1>2, <2>5, <3>2
    <3>3. CASE p > Len(reader.buf)
      <4> DEFINE i == p - Len(reader.buf)
      <4>0. at + i = reader.offset + p /\ p = Len(reader.buf) + i
        BY <1>2, <2>3, <3>1
      <4>1. /\ i \in 1 .. n /\ p = Len(reader.buf) + i
            /\ at + i = reader.offset + p
        <5> HIDE DEF at
        <5> QED
          BY <2>3, <3>1, <3>3, <4>0
      <4>2. at + i \in DOMAIN file
        <5> HIDE DEF at, i
        <5> QED
          BY <2>0, <2>1, <2>3, <4>1
      <4> QED
        BY <2>4, <2>5, <4>1, <4>2
    <3> QED
      BY <2>3, <3>1, <3>2, <3>3
  <2>9. \A p \in Newlines(new) : /\ reader.offset + p \in DOMAIN file
                                 /\ file[reader.offset + p] = new[p]
    <3> SUFFICES ASSUME NEW p \in Newlines(new)
                 PROVE  reader.offset + p \in DOMAIN file /\ file[reader.offset + p] = new[p]
      OBVIOUS
    <3>1. p \in DOMAIN new /\ new[p].end
      BY DEF Newlines
    <3>2. CASE p \in DOMAIN reader.buf /\ new[p] = reader.buf[p]
      BY <3>1, <3>2 DEF ReaderInv, Newlines
    <3> QED
      BY <2>8, <3>1, <3>2
  <2>10. ASSUME reader.locks
         PROVE  /\ flock = Nobody
                /\ \A p \in DOMAIN new : /\ reader.offset + p \in DOMAIN file
                                         /\ file[reader.offset + p] = new[p]
    BY <2>2, <2>8, <2>10 DEF ReaderInv
  <2>11. ReaderInv'
    <3>1. Even(reader.offset)'
      BY <1>1, <1>4, <2>6 DEF Even
    <3> QED
      BY <1>1, <2>6, <2>9, <2>10, <3>1 DEF ReaderInv
  <2>12. DeliveredInv' /\ LockedSkipsNothing'
    BY <1>1, <2>2, <2>6 DEF DeliveredInv, LockedSkipsNothing, NothingSkipped
  <2> QED
    BY <2>2, <2>7, <2>11, <2>12 DEF ReaderTypes
<1> QED
  BY <1>5, <1>6, <1>7

\* What EndTick makes of the reader.
LEMMA EndTickReader ==
    ASSUME ReaderTypes, EndTick
    PROVE  /\ reader'.pc = "idle" /\ reader'.offset = reader.offset + Len(Whole(reader.buf))
           /\ reader'.buf = <<>> /\ reader'.locks = reader.locks
           /\ reader' \in [pc : {"idle", "reading"}, offset : Nat, buf : Seq(Cell), locks : BOOLEAN]
<1>1. reader \in [pc : {"idle", "reading"}, offset : Nat, buf : Seq(Cell), locks : BOOLEAN]
  BY DEF ReaderTypes
<1>2. reader' = [reader EXCEPT !.pc = "idle", !.offset = reader.offset + Len(Whole(reader.buf)),
                               !.buf = <<>>]
  BY DEF EndTick
<1>3. PICK n \in Nat : n = Len(Whole(reader.buf))
  BY <1>1, WholeOf
<1>4. reader.offset + n \in Nat /\ <<>> \in Seq(Cell)
  BY <1>1
<1>5. reader' = [reader EXCEPT !.pc = "idle", !.offset = reader.offset + n, !.buf = <<>>]
  BY <1>2, <1>3, Zenon
<1>6. /\ reader'.pc = "idle" /\ reader'.offset = reader.offset + n
      /\ reader'.buf = <<>> /\ reader'.locks = reader.locks
      /\ reader' \in [pc : {"idle", "reading"}, offset : Nat, buf : Seq(Cell), locks : BOOLEAN]
  BY <1>1, <1>4, <1>5
<1> QED
  BY <1>3, <1>6, Zenon

\* Whatever the bus read, it ends a line of the file, and it delivers events of the file.
LEMMA EndTickDelivers ==
    ASSUME FileInv, IdsRise, ReaderInv, DeliveredInv, ReaderTypes, file \in Seq(Cell), EndTick
    PROVE  ReaderTypes' /\ ReaderInv' /\ DeliveredInv'
<1> DEFINE whole == Whole(reader.buf)
           len   == Len(whole)
<1>1. file' = file /\ flock' = flock /\ remounts' = remounts
  BY DEF EndTick
<1>2. /\ reader'.pc = "idle" /\ reader'.offset = reader.offset + len
      /\ reader'.buf = <<>> /\ reader'.locks = reader.locks
      /\ reader' \in [pc : {"idle", "reading"}, offset : Nat, buf : Seq(Cell), locks : BOOLEAN]
  BY EndTickReader
<1>3. reader.buf \in Seq(Cell) /\ reader.offset \in Nat /\ delivered \in Seq(1 .. MaxId)
      /\ origin \in Seq(1 .. MaxId)
  BY DEF ReaderTypes
<1>4. /\ whole \in Seq(Cell) /\ len \in 0 .. Len(reader.buf)
      /\ \A i \in 1 .. len : whole[i] = reader.buf[i]
      /\ len > 0 => len \in Newlines(reader.buf)
  BY <1>3, WholeOf
<1>0. PICK spliced \in SUBSET Spliced(whole) :
            /\ delivered' = delivered \o Heads(whole, Parsed(whole) \cup spliced)
            /\ origin' = origin \o Tails(whole, Parsed(whole) \cup spliced)
  BY DEF EndTick
<1> DEFINE ends == Parsed(whole) \cup spliced
           e    == Tails(whole, ends)
           s    == Heads(whole, ends)
<1> HIDE DEF whole
<1>20. ends \in SUBSET Newlines(whole) /\ \A p \in ends : p - 1 \in DOMAIN whole
  BY DEF Parsed, Spliced
<1> HIDE DEF ends
<1>21. s \in Seq(1 .. MaxId)
  BY <1>4, <1>20, HeadsAre
<1> HIDE DEF s
<1>22. delivered' \in Seq(1 .. MaxId)
  <2>1. delivered' = delivered \o s
    BY <1>0 DEF s, ends
  <2> QED
    BY <1>3, <1>21, <2>1
<1>5. /\ e \in Seq(1 .. MaxId)
      /\ \E f \in [1 .. Len(e) -> Newlines(whole)] :
            /\ \A n \in 1 .. Len(e) : e[n] = whole[f[n]].id
            /\ \A m, n \in 1 .. Len(e) : m < n => f[m] < f[n]
  BY <1>4, <1>20, TailsAre
<1> HIDE DEF e
<1>6. PICK f \in [1 .. Len(e) -> Newlines(whole)] :
            /\ \A n \in 1 .. Len(e) : e[n] = whole[f[n]].id
            /\ \A m, n \in 1 .. Len(e) : m < n => f[m] < f[n]
  BY <1>5
<1>7. ASSUME NEW p \in Newlines(whole)
      PROVE  /\ p \in 1 .. len
             /\ reader.offset + p \in Newlines(file)
             /\ file[reader.offset + p] = whole[p]
  <2>1. p \in 1 .. len /\ whole[p].end
    BY <1>4 DEF Newlines
  <2>2. whole[p] = reader.buf[p] /\ p \in Newlines(reader.buf)
    BY <1>3, <1>4, <2>1 DEF Newlines
  <2>3. reader.offset + p \in DOMAIN file /\ file[reader.offset + p] = reader.buf[p]
    BY <2>2 DEF ReaderInv
  <2> QED
    BY <2>1, <2>2, <2>3 DEF Newlines
<1>8. Len(e) \in Nat /\ Len(origin) \in Nat
  BY <1>3, <1>5
<1>9. Even(reader.offset + len)
  <2>1. CASE len = 0
    BY <1>3, <2>1 DEF ReaderInv
  <2>2. CASE len > 0
    <3>1. /\ reader.offset + len \in DOMAIN file
          /\ file[reader.offset + len] = reader.buf[len] /\ reader.buf[len].end
      BY <1>4, <2>2 DEF ReaderInv, Newlines
    <3>2. reader.offset + len \in 0 .. Len(file)
      BY <3>1
    <3> QED
      BY <3>1, <3>2 DEF Even
  <2> QED
    BY <1>4, <2>1, <2>2
<1>10. ReaderInv'
  <2>1. Even(reader.offset)'
    BY <1>1, <1>2, <1>9 DEF Even
  <2>2. Newlines(<<>>) = {}
    <3>1. DOMAIN <<>> = {}
      OBVIOUS
    <3> QED
      BY <3>1 DEF Newlines
  <2> QED
    BY <1>2, <2>1, <2>2 DEF ReaderInv
<1> DEFINE d == origin \o e
<1>11. /\ d \in Seq(1 .. MaxId) /\ Len(d) = Len(origin) + Len(e) /\ DOMAIN d = 1 .. Len(d)
       /\ \A i \in 1 .. Len(origin) : d[i] = origin[i] /\ i \in DOMAIN origin
       /\ \A i \in 1 .. Len(e) : d[Len(origin) + i] = e[i]
  BY <1>3, <1>5
<1> HIDE DEF d
\* The newline each id is at.
<1>12. ASSUME NEW i \in DOMAIN d, i <= Len(origin)
       PROVE  /\ i \in DOMAIN origin /\ d[i] = origin[i]
              /\ \E n \in Newlines(file) : n <= reader.offset /\ file[n].id = d[i]
  BY <1>8, <1>11, <1>12 DEF DeliveredInv
<1>13. ASSUME NEW i \in DOMAIN d, i > Len(origin)
       PROVE  /\ i - Len(origin) \in 1 .. Len(e)
              /\ f[i - Len(origin)] \in 1 .. len
              /\ reader.offset + f[i - Len(origin)] \in Newlines(file)
              /\ file[reader.offset + f[i - Len(origin)]].id = d[i]
  <2> DEFINE k == i - Len(origin)
  <2>1. k \in 1 .. Len(e) /\ i = Len(origin) + k
    BY <1>8, <1>11, <1>13
  <2> HIDE DEF k
  <2>2. d[i] = e[k] /\ e[k] = whole[f[k]].id /\ f[k] \in Newlines(whole)
    BY <1>6, <1>11, <2>1
  <2> QED
    BY <1>7, <2>1, <2>2 DEF k
<1>14. \A n \in Newlines(file) : n \in Int
  BY DEF Newlines
<1>15. ASSUME NEW i \in DOMAIN d, NEW j \in DOMAIN d, i < j PROVE d[i] < d[j]
  <2>1. i \in Nat /\ j \in Nat
    BY <1>8, <1>11
  <2>2. CASE j <= Len(origin)
    <3>1. i <= Len(origin)
      BY <1>8, <1>15, <2>1, <2>2
    <3> QED
      BY <1>12, <1>15, <2>2, <3>1 DEF DeliveredInv
  <2>3. CASE i <= Len(origin) /\ j > Len(origin)
    <3>1. PICK n \in Newlines(file) : n <= reader.offset /\ file[n].id = d[i]
      BY <1>12, <2>3
    <3>2. PICK m \in Newlines(file) : m > reader.offset /\ file[m].id = d[j]
      <4>1. PICK q \in 1 .. len : reader.offset + q \in Newlines(file) /\ file[reader.offset + q].id = d[j]
        BY <1>13, <2>3
      <4>2. reader.offset + q > reader.offset
        BY <1>3, <4>1
      <4> QED
        BY <4>1, <4>2
    <3>3. n < m
      BY <1>3, <1>14, <3>1, <3>2
    <3> QED
      BY <3>1, <3>2, <3>3 DEF IdsRise
  <2>4. CASE i > Len(origin)
    <3> DEFINE a == i - Len(origin)
               b == j - Len(origin)
    <3>1. a \in 1 .. Len(e) /\ b \in 1 .. Len(e) /\ a < b /\ j > Len(origin)
      <4>1. j > Len(origin)
        BY <1>8, <1>15, <2>1, <2>4
      <4> QED
        BY <1>8, <1>13, <1>15, <2>1, <2>4, <4>1
    <3>2. /\ reader.offset + f[a] \in Newlines(file) /\ file[reader.offset + f[a]].id = d[i]
          /\ reader.offset + f[b] \in Newlines(file) /\ file[reader.offset + f[b]].id = d[j]
          /\ f[a] \in 1 .. len /\ f[b] \in 1 .. len
      BY <1>13, <2>4, <3>1
    <3> HIDE DEF a, b
    <3>3. f[a] < f[b]
      BY <1>6, <3>1
    <3>4. reader.offset + f[a] < reader.offset + f[b]
      BY <1>3, <3>2, <3>3
    <3> QED
      BY <3>2, <3>4 DEF IdsRise
  <2> QED
    BY <1>8, <2>1, <2>2, <2>3, <2>4
<1>16. ASSUME NEW i \in DOMAIN d
       PROVE  \E n \in Newlines(file) : n <= reader.offset + len /\ file[n].id = d[i]
  <2>1. i \in Nat /\ len \in Nat
    BY <1>4, <1>8, <1>11
  <2>2. CASE i <= Len(origin)
    <3>1. PICK n \in Newlines(file) : n <= reader.offset /\ file[n].id = d[i]
      BY <1>12, <2>2
    <3>2. n <= reader.offset + len
      BY <1>3, <1>14, <2>1, <3>1
    <3> QED
      BY <3>1, <3>2
  <2>3. CASE i > Len(origin)
    <3>1. PICK q \in 1 .. len : reader.offset + q \in Newlines(file) /\ file[reader.offset + q].id = d[i]
      BY <1>13, <2>3
    <3>2. reader.offset + q <= reader.offset + len
      BY <1>3, <2>1, <3>1
    <3> QED
      BY <3>1, <3>2
  <2> QED
    BY <1>8, <2>1, <2>2, <2>3
<1>17. origin' = d
  BY <1>0 DEF d, e, ends
<1>18. DeliveredInv'
  BY <1>1, <1>2, <1>15, <1>16, <1>17 DEF DeliveredInv
<1> QED
  BY <1>1, <1>2, <1>10, <1>11, <1>17, <1>18, <1>22 DEF ReaderTypes

\* A sequence is a function on an interval from 1.
LEMMA SequenceIsFunction ==
    ASSUME NEW S, NEW s \in Seq(S)
    PROVE  s \in [1 .. Len(s) -> S]
OBVIOUS

\* A bus that locks has no spliced line in its buffer: what it has read of the file
\* are the lines as they are.
LEMMA EndTickLocked ==
    ASSUME FileInv, ReaderInv, ReaderTypes, EndTick, reader.locks
    PROVE  delivered' = delivered \o Events(Whole(reader.buf))
<1> DEFINE whole == Whole(reader.buf)
<1>1. /\ Lines(file) /\ reader.pc = "reading" /\ reader.buf \in Seq(Cell) /\ reader.offset \in Nat
      /\ \A p \in DOMAIN reader.buf : /\ reader.offset + p \in DOMAIN file
                                      /\ file[reader.offset + p] = reader.buf[p]
  BY DEF FileInv, ReaderInv, ReaderTypes, EndTick
<1>2. /\ whole \in Seq(Cell) /\ Len(whole) \in 0 .. Len(reader.buf)
      /\ \A i \in 1 .. Len(whole) : whole[i] = reader.buf[i]
  BY <1>1, WholeOf
<1>3. PICK spliced \in SUBSET Spliced(whole) :
         delivered' = delivered \o Heads(whole, Parsed(whole) \cup spliced)
  BY DEF EndTick
<1> HIDE DEF whole
<1>4. ASSUME NEW i \in Spliced(whole) PROVE FALSE
  <2>1. i \in 1 .. Len(whole) /\ i - 1 \in 1 .. Len(whole) /\ whole[i].end /\ whole[i - 1].id # whole[i].id
    BY <1>2 DEF Spliced, Newlines
  <2>2. i \in DOMAIN reader.buf /\ i - 1 \in DOMAIN reader.buf
    BY <1>1, <1>2, <2>1
  <2> DEFINE q == reader.offset + i
  <2>3. /\ q \in DOMAIN file /\ file[q] = whole[i]
        /\ file[reader.offset + (i - 1)] = whole[i - 1]
    BY <1>1, <1>2, <2>1, <2>2
  <2>4. reader.offset + (i - 1) = q - 1
    <3>1. reader.offset \in Nat /\ i \in Int
      BY <1>1, <2>1
    <3> QED
      BY <3>1
  <2> HIDE DEF q
  <2>5. file[q].end /\ whole[i - 1] = file[q - 1]
    BY <2>1, <2>3, <2>4
  <2>6. file[q - 1] = [id |-> file[q].id, end |-> FALSE]
    BY <1>1, <2>3, <2>5, LinesAt
  <2>7. whole[i - 1].id = file[q].id
    BY <2>5, <2>6
  <2> QED
    BY <2>1, <2>3, <2>7
<1>5. delivered' = delivered \o Heads(whole, Parsed(whole))
  <2>1. Parsed(whole) \cup spliced = Parsed(whole)
    BY <1>4
  <2> QED
    BY <1>3, <2>1
<1>6. Heads(whole, Parsed(whole)) = Tails(whole, Parsed(whole))
  <2> DEFINE P == Parsed(whole)
  <2>1. P \in SUBSET Newlines(whole) /\ \A p \in P : whole[p - 1].id = whole[p].id
    BY DEF Parsed
  <2> HIDE DEF P
  <2>2. \A n \in 1 .. Cardinality(P) : Nth(P, n) \in P
    BY <1>2, <2>1, NthOfNewlines
  <2>3. \A n \in 1 .. Cardinality(P) : whole[Nth(P, n) - 1].id = whole[Nth(P, n)].id
    BY <2>1, <2>2
  <2>4. Heads(whole, P) = Tails(whole, P)
    BY <2>3, Zenon DEF Heads, Tails
  <2> QED
    BY <2>4 DEF P
<1> QED
  BY <1>5, <1>6 DEF Events, whole

\* A bus that locks has delivered all of the file when its tick ends.
LEMMA EndTickCatchesUp ==
    ASSUME FileInv, ReaderInv, ReaderTypes, LockedSkipsNothing, file \in Seq(Cell),
           EndTick, reader.locks
    PROVE  /\ delivered' = Ids(file)
           /\ reader'.offset = WholeLength(file)
           /\ Events(SubSeq(file, 1, WholeLength(file))) = Ids(file)
           /\ WholeLength(file) \in 0 .. Len(file)
           /\ Len(delivered) <= Len(file) \div 2
<1> DEFINE o == reader.offset
           b == reader.buf
           h == Len(file) \div 2
<1>1. /\ Lines(file) /\ Even(o) /\ reader.pc = "reading" /\ o + Len(b) >= Len(file)
      /\ b \in Seq(Cell)
  BY DEF FileInv, ReaderInv, EndTick, Position, ReaderTypes
<1>2. /\ o \in 0 .. WholeLength(file) /\ o % 2 = 0 /\ WholeLength(file) \in 0 .. Len(file)
      /\ Len(file) \in Nat /\ DOMAIN file = 1 .. Len(file)
      /\ Len(b) \in Nat /\ DOMAIN b = 1 .. Len(b)
  BY <1>1, OffsetIs
<1>3. \A p \in 1 .. Len(b) : o + p \in 1 .. Len(file) /\ file[o + p] = b[p]
  BY <1>1, <1>2 DEF ReaderInv
<1>4. delivered = Events(SubSeq(file, 1, o))
  BY DEF LockedSkipsNothing, NothingSkipped
<1>5. /\ delivered' = delivered \o Events(Whole(b))
      /\ reader'.offset = o + Len(Whole(b))
  BY EndTickReader, EndTickLocked
<1> HIDE DEF o, b
<1>6. Len(b) = Len(file) - o /\ o \in Nat
  <2>1. o \in Nat /\ o <= Len(file) /\ Len(b) \in Nat /\ Len(file) \in Nat
    <3>1. WholeLength(file) \in Nat /\ WholeLength(file) <= Len(file)
      BY <1>2
    <3> QED
      BY <1>2, <3>1
  <2>2. o + Len(b) >= Len(file)
    BY <1>1
  <2>3. CASE Len(b) = 0
    BY <2>1, <2>2, <2>3
  <2>4. CASE Len(b) > 0
    <3>1. Len(b) \in 1 .. Len(b)
      BY <2>1, <2>4
    <3>2. o + Len(b) <= Len(file)
      BY <1>3, <2>1, <3>1
    <3> QED
      BY <2>1, <2>2, <3>2
  <2> QED
    BY <2>1, <2>3, <2>4
<1>7. Lines(b)
  <2>1. b \in Seq({b[i] : i \in DOMAIN b})
    BY <1>1, OwnElements
  <2>2. ASSUME NEW i \in DOMAIN b
        PROVE  IF b[i].end THEN i > 1 /\ b[i - 1] = [id |-> b[i].id, end |-> FALSE]
                           ELSE i > 1 => b[i - 1].end
    <3>1. i \in 1 .. Len(b)
      BY <1>2
    <3>2. PICK q \in DOMAIN file : q = o + i
      BY <1>2, <1>3, <3>1
    <3>3. /\ file[q] = b[i] /\ q \in Nat /\ i \in Nat /\ i >= 1
          /\ i > 1 => q > 1 /\ b[i - 1] = file[q - 1]
      <4>1. file[q] = b[i] /\ q \in Nat /\ i \in Nat /\ i >= 1
        <5>1. file[o + i] = b[i]
          BY <1>3, <3>1
        <5>2. file[q] = b[i]
          BY <3>2, <5>1
        <5>3. q \in 1 .. Len(file)
          BY <1>2
        <5> QED
          BY <1>2, <3>1, <5>2, <5>3
      <4>2. ASSUME i > 1 PROVE q > 1 /\ b[i - 1] = file[q - 1]
        <5>1. i - 1 \in 1 .. Len(b) /\ o + (i - 1) = q - 1 /\ q > 1
          <6>1. i \in Nat /\ i <= Len(b) /\ Len(b) \in Nat /\ o \in Nat /\ q = o + i
            BY <1>2, <1>6, <3>1, <3>2
          <6> QED
            BY <4>2, <6>1
        <5>2. file[o + (i - 1)] = b[i - 1]
          BY <1>3, <5>1
        <5> QED
          BY <5>1, <5>2
      <4> QED
        BY <4>1, <4>2
    <3>4. /\ file[q].end => file[q - 1] = [id |-> file[q].id, end |-> FALSE]
          /\ ~file[q].end => (q > 1 => file[q - 1].end)
          /\ file[q].end => q % 2 = 0
      BY <1>1, LinesAt, Alternate
    <3>5. CASE b[i].end
      <4>1. q % 2 = 0
        BY <3>3, <3>4, <3>5
      <4>2. i > 1
        <5>1. o % 2 = 0 /\ o \in Nat /\ i # 1
          BY <1>2, <1>6, <3>2, <4>1
        <5> QED
          BY <3>3, <5>1
      <4> QED
        BY <3>3, <3>4, <3>5, <4>2
    <3>6. CASE ~b[i].end
      BY <3>3, <3>4, <3>6
    <3> QED
      BY <3>5, <3>6
  <2> QED
    BY <2>1, <2>2 DEF Lines
<1> DEFINE a == o \div 2
           c == Len(b) \div 2
<1>8. /\ a \in Nat /\ c \in Nat /\ h \in Nat /\ h = a + c /\ o = 2 * a
      /\ WholeLength(file) = 2 * h /\ WholeLength(b) = 2 * c /\ 2 * h \in 0 .. Len(file)
  BY <1>2, <1>6 DEF WholeLength
<1>9. delivered = [k \in 1 .. a |-> file[2 * k].id]
  BY <1>1, <1>2, <1>4, IdsOfCut
<1>10. Whole(b) = SubSeq(b, 1, WholeLength(b)) /\ Len(SubSeq(b, 1, WholeLength(b))) = WholeLength(b)
  BY <1>7, WholeIs, CutToWholeLines
<1>11. Events(Whole(b)) = [k \in 1 .. c |-> b[2 * k].id]
  <2>1. WholeLength(b) \in 0 .. WholeLength(b) /\ WholeLength(b) % 2 = 0 /\ WholeLength(b) \div 2 = c
    <3> HIDE DEF a, c, h
    <3> QED
      BY <1>8
  <2>2. Events(SubSeq(b, 1, WholeLength(b))) = [k \in 1 .. WholeLength(b) \div 2 |-> b[2 * k].id]
    BY <1>7, <2>1, IdsOfCut
  <2> QED
    BY <1>10, <2>1, <2>2
<1>12. Events(SubSeq(file, 1, WholeLength(file))) = Ids(file)
  <2>1. WholeLength(file) \in 0 .. WholeLength(file) /\ WholeLength(file) % 2 = 0 /\ WholeLength(file) \div 2 = h
    <3> HIDE DEF a, c, h
    <3> QED
      BY <1>8
  <2>2. Events(SubSeq(file, 1, WholeLength(file))) = [k \in 1 .. WholeLength(file) \div 2 |-> file[2 * k].id]
    BY <1>1, <2>1, IdsOfCut
  <2> QED
    BY <2>1, <2>2 DEF Ids
<1> HIDE DEF a, c
<1> DEFINE d == delivered
           e == Events(Whole(b))
           S == {file[2 * k].id : k \in 1 .. h}
<1>13. \A k \in 1 .. c : b[2 * k] = file[2 * (a + k)] /\ a + k \in 1 .. h
  <2> SUFFICES ASSUME NEW k \in 1 .. c PROVE b[2 * k] = file[2 * (a + k)] /\ a + k \in 1 .. h
    OBVIOUS
  <2>1. 2 * k \in 1 .. Len(b) /\ o + 2 * k = 2 * (a + k) /\ a + k \in 1 .. h
    <3>1. WholeLength(b) \in 0 .. Len(b)
      BY <1>7, CutToWholeLines
    <3> HIDE DEF h
    <3> QED
      BY <1>2, <1>8, <3>1
  <2> QED
    BY <1>3, <2>1
<1>14. d \in [1 .. a -> S]
  <2> HIDE DEF h
  <2>1. \A k \in 1 .. a : k \in 1 .. h
    BY <1>8
  <2> QED
    BY <1>9, <2>1
<1>15. e \in [1 .. c -> S]
  BY <1>11, <1>13
<1> HIDE DEF h, d, e, S
<1>16. d \in Seq(S) /\ Len(d) = a /\ e \in Seq(S) /\ Len(e) = c
  BY <1>8, <1>14, <1>15, FunctionIsSeq
<1>17. /\ d \o e \in Seq(S) /\ Len(d \o e) = a + c
       /\ \A i \in 1 .. a + c : (d \o e)[i] = IF i <= a THEN d[i] ELSE e[i - a]
  BY <1>16, ConcatProperties
<1>18. d \o e \in [1 .. h -> S]
  BY <1>8, <1>17, SequenceIsFunction
<1>19. ASSUME NEW i \in 1 .. h PROVE (d \o e)[i] = file[2 * i].id
  <2>1. (d \o e)[i] = IF i <= a THEN d[i] ELSE e[i - a]
    BY <1>8, <1>17
  <2>2. CASE i <= a
    <3>1. i \in 1 .. a
      BY <1>8, <2>2
    <3> QED
      BY <1>9, <2>1, <2>2, <3>1 DEF d
  <2>3. CASE ~(i <= a)
    <3> DEFINE k == i - a
    <3>1. k \in 1 .. c /\ a + k = i
      BY <1>8, <2>3
    <3> HIDE DEF k
    <3>2. e[k] = file[2 * i].id
      BY <1>11, <1>13, <3>1 DEF e
    <3> QED
      BY <2>1, <2>3, <3>2 DEF k
  <2> QED
    BY <2>2, <2>3
<1>20. Ids(file) = [i \in 1 .. h |-> file[2 * i].id]
  BY DEF Ids, h
<1>21. d \o e = Ids(file)
  BY <1>18, <1>19, <1>20
<1>22. Len(delivered) <= h
  BY <1>8, <1>16 DEF d
<1>23. reader'.offset = WholeLength(file)
  BY <1>5, <1>8, <1>10
<1> QED
  BY <1>2, <1>5, <1>12, <1>21, <1>22, <1>23 DEF d, e, h

-----------------------------------------------------------------------------
(* The theorems about ids and the bus.                                     *)

\* The inductive invariant of the log and the bus.
LogInv == TypeOK /\ FileInv /\ IdsRise /\ ReaderInv /\ DeliveredInv /\ LockedSkipsNothing

\* The types are those of the writers' variables and of the bus's.
LEMMA TypesAre == TypeOK <=> WriterTypes /\ ReaderTypes
BY DEF TypeOK, WriterTypes, ReaderTypes

\* An empty file satisfies LogInv.
LEMMA LogInit ==
    ASSUME Init PROVE LogInv
<1>1. /\ file = <<>> /\ flock = Nobody /\ writer = [w \in Writers |-> Down]
      /\ reader \in [pc : {"idle"}, offset : {0}, buf : {<<>>}, locks : ReaderLocks]
      /\ delivered = <<>> /\ origin = <<>> /\ remounts = 0
  BY DEF Init
<1>2. MaxId \in Nat /\ MaxRemounts \in Nat /\ ReaderLocks \subseteq BOOLEAN
  BY LogAssumption DEF LogAssumption
<1>3. /\ reader.pc = "idle" /\ reader.offset = 0 /\ reader.buf = <<>>
      /\ Len(<<>>) = 0 /\ DOMAIN <<>> = {}
  BY <1>1
<1>4. Lines(<<>>) /\ Newlines(<<>>) = {}
  BY <1>3 DEF Lines, Newlines
<1>5. WriterTypes
  <2>1. <<>> \in Seq(Cell)
    OBVIOUS
  <2>2. Down \in [pc : {"down", "up", "head", "end", "unlock"},
                  floor : 0 .. MaxId, id : 0 .. MaxId, pre : Nat]
    BY <1>2 DEF Down
  <2> QED
    BY <1>1, <2>1, <2>2 DEF WriterTypes
<1>6. ReaderTypes
  <2>1. <<>> \in Seq(Cell) /\ <<>> \in Seq(1 .. MaxId) /\ 0 \in 0 .. MaxRemounts
    BY <1>2
  <2>2. reader \in [pc : {"idle", "reading"}, offset : Nat, buf : Seq(Cell), locks : BOOLEAN]
    <3>1. reader.locks \in BOOLEAN
      BY <1>1, <1>2
    <3>2. reader = [pc |-> "idle", offset |-> 0, buf |-> <<>>, locks |-> reader.locks]
      BY <1>1
    <3>3. [pc |-> "idle", offset |-> 0, buf |-> <<>>, locks |-> reader.locks]
             \in [pc : {"idle", "reading"}, offset : Nat, buf : Seq(Cell), locks : BOOLEAN]
      BY <2>1, <3>1
    <3> QED
      BY <3>2, <3>3, Zenon
  <2> QED
    BY <1>1, <2>1, <2>2 DEF ReaderTypes
<1>7. FileInv
  <2>1. writer = [w \in Writers |-> writer[w]]
    BY <1>1
  <2>2. ASSUME NEW w \in Writers PROVE WriterInv(w)
    <3>1. writer[w] = [pc |-> "down", floor |-> 0, id |-> 0, pre |-> 0]
      BY <1>1 DEF Down
    <3> QED
      BY <3>1 DEF WriterInv
  <2> QED
    BY <1>1, <1>4, <2>1, <2>2 DEF FileInv
<1>8. IdsRise
  <2>1. \A w \in Writers : writer[w].pc = "down"
    BY <1>1 DEF Down
  <2> QED
    BY <1>1, <1>4, <2>1 DEF IdsRise
<1>9. ReaderInv
  BY <1>1, <1>3, <1>4 DEF ReaderInv, Even
<1>10. DeliveredInv
  BY <1>1, <1>3 DEF DeliveredInv
<1>11. NothingSkipped
  <2>1. 0 \in 0 .. WholeLength(<<>>) /\ 0 % 2 = 0 /\ 0 \div 2 = 0
    BY <1>4, CutToWholeLines
  <2>2. Events(SubSeq(<<>>, 1, 0)) = [k \in 1 .. 0 |-> << >>[2 * k].id]
    BY <1>4, <2>1, IdsOfCut
  <2>3. Events(SubSeq(<<>>, 1, 0)) = <<>>
    BY <2>2
  <2> QED
    BY <1>1, <1>3, <2>3 DEF NothingSkipped
<1> QED
  BY <1>5, <1>6, <1>7, <1>8, <1>9, <1>10, <1>11, TypesAre DEF LogInv, LockedSkipsNothing

\* Every step keeps LogInv.
LEMMA LogStep ==
    ASSUME LogInv, [Next]_vars PROVE LogInv'
<1>1. /\ WriterTypes /\ ReaderTypes /\ FileInv /\ IdsRise /\ ReaderInv /\ DeliveredInv
      /\ LockedSkipsNothing /\ file \in Seq(Cell)
  BY TypesAre DEF LogInv, WriterTypes
<1>2. WriterTypes' /\ FileInv' /\ IdsRise'
  BY <1>1, WriterTypesStep, FileInvStep, IdsStep
<1>3. ReaderTypes' /\ ReaderInv' /\ DeliveredInv' /\ LockedSkipsNothing'
  <2>1. ASSUME NEW w \in Writers,
               Open(w) \/ (\E now \in 1 .. MaxId : Begin(w, now)) \/ Writing(w)
        PROVE  ReaderTypes' /\ ReaderInv' /\ DeliveredInv' /\ LockedSkipsNothing'
    BY <1>1, <1>2, <2>1, WritersLeaveReader
  <2>2. CASE StartTick \/ ReadPiece \/ RemountBus
    BY <1>1, <2>2, ReadingKeeps
  <2>3. CASE EndTick
    <3>1. ReaderTypes' /\ ReaderInv' /\ DeliveredInv'
      BY <1>1, <2>3, EndTickDelivers
    <3>2. LockedSkipsNothing'
      <4>1. file' = file /\ reader'.locks = reader.locks
        BY <1>1, <2>3, EndTickReader DEF EndTick
      <4>2. ASSUME reader.locks PROVE NothingSkipped'
        <5>1. /\ delivered' = Ids(file) /\ reader'.offset = WholeLength(file)
              /\ Events(SubSeq(file, 1, WholeLength(file))) = Ids(file)
              /\ WholeLength(file) \in 0 .. Len(file)
          BY <1>1, <2>3, <4>2, EndTickCatchesUp
        <5>2. WholeLength(file) <= Len(file)
          BY <5>1
        <5> QED
          BY <4>1, <5>1, <5>2 DEF NothingSkipped
      <4> QED
        BY <4>1, <4>2 DEF LockedSkipsNothing
    <3> QED
      BY <3>1, <3>2
  <2>4. CASE UNCHANGED vars
    BY <1>1, <2>4 DEF vars, ReaderTypes, ReaderInv, DeliveredInv, LockedSkipsNothing,
                      NothingSkipped, Even
  <2> QED
    BY <2>1, <2>2, <2>3, <2>4 DEF Next
<1> QED
  BY <1>2, <1>3, TypesAre, PTL DEF LogInv

\* What the lines, the ids, the bus and what it delivered have to do with each
\* other holds in every reachable state.
THEOREM LogInvariance == Spec => []LogInv
<1>1. Init => LogInv
  BY LogInit
<1>2. LogInv /\ [Next]_vars => LogInv'
  BY LogStep
<1> QED
  BY <1>1, <1>2, PTL DEF Spec

\* Every variable of the log holds a value of its kind.
THEOREM LogTyped == Spec => []TypeOK
<1>1. LogInv => TypeOK
  BY DEF LogInv
<1> QED
  BY <1>1, LogInvariance, PTL

\* A bus that locks while it reads has delivered every event before its offset,
\* and is never beyond the end of the file, whatever writers tear and repair.
THEOREM LockedReaderSkipsNothing == Spec => []LockedSkipsNothing
<1>1. LogInv => LockedSkipsNothing
  BY DEF LogInv
<1> QED
  BY <1>1, LogInvariance, PTL

\* What any bus delivers, locking or not, ended in the file with lines of committed
\* events, in the order of their ids and none twice.
THEOREM BusOrder == Spec => []BusReadsInOrder
<1>1. LogInv => BusReadsInOrder
  <2> SUFFICES ASSUME LogInv PROVE BusReadsInOrder
    OBVIOUS
  <2>1. DeliveredInv /\ Lines(file)
    BY DEF LogInv, FileInv
  <2>2. ASSUME NEW i \in DOMAIN origin PROVE origin[i] \in ToSet(Events(file))
    <3>1. PICK n \in Newlines(file) : file[n].id = origin[i]
      BY <2>1 DEF DeliveredInv
    <3>2. Events(file) = Ids(file) /\ Newlines(file) = {k \in 1 .. Len(file) : k % 2 = 0}
      BY <2>1, EventsOfLines, EndsParse
    <3>3. n \div 2 \in 1 .. Len(file) \div 2 /\ 2 * (n \div 2) = n
      <4>1. Len(file) \in Nat
        BY <2>1 DEF Lines
      <4> QED
        BY <3>2, <4>1
    <3>4. Ids(file)[n \div 2] = origin[i] /\ n \div 2 \in DOMAIN Ids(file)
      BY <3>1, <3>3 DEF Ids
    <3> QED
      BY <3>2, <3>4 DEF ToSet
  <2>3. ToSet(origin) = {origin[i] : i \in DOMAIN origin}
    BY DEF ToSet
  <2> QED
    BY <2>1, <2>2, <2>3 DEF BusReadsInOrder, DeliveredInv
<1> QED
  BY <1>1, LogInvariance, PTL

-----------------------------------------------------------------------------
(* The refinement of AppendLog.                                            *)

\* What AppendLog sees of the bus.
Seen == IF reader.locks THEN delivered ELSE <<>>

\* A step that keeps the ids and what is seen is none of the abstract log.
LEMMA Stutters ==
    ASSUME Events(file)' = Events(file), Seen' = Seen
    PROVE  UNCHANGED Abstract!avars
BY Zenon DEF Seen, Abstract!avars

\* The end of a line commits its event, with an id above the last.
LEMMA CommitMaps ==
    ASSUME LogInv, LogInv', NEW w \in Writers, WriteEnd(w), Committed(writer[w].id)
    PROVE  Abstract!Commit
<1> DEFINE log == Ids(file)
           id  == writer[w].id
           h   == Len(file) \div 2
<1>1. Lines(file) /\ Lines(file') /\ FileInv /\ FileInv' /\ IdsRise
  BY Zenon DEF LogInv, FileInv
<1>2. Events(file) = log /\ Events(file') = Ids(file')
  BY <1>1, EventsOfLines
<1>3. Ids(file') = Append(log, id)
  BY <1>1, CommittedNewlines
<1>4. Len(file) \in Nat /\ h \in Nat /\ log = [k \in 1 .. h |-> file[2 * k].id]
  BY <1>1 DEF Lines, Ids
<1> DEFINE S == {file[2 * k].id : k \in 1 .. h} \cup {id}
<1>5. log \in Seq(S) /\ Len(log) = h
  <2>1. log \in [1 .. h -> S]
    BY <1>4
  <2> HIDE DEF S, log, h
  <2> QED
    BY <1>4, <2>1, FunctionIsSeq
<1>6. id \in S
  OBVIOUS
<1> HIDE DEF S
<1>7. Append(log, id) # <<>> /\ Last(Append(log, id)) = id
  <2> HIDE DEF log, id, h
  <2>1. /\ Append(log, id) # <<>> /\ Len(Append(log, id)) = Len(log) + 1
        /\ Append(log, id)[Len(log) + 1] = id
    BY <1>5, <1>6, AppendProperties
  <2> QED
    BY <2>1 DEF Last
<1>8. log # <<>> => id > Last(log)
  <2> SUFFICES ASSUME log # <<>> PROVE id > Last(log)
    OBVIOUS
  <2>1. h > 0
    <3>1. h # 0
      BY <1>4, <1>5
    <3> HIDE DEF h
    <3> QED
      BY <1>4, <3>1
  <2>2. 2 * h \in Newlines(file)
    <3>1. Newlines(file) = {k \in 1 .. Len(file) : k % 2 = 0}
      BY <1>1, EndsParse
    <3> QED
      BY <1>4, <2>1, <3>1
  <2>3. Last(log) = file[2 * h].id
    <3>1. log[h] = file[2 * h].id
      <4>1. h \in 1 .. h
        BY <1>4, <2>1
      <4> HIDE DEF h, log
      <4> QED
        BY <1>4, <4>1
    <3> HIDE DEF h, log
    <3> QED
      BY <1>5, <3>1 DEF Last
  <2>4. writer[w].pc \in {"head", "end"}
    BY DEF WriteEnd
  <2>5. file[2 * h].id < id
    BY <1>1, <2>2, <2>4 DEF IdsRise
  <2>6. file[2 * h].id \in Int /\ id \in Int
    <3>1. file \in Seq(Cell) /\ writer[w].id \in 0 .. MaxId /\ MaxId \in Nat
      BY LogAssumption DEF LogInv, TypeOK, LogAssumption
    <3>2. file[2 * h].id \in 1 .. MaxId
      BY <2>2, <3>1, CellsTyped
    <3> QED
      BY <3>1, <3>2
  <2> HIDE DEF h, id, log
  <2> QED
    BY <2>3, <2>5, <2>6
<1>9. Seen' = Seen
  BY DEF Seen, WriteEnd
<1> HIDE DEF log, id, h
<1>10. Events(file)' = Append(Events(file), Last(Events(file)')) /\ Events(file)' # <<>>
  BY <1>2, <1>3, <1>7
<1>11. Events(file) # <<>> => Last(Events(file)') > Last(Events(file))
  BY <1>2, <1>3, <1>7, <1>8
<1> QED
  BY <1>9, <1>10, <1>11, Zenon DEF Abstract!Commit, Abstract!Last, Last, Seen

\* The end of a tick projects the log to its end, if the bus locks.
LEMMA EndTickMaps ==
    ASSUME LogInv, EndTick
    PROVE  Abstract!Project \/ UNCHANGED Abstract!avars
<1>1. /\ FileInv /\ ReaderInv /\ ReaderTypes /\ LockedSkipsNothing /\ file \in Seq(Cell)
      /\ Lines(file)
  BY TypesAre DEF LogInv, WriterTypes, FileInv
<1>2. file' = file /\ reader'.locks = reader.locks
  BY <1>1, EndTickReader DEF EndTick
<1>3. CASE ~reader.locks
  <2>1. Seen' = Seen
    BY <1>2, <1>3 DEF Seen
  <2> QED
    BY <1>2, <2>1, Stutters
<1>4. CASE reader.locks
  <2> DEFINE log == Ids(file)
             h   == Len(file) \div 2
  <2>1. delivered' = log /\ Len(delivered) <= h /\ Events(file) = log
    BY <1>1, <1>4, EndTickCatchesUp, EventsOfLines
  <2>2. Len(file) \in Nat /\ h \in Nat /\ log = [k \in 1 .. h |-> file[2 * k].id]
    BY <1>1 DEF Ids
  <2> DEFINE S == {file[2 * k].id : k \in 1 .. h}
  <2>3. log \in Seq(S) /\ Len(log) = h
    <3>1. log \in [1 .. h -> S]
      BY <2>2
    <3> HIDE DEF S, log, h
    <3> QED
      BY <2>2, <3>1, FunctionIsSeq
  <2>4. delivered \in Seq(1 .. MaxId)
    BY <1>1 DEF ReaderTypes
  <2> HIDE DEF S, log, h
  <2>5. SubSeq(log, 1, h) = log
    BY <2>2, <2>3
  <2>6. h \in Len(delivered) .. Len(log)
    BY <2>1, <2>2, <2>3, <2>4
  <2>7. Seen' = delivered' /\ Seen = delivered
    BY <1>2, <1>4 DEF Seen
  <2>8. Seen' \in {SubSeq(Events(file), 1, n) : n \in Len(Seen) .. Len(Events(file))}
    BY <2>1, <2>5, <2>6, <2>7
  <2> QED
    BY <1>2, <2>8 DEF Abstract!Project, Seen
<1> QED
  BY <1>3, <1>4

\* To its readers the file is a log that only grows, in the order of its ids, and
\* a bus that locks projects a prefix of it, one longer than the other.
THEOREM LogImplementsAppendLog == Spec => ImplementsAppendLog
<1>1. Init => Abstract!AppendInit
  <2> SUFFICES ASSUME Init PROVE Abstract!AppendInit
    OBVIOUS
  <2>1. file = <<>> /\ delivered = <<>>
    BY DEF Init
  <2>2. Lines(<<>>) /\ Len(<<>>) \div 2 = 0
    <3>1. Len(<<>>) = 0 /\ DOMAIN <<>> = {}
      OBVIOUS
    <3> QED
      BY <3>1 DEF Lines
  <2>3. Events(<<>>) = <<>>
    BY <2>2, EventsOfLines DEF Ids
  <2> QED
    BY <2>1, <2>3 DEF Abstract!AppendInit
<1>2. LogInv /\ LogInv' /\ [Next]_vars => [Abstract!Commit \/ Abstract!Project \/ Abstract!Remount]_(Abstract!avars)
  <2> SUFFICES ASSUME LogInv, LogInv', [Next]_vars
               PROVE  \/ Abstract!Commit \/ Abstract!Project \/ Abstract!Remount
                      \/ UNCHANGED Abstract!avars
    OBVIOUS
  <2>1. FileInv /\ FileInv' /\ Lines(file) /\ Lines(file')
    BY Zenon DEF LogInv, FileInv
  <2>2. ASSUME NEW w \in Writers,
               Open(w) \/ (\E now \in 1 .. MaxId : Begin(w, now)) \/ Writing(w)
        PROVE  Abstract!Commit \/ UNCHANGED Abstract!avars
    <3>1. reader' = reader /\ delivered' = delivered
      BY <2>2 DEF Open, Begin, Writing, WriteHead, WriteEnd, WriteFails, Unlock, Crash
    <3>2. CASE Kept
      <4>1. Ids(file') = Ids(file)
        BY <2>1, <3>2, KeptNewlines
      <4>2. Events(file)' = Events(file)
        BY <2>1, <4>1, EventsOfLines
      <4> QED
        BY <3>1, <4>2, Stutters DEF Seen
    <3>3. CASE \E x \in Writers : WriteEnd(x) /\ Committed(writer[x].id)
      BY <3>3, CommitMaps
    <3> QED
      BY <2>1, <3>2, <3>3, FileStep
  <2>3. CASE StartTick \/ ReadPiece
    <3>1. ReaderTypes
      BY TypesAre DEF LogInv
    <3>2. file' = file /\ delivered' = delivered /\ reader'.locks = reader.locks
      BY <2>3, <3>1 DEF StartTick, ReadPiece, ReaderTypes
    <3> QED
      BY <3>2, Stutters DEF Seen
  <2>4. CASE EndTick
    BY <2>4, EndTickMaps
  <2>5. CASE RemountBus
    BY <2>5 DEF RemountBus, Abstract!Remount
  <2>6. CASE UNCHANGED vars
    BY <2>6, Stutters DEF vars, Seen
  <2> QED
    BY <2>2, <2>3, <2>4, <2>5, <2>6 DEF Next
<1> QED
  BY <1>1, <1>2, LogInvariance, PTL DEF Spec, ImplementsAppendLog, Abstract!AppendSpec
=============================================================================
