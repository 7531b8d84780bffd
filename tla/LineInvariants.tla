---------------------------- MODULE LineInvariants ----------------------------
(***************************************************************************)
(* The inductive invariants of LineWriter and of LineReader: LinesInv, its  *)
(* type invariant strengthened with what the ring, the pool, the lock and   *)
(* the queue of pending lines keep; OnceInv and ToldInv, on what is out and *)
(* what became of each line; ReaderInv. LineProofs proves them.             *)
(***************************************************************************)
EXTENDS LineWriter, LineReader

-----------------------------------------------------------------------------
(* The transmit ring.                                                       *)
\* A byte of a run, the places of the ring, and how many are taken.
Byte == [line : Nat, size : Nat, k : Nat, owed : Int]
TxPlace == 0..TxSize - 1
TxCount == (txHead - txTail) % TxSize

\* The ring holds bytes between its tail and its head.
RingInv ==
  /\ txHead \in TxPlace /\ txTail \in TxPlace
  /\ txSlots = [i \in TxPlace |-> txSlots[i]]
  /\ wire \in Seq(Byte) /\ InRing \in Seq(Byte)

-----------------------------------------------------------------------------
(* The invariant, part by part.                                             *)
\* The places of a context, its frame, and a stage.
Stops == {"run", "claimed", "mark", "line", "push", "arm", "copy", "publish", "written", "refuse"}
FrameT == [src : Sources, pc : Stops, printed : BOOLEAN, stage : Stages, line : Nat,
           now : Nat, mark : BOOLEAN, at : Nat, part : Nat]
StageT == [line : Nat, size : Nat, owner : Sources, state : {"free", "open", "pending", "publishing"},
           seq : 0..SeqRange - 1, overflow : BOOLEAN]

\* A frame between the two critical sections of a claim; one that holds the
\* lock; one with a run begun and not ended.
Claimed(f) == f.pc = "claimed"
Holds(f) == f.pc \in Stops \ {"run", "claimed"}
Underway(f) == f.pc \in {"arm", "copy", "publish", "written"}

\* The types of the writer's state.
WriterType ==
  /\ stack \in Seq(FrameT) /\ stack # <<>> /\ stack[1].src = Main
  /\ stages \in [Stages -> StageT]
  /\ slot \in [Sources -> Stages \cup {NoSlot, Refused}]
  /\ busy \in BOOLEAN /\ seqNo \in 0..SeqRange - 1 /\ marked \in Nat
  /\ begun \in 0..MaxLines /\ completed \in Seq(1..begun)

\* A loss is counted with the line refused, and no mark tells more than was
\* lost when its holder took the lock.
CountInv ==
  /\ refused \subseteq 1..begun /\ lostLines = Cardinality(refused) /\ marked <= lostLines
  /\ \A d \in DOMAIN stack : Holds(stack[d]) => stack[d].now <= lostLines

\* A line begun and neither completed nor refused.
Fresh(l) == l \in 1..begun /\ l \notin refused /\ \A k \in 1..Len(completed) : completed[k] # l

\* A stage being composed is one source's, with a line of its own that is
\* still to be completed.
PoolInv ==
  /\ \A s \in Sources : slot[s] \in Stages =>
       /\ stages[slot[s]].state = "open" /\ Fresh(stages[slot[s]].line)
       /\ stages[slot[s]].size > 0
       /\ stages[slot[s]].overflow \/ stages[slot[s]].size <= Capacity(slot[s])
  /\ \A s, t \in Sources : s # t /\ slot[s] \in Stages /\ slot[t] \in Stages =>
       slot[s] # slot[t] /\ stages[slot[s]].line # stages[slot[t]].line
  /\ \A d \in DOMAIN stack : Claimed(stack[d]) =>
       stages[stack[d].stage].state = "open" /\ Fresh(stack[d].line)
  /\ \A d, e \in DOMAIN stack : d # e /\ Claimed(stack[d]) /\ Claimed(stack[e]) =>
       stack[d].stage # stack[e].stage /\ stack[d].line # stack[e].line
  /\ \A s \in Sources, d \in DOMAIN stack : slot[s] \in Stages /\ Claimed(stack[d]) =>
       slot[s] # stack[d].stage /\ stages[slot[s]].line # stack[d].line

\* The lock has one holder, the line published is the holder's, and lines are
\* pending only under the lock.
LockInv ==
  /\ busy <=> \E d \in DOMAIN stack : Holds(stack[d])
  /\ \A d, e \in DOMAIN stack : Holds(stack[d]) /\ Holds(stack[e]) => d = e
  /\ \A d \in DOMAIN stack : Holds(stack[d]) => stages[stack[d].stage].state = "publishing"
  /\ \A i \in In("publishing") : \E d \in DOMAIN stack : Holds(stack[d]) /\ stack[d].stage = i
  /\ In("pending") # {} => busy

\* The turn of a stage's line, and whether a line was completed.
TurnAt(i) == Turn(stages[i].line)
Done(line) == \E k \in 1..Len(completed) : completed[k] = line

\* A line published or pending was completed, fits its stage and was not refused.
LineInv ==
  \A i \in In("pending") \cup In("publishing") :
    /\ stages[i].size \in 1..Capacity(i) /\ stages[i].line \notin refused /\ Done(stages[i].line)

\* The pending lines are those completed since the one published, each with
\* the number of its turn.
QueueInv ==
  /\ \A k, l \in 1..Len(completed) : completed[k] = completed[l] => k = l
  /\ \A p, q \in In("pending") : stages[p].line = stages[q].line => p = q
  /\ \A i \in In("publishing") :
       /\ \A p \in In("pending") : TurnAt(i) < TurnAt(p)
       /\ \A k \in TurnAt(i) + 1..Len(completed) : \E p \in In("pending") : stages[p].line = completed[k]
  /\ \A p \in In("pending") : stages[p].seq = (seqNo - (Len(completed) + 1 - TurnAt(p))) % SeqRange

\* What went out is of completed lines, in order, none past the one published.
SentInv ==
  /\ \A j \in 1..Len(Output) : Output[j].line # 0 =>
       /\ Done(Output[j].line)
       /\ \A i \in 1..j - 1 : Output[i].line # 0 => Turn(Output[i].line) <= Turn(Output[j].line)
       /\ \A i \in In("publishing") : Turn(Output[j].line) <= TurnAt(i)

\* What went out is whole runs, one behind the other, but for the last.
Chained ==
  \A j \in 1..Len(Output) :
    /\ Output[j].k \in 1..Output[j].size
    /\ IF Output[j].k = 1 THEN j = 1 \/ Output[j - 1].k = Output[j - 1].size
       ELSE j > 1 /\ Output[j - 1] = [Output[j] EXCEPT !.k = @ - 1]

\* The run under way has gone out up to the byte its holder has reached, and a
\* part copied lies behind the head.
Ending(f) ==
  /\ f.at \in 1..Len(Run(f)) /\ Len(Output) > 0 /\ Output[Len(Output)] = Run(f)[f.at]
  /\ f.pc = "copy" => f.at < Len(Run(f))
  /\ f.pc = "written" => f.at = Len(Run(f))
  /\ f.pc = "publish" =>
       /\ f.part \in 1..Len(Run(f)) - f.at /\ f.part <= Room /\ txHead + f.part <= TxSize
       /\ \A i \in 1..f.part : txSlots[txHead + i - 1] = Run(f)[f.at + i]

\* Only a run under way is short on the wire.
WireInv ==
  /\ Chained
  /\ (\A d \in DOMAIN stack : ~Underway(stack[d])) =>
       Len(Output) = 0 \/ Output[Len(Output)].k = Output[Len(Output)].size
  /\ \A d \in DOMAIN stack : Underway(stack[d]) => Ending(stack[d])

\* The inductive invariant.
LinesInv == RingInv /\ WriterType /\ CountInv /\ PoolInv /\ LockInv /\ LineInv /\ QueueInv /\ SentInv /\ WireInv

\* The bytes of a line on the wire are one behind the other, and of the line
\* being published there are only those its run has sent.
OnceInv ==
  /\ \A j \in 1..Len(Output) : \A i \in 1..j - 1 :
       Output[j].line # 0 /\ Output[i].line = Output[j].line => Output[i].k < Output[j].k
  /\ \A d \in DOMAIN stack : \A j \in 1..Len(Output) :
       Holds(stack[d]) /\ Output[j].line = stages[stack[d].stage].line =>
         Underway(stack[d]) /\ ~stack[d].mark /\ Output[j].k <= stack[d].at

-----------------------------------------------------------------------------
(* Nothing is lost in silence.                                              *)
\* Amounts added up over the parts of a set: each is one element's and the rest's.
Adds(A, w, S) ==
  /\ A \in [SUBSET S -> Int] /\ A[{}] = 0
  /\ \A T \in SUBSET S : \A x \in T : A[T] = w[x].owed + A[T \ {x}]

\* The marks whose first byte is out, and what they tell together.
MarkPlaces == {j \in 1..Len(Output) : Output[j].line = 0 /\ Output[j].k = 1}
MarksTell(t) == \E A : Adds(A, Output, MarkPlaces) /\ A[MarkPlaces] = t
Marking(f) == Underway(f) /\ f.mark

\* The marks told all that is counted as told, and one under way tells the rest
\* its holder found.
MarkInv ==
  /\ (\A d \in DOMAIN stack : ~Marking(stack[d])) => MarksTell(marked)
  /\ \A d \in DOMAIN stack : Marking(stack[d]) => MarksTell(stack[d].now)

\* A stage open is a source's or is being claimed, by a source without a line,
\* and a context interrupts only lower ones.
OwnedInv ==
  /\ \A d, e \in DOMAIN stack : d < e => stack[d].src < stack[e].src
  /\ \A d \in DOMAIN stack : Claimed(stack[d]) => slot[stack[d].src] = NoSlot
  /\ \A i \in Stages : stages[i].state = "open" =>
       \/ \E s \in Sources : slot[s] = i
       \/ \E d \in DOMAIN stack : Claimed(stack[d]) /\ stack[d].stage = i

\* A line completed was refused, waits, or is out whole.
Waiting(l) == \E i \in Stages : stages[i].state \in {"pending", "publishing"} /\ stages[i].line = l
SentWhole(l) == \E j \in 1..Len(Output) : Output[j].line = l /\ Output[j].k = Output[j].size
AccountInv == \A k \in 1..Len(completed) :
                completed[k] \in refused \/ Waiting(completed[k]) \/ SentWhole(completed[k])

ToldInv == MarkInv /\ OwnedInv /\ AccountInv

-----------------------------------------------------------------------------
(* The line reader: what its variables hold.                                 *)
\* A run is in hand and its bytes are read; or it has not been yet; a skip of the ring
\* under way; a gap the reader has not seen.
InRun == pc \in {"gap", "read", "gap_verdict", "verdict"}
InHand == (pc = "looked" \/ InRun) /\ run.n > 0
Skipping == pc \in {"skip", "jump"}
Pending == Skips # seenSkips

ReaderPlace == {"idle", "look", "look_count", "look_epoch", "skip", "jump", "looked", "gap", "read",
                "gap_verdict", "verdict", "end"}
Assembler == [text : Seq(Nat), done : BOOLEAN, dropping : BOOLEAN]
Completed == [buffer : Buffers, eol : Nat]

ReaderTypes ==
  /\ head \in 0..Size - 1 /\ tail \in 0..Size - 1
  /\ epoch \in 0..EpochMod - 1 /\ seen \in 0..EpochMod - 1
  /\ slots \in [0..Size - 1 -> Nat] /\ storage \in [0..Lap - 1 -> Nat]
  /\ written \in Nat /\ laps \in Nat /\ tailAt \in Nat /\ headAt \in Nat /\ skips \in Nat
  /\ uncounted \in BOOLEAN
  /\ ring \in Rings /\ script \in Scripts /\ script \subseteq Nat \ {0} /\ sent \in Nat
  /\ pc \in ReaderPlace /\ run \in [at : Nat, n : Nat] /\ next \in Nat /\ read1 \in Nat
  /\ assembler \in [Buffers -> Assembler] /\ active \in Buffers /\ activeAtRun \in Buffers
  /\ held \in Seq(Completed) /\ lent \in Seq(Completed) /\ got \in Seq(Nat)
  /\ inFlight \in 0..2 /\ queue \in 0..QueueSlots
  /\ resync \in BOOLEAN /\ seenSkips \in Nat /\ quiet \in BOOLEAN /\ silent \in BOOLEAN
  /\ heard \subseteq 0..sent

\* The drain's places, and what it holds at each.
DrainInv ==
  /\ next <= run.n
  /\ ~InRun => next = 0 /\ held = <<>>
  /\ run.n = 0 => held = <<>>
  /\ InRun /\ ~OnHardware => run.n > 0
  /\ pc \in {"look_count", "gap_verdict", "verdict"} => OnHardware
  /\ pc \in {"look_epoch", "skip", "jump"} => ~OnHardware
  /\ pc = "jump" => ring = "skip"
  /\ Skipping => run.n = 0 /\ Pending
  /\ pc \in {"gap", "gap_verdict"} => held = <<>>
  /\ pc = "read" /\ resync => run.n = 0
  /\ Pending => IF OnHardware THEN pc \in {"look", "look_count", "looked", "read", "verdict"}
                              ELSE pc \in {"skip", "jump", "looked"}
  /\ Pending /\ InRun => run.n = 0
  /\ OnHardware => seenSkips <= skips

\* At most two lines are lent, waiting or held, and the sink's are the drain's loans.
LoansInv ==
  /\ pc \in {"idle", "end"} \/ inFlight <= 1
  /\ Len(lent) <= inFlight
  /\ InDispatch => Len(lent) = inFlight
  /\ Len(held) + inFlight <= 2

\* A silence marked is over before the reader's next run.
SilenceInv ==
  /\ quiet => resync /\ ~InRun
  /\ sent \in heard => ~InDispatch /\ queue = 0 /\ (OnHardware => Unread = 0)
  /\ \A p \in heard : p = 0 \/ p \in script

FrameInv == ReaderTypes /\ DrainInv /\ LoansInv /\ SilenceInv

-----------------------------------------------------------------------------
(* The buffers.                                                              *)
\* The buffer the run in hand began in.
Base == IF InRun THEN activeAtRun ELSE active
Rests(a) == a.done /\ ~a.dropping

\* Which buffer each line is in: they alternate.
BuffersInv ==
  /\ active = IF Len(held) = 1 THEN 1 - Base ELSE Base
  /\ lent # <<>> => lent[Len(lent)].buffer = 1 - Base
  /\ Len(lent) = 2 => lent[1].buffer = Base
  /\ held # <<>> => held[1].buffer = Base
  /\ Len(held) = 2 => held[2].buffer = 1 - Base

\* Only the line begun goes on: the other buffer rests, and so do both when both are full
\* or when bytes are skipped.
AssemblersInv ==
  /\ \A b \in Buffers : assembler[b].dropping => assembler[b].done
  /\ Rests(assembler[1 - active])
  /\ Len(lent) + Len(held) = 2 => Rests(assembler[active])
  /\ resync => Rests(assembler[active])

\* The sink's buffers hold lines of the stream.
LentInv ==
  \A i \in 1..Len(lent) :
    lent[i].eol \in script /\ IsLine(assembler[lent[i].buffer].text, lent[i].eol)

-----------------------------------------------------------------------------
(* The channel's ring.                                                       *)
\* The laps the next look goes by, and the elements of the laps the channel has ended.
InUse == IF pc \in {"look_count", "gap_verdict", "verdict"} THEN read1 ELSE laps
Counted == (laps + (IF uncounted THEN 1 ELSE 0)) * Lap

\* The head is at most a lap behind the channel, and the storage holds the last lap.
ChannelInv ==
  OnHardware =>
    /\ written = sent /\ tailAt <= headAt /\ headAt <= written
    /\ Counted <= written /\ written < Counted + Lap
    /\ InUse <= laps /\ InUse * Lap <= written /\ written < (InUse + 2) * Lap
    /\ written >= (InUse + 1) * Lap => written - headAt < Lap
    /\ \A p \in 1..written : written - p < Lap => storage[(p - 1) % Lap] = p
    /\ InHand => run.at = tailAt % Lap /\ run.at + run.n <= Lap /\ tailAt + run.n <= headAt

-----------------------------------------------------------------------------
(* The interrupt's ring: c is the place in the stream of the last byte       *)
(* released or lost, g the place the skip in hand goes to.                   *)
Item(i) == slots[(tail + i) % Size]

\* The bytes in it and the bytes it lost are all that was sent after c.
RingBehind(c) ==
  /\ \A i \in 0..Queued - 1 :
       Item(i) <= sent /\ Item(i) >= c + 1 + i /\ \A h \in heard : h < Item(i)
  /\ c + Queued <= sent
  /\ \A p \in c + 1..sent : p \in lost \/ \E i \in 0..Queued - 1 : Item(i) = p

\* A loss the reader has not seen is marked; with none, the bytes are the next ones.
RingWhole(c) ==
  ~Skipping =>
    IF Dropped THEN c + Queued < sent \/ (c \in lost /\ ~InHand)
               ELSE c + Queued = sent /\ \A i \in 0..Queued - 1 : Item(i) = c + 1 + i

\* The run in hand is of the next bytes.
RingSpanned(c) ==
  /\ InHand \/ pc = "look_epoch" => run.n <= Queued /\ run.at = tail /\ run.at + run.n <= Size
  /\ InHand \/ (pc = "look_epoch" /\ ~Dropped) => \A i \in 0..run.n - 1 : Item(i) = c + 1 + i

\* A skip of the q bytes in the ring goes to g.
RingLeap(c, q, g) ==
  /\ c <= g /\ g <= sent /\ q <= Queued /\ g \notin heard
  /\ g + Queued <= sent + q
  /\ ~Dropped => g + Queued = sent + q /\ \A i \in q..Queued - 1 : Item(i) = g + 1 + i - q
  /\ \A i \in q..Queued - 1 : Item(i) >= g + 1 + i - q
  /\ \A p \in c + 1..g : p \in lost \/ \E i \in 0..q - 1 : Item(i) = p
  /\ g \in lost \/ \E i \in 0..q - 1 : Item(i) = g

ByteRingInv(c, g) ==
  /\ RingBehind(c) /\ RingWhole(c) /\ RingSpanned(c)
  /\ pc = "skip" => c < sent \/ c \in lost
  /\ pc = "jump" => RingLeap(c, read1, g)

-----------------------------------------------------------------------------
(* The stream read up to c.                                                  *)
\* The channel has not come round to the run in hand.
Intact == OnHardware => written - tailAt <= Lap
LineStart(p) == p = 0 \/ p \in script
Short(e) == e - 1 - LineBefore(e) <= MaxChars
\* What OnlyGapsLose allows to cost the line that ends at e.
Excused(e) == \E b \in lost : /\ b <= e
                              /\ \/ b > LineBefore(e)
                                 \/ b > LineBefore(LineBefore(e)) /\ LineBefore(e) \notin heard
\* The beginning of the line the byte after k is in, and what allows to skip that line.
Begins(k) == LineBefore(k + 1)
SkipExcused(k) == \E b \in lost : /\ b <= k
                                  /\ \/ b > Begins(k)
                                     \/ b > LineBefore(Begins(k)) /\ Begins(k) \notin heard

\* The active assembler holds the line begun, up to k.
Assembled(k) ==
  LET a == assembler[active]
  IN /\ a.dropping => k - Begins(k) > MaxChars
     /\ ~a.dropping /\ a.done => k = Begins(k)
     /\ ~a.dropping /\ ~a.done =>
          /\ k > Begins(k) /\ k - Begins(k) <= MaxChars /\ Len(a.text) = k - Begins(k)
          /\ \A i \in 1..Len(a.text) : a.text[i] = Begins(k) + i

\* The line that ends at e was delivered, or is held.
Delivered(e) == \E i \in 1..Len(got) : got[i] = e
HeldNow(e) == \E i \in 1..Len(held) : held[i].eol = e

\* Up to c, every short line was delivered or is excused.
GotInv(c) ==
  /\ \A i \in 1..Len(got) : got[i] <= c
  /\ \A i \in 1..Len(got) - 1 : got[i] < got[i + 1]
  /\ \A e \in script : e <= c /\ Short(e) => Delivered(e) \/ Excused(e)

\* From there to the byte in hand, it is held or excused.
HeldInv(c) ==
  /\ \A e \in script : c < e /\ e <= c + next /\ Short(e) => HeldNow(e) \/ Excused(e)
  /\ \A i \in 1..Len(held) : /\ held[i].eol \in script /\ c < held[i].eol /\ held[i].eol <= c + next
                             /\ IsLine(assembler[held[i].buffer].text, held[i].eol)
  /\ Len(held) = 2 => held[1].eol < held[2].eol

\* A drop of the interrupt's that the next look sees.
DropUnseen == ~OnHardware /\ Dropped /\ ~InHand

\* A line not skipped is the one assembled; one skipped is excused, or a silence has ended the skip.
SyncInv(c) ==
  /\ ~resync /\ ~Pending => Assembled(c + next)
  /\ resync => SkipExcused(c + next) \/ (quiet /\ silent /\ c \in heard)
  /\ Pending /\ ~Skipping => SkipExcused(c)
  /\ quiet /\ silent /\ ~Pending /\ ~DropUnseen => LineStart(c)

StreamInv(c) ==
  /\ c + next <= sent /\ lost \subseteq 1..sent
  /\ GotInv(c)
  /\ pc \in {"look_epoch", "looked"} /\ run.n = 0 /\ ~Pending /\ (pc = "look_epoch" => ~Dropped) =>
       c \notin heard
  /\ Intact => HeldInv(c) /\ SyncInv(c)

\* The transport's place in it.
Cursor(c, g) == IF OnHardware THEN c = tailAt ELSE ByteRingInv(c, g)

CursorInv == \E c, g \in Nat : Cursor(c, g) /\ StreamInv(c)

ReaderInv == FrameInv /\ BuffersInv /\ AssemblersInv /\ LentInv /\ ChannelInv /\ CursorInv
=============================================================================
