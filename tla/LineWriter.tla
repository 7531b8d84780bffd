----------------------------- MODULE LineWriter -----------------------------
(***************************************************************************)
(* util/line_writer.hpp over a transmit ring, under a kernel that nests:    *)
(* main context, the objects over it and an interrupt handler over them,    *)
(* each printing lines where it interrupts the others. A context is a       *)
(* frame of one stack, and only the top one runs; the steps are its         *)
(* critical sections and what it does between them.                         *)
(***************************************************************************)
EXTENDS TransmitRing, SequencesExt

CONSTANTS
  Objects,     \* how many objects print; here the highest has the highest number
  WaitFroms,   \* the wait_from options to be tried, 0 for none
  Printers,    \* the sources that print
  LongSize, SmallSize, SmallStages,
  SeqRange,    \* the numbers of pending lines are bytes: 2^8
  FirstSeq,    \* the number an idle writer has come to
  MarkSize,    \* the bytes of "lost N"
  Sizes,       \* the lengths of lines
  MaxLines     \* bound: lines begun

\* An empty line (put() of an empty run) is left out.
ASSUME WriterAssumption ==
  /\ Objects \in Nat /\ WaitFroms \subseteq 0..Objects /\ Printers \subseteq 0..Objects + 1
  /\ LongSize \in 1..TxSize - 1 /\ SmallSize \in 1..TxSize - 1 /\ MarkSize \in 1..TxSize - 1
  /\ SmallStages \in Nat /\ SeqRange \in Nat \ {0} /\ SmallStages < SeqRange \div 2
  /\ FirstSeq \in 0..SeqRange - 1 /\ Sizes \subseteq Nat \ {0} /\ MaxLines \in Nat

Main == 0
Handler == Objects + 1
Sources == Main..Handler
Stages == 0..SmallStages      \* 0 is the long one
NoSlot == -1
Refused == -2

VARIABLES
  waitFrom,     \* the option, chosen once
  stack,        \* the contexts, the running one last
  stages,       \* stages_
  slot,         \* slots_: a source's open line
  busy,         \* the lock
  seqNo,        \* seq_
  lostLines, marked,
  begun,        \* history: lines begun
  completed,    \* history: lines completed, in order
  refused       \* history: lines refused

poolVars == <<stages, slot, seqNo, lostLines, begun, completed, refused>>
vars == <<txVars, waitFrom, stack, busy, marked, poolVars>>

Frame(src) == [src |-> src, pc |-> "run", printed |-> FALSE, stage |-> 0, line |-> 0,
               now |-> 0, mark |-> FALSE, at |-> 0, part |-> 0]
NoLine == [line |-> 0, size |-> 0, owner |-> Main, state |-> "free", seq |-> 0, overflow |-> FALSE]

Init ==
  /\ TxInit
  /\ waitFrom \in WaitFroms
  /\ stack = <<Frame(Main)>>
  /\ stages = [i \in Stages |-> NoLine] /\ slot = [s \in Sources |-> NoSlot]
  /\ busy = FALSE /\ seqNo = FirstSeq /\ lostLines = 0 /\ marked = 0
  /\ begun = 0 /\ completed = <<>> /\ refused = {}

Top == stack[Len(stack)]
At(place) == Top.pc = place
Become(f) == stack' = [stack EXCEPT ![Len(stack)] = f]
GoTo(place) == Become([Top EXCEPT !.pc = place])
Printed == Become([Top EXCEPT !.printed = TRUE])

MayWait(src) == src = Main \/ src = waitFrom
Capacity(i) == IF i = 0 THEN LongSize ELSE SmallSize
In(state) == {i \in Stages : stages[i].state = state}

-----------------------------------------------------------------------------
(* The kernel's nesting. A context is entered for what it prints: the         *)
(* interruptions of a dispatch are as many as the bound on lines lets.       *)

Enter(src) ==
  /\ src \in Printers /\ src > Top.src
  /\ begun < MaxLines \/ slot[src] # NoSlot
  /\ stack' = Append(stack, Frame(src))
  /\ UNCHANGED <<txVars, waitFrom, busy, marked, poolVars>>

(* A line may stay open over dispatches; a handler ends the one it starts.    *)
Leave ==
  /\ At("run") /\ Top.src # Main
  /\ Top.printed \/ (begun = MaxLines /\ slot[Top.src] = NoSlot)
  /\ Top.src = Handler => slot[Handler] = NoSlot
  /\ stack' = SubSeq(stack, 1, Len(stack) - 1)
  /\ UNCHANGED <<txVars, waitFrom, busy, marked, poolVars>>

(* The interrupt of the transmitter, which waits for a handler's end.        *)
Transmit ==
  /\ Top.src # Handler
  /\ Dre
  /\ UNCHANGED <<waitFrom, stack, busy, marked, poolVars>>

-----------------------------------------------------------------------------
(* A line composed.                                                         *)

(* take(), under the guard: a free stage, the long one only for who may      *)
(* wait, or the line refused.                                               *)
Claim ==
  LET free == {i \in In("free") : i > 0 \/ MayWait(Top.src)}
      line == begun + 1
  IN
  /\ At("run") /\ slot[Top.src] = NoSlot /\ Top.src \in Printers /\ begun < MaxLines
  /\ begun' = line
  /\ \/ /\ free = {}
        /\ lostLines' = lostLines + 1 /\ refused' = refused \cup {line}
        /\ slot' = [slot EXCEPT ![Top.src] = Refused]
        /\ Printed
        /\ UNCHANGED stages
     \/ /\ free # {}
        /\ stages' = [stages EXCEPT ![Min(free)].state = "open"]
        /\ Become([Top EXCEPT !.pc = "claimed", !.printed = TRUE, !.stage = Min(free), !.line = line])
        /\ UNCHANGED <<slot, lostLines, refused>>
  /\ UNCHANGED <<txVars, waitFrom, busy, marked, seqNo, completed>>

(* The stage made the caller's, and the prints into it.                      *)
Compose ==
  /\ At("claimed")
  /\ \E size \in Sizes :
       stages' = [stages EXCEPT ![Top.stage] =
                    [line |-> Top.line, size |-> size, owner |-> Top.src, state |-> "open",
                     seq |-> @.seq, overflow |-> size > Capacity(Top.stage)]]
  /\ slot' = [slot EXCEPT ![Top.src] = Top.stage]
  /\ GoTo("run")
  /\ UNCHANGED <<txVars, waitFrom, busy, marked, seqNo, lostLines, begun, completed, refused>>

(* end_line() of a line refused, or of one that outgrew its stage.           *)
EndRefused ==
  /\ At("run") /\ slot[Top.src] = Refused
  /\ slot' = [slot EXCEPT ![Top.src] = NoSlot]
  /\ Printed
  /\ UNCHANGED <<txVars, waitFrom, busy, marked, stages, seqNo, lostLines, begun, completed,
                 refused>>

EndOverflow ==
  LET i == slot[Top.src] IN
  /\ At("run") /\ i \in Stages /\ stages[i].overflow
  /\ slot' = [slot EXCEPT ![Top.src] = NoSlot]
  /\ stages' = [stages EXCEPT ![i].state = "free"]
  /\ lostLines' = lostLines + 1 /\ refused' = refused \cup {stages[i].line}
  /\ Printed
  /\ UNCHANGED <<txVars, waitFrom, busy, marked, seqNo, begun, completed>>

-----------------------------------------------------------------------------
(* publish().                                                               *)

(* end_line() and the lock: taken, or the line left pending for its holder.  *)
EndLine ==
  LET i == slot[Top.src] IN
  /\ At("run") /\ i \in Stages /\ ~stages[i].overflow
  /\ slot' = [slot EXCEPT ![Top.src] = NoSlot]
  /\ completed' = Append(completed, stages[i].line)
  /\ \/ /\ busy
        /\ stages' = [stages EXCEPT ![i].state = "pending", ![i].seq = seqNo]
        /\ seqNo' = (seqNo + 1) % SeqRange
        /\ Printed
        /\ UNCHANGED busy
     \/ /\ ~busy
        /\ busy' = TRUE
        /\ stages' = [stages EXCEPT ![i].state = "publishing"]
        /\ Become([Top EXCEPT !.pc = IF lostLines # marked THEN "mark" ELSE "line", !.printed = TRUE,
                              !.stage = i, !.now = lostLines])
        /\ UNCHANGED seqNo
  /\ UNCHANGED <<txVars, waitFrom, marked, lostLines, begun, refused>>

Publishing(f) == stages[f.stage]

(* write_mark(): waited for by who may wait, or owed when both do not fit.    *)
WriteMark ==
  /\ At("mark")
  /\ \/ /\ IF MayWait(Top.src) THEN Room >= MarkSize ELSE Room >= MarkSize + Publishing(Top).size
        /\ Become([Top EXCEPT !.pc = "push", !.mark = TRUE])
     \/ /\ ~MayWait(Top.src) /\ Room < MarkSize + Publishing(Top).size
        /\ GoTo("line")
  /\ UNCHANGED <<txVars, waitFrom, busy, marked, poolVars>>

(* Mutant of Waits: a handler waits too.                                     *)
WaitsAlways(f) == TRUE

(* Who waits for room for the line in hand: a holder or, under a holder that *)
(* is no handler, a line whose own source may.                              *)
Waits(f) == MayWait(f.src) \/ (f.src # Handler /\ MayWait(Publishing(f).owner))

WriteLine ==
  /\ At("line")
  /\ \/ /\ Room >= Publishing(Top).size
        /\ Become([Top EXCEPT !.pc = "push", !.mark = FALSE])
     \/ /\ ~Waits(Top) /\ Room < Publishing(Top).size
        /\ GoTo("refuse")
  /\ UNCHANGED <<txVars, waitFrom, busy, marked, poolVars>>

(* The bytes of a run: a mark is line 0, and owes what was lost since.        *)
Bytes(line, size, owed) == [k \in 1..size |-> [line |-> line, size |-> size, k |-> k, owed |-> owed]]
StageBytes(i) == Bytes(stages[i].line, Min({stages[i].size, Capacity(i)}), 0)
Run(f) == IF f.mark THEN Bytes(0, MarkSize, f.now - marked) ELSE StageBytes(f.stage)

(* write_bulk(): the first byte and the transmitter started, then the rest    *)
(* in parts.                                                                *)
PushFirst ==
  /\ At("push")
  /\ TxPush(Run(Top)[1])
  /\ Become([Top EXCEPT !.pc = "arm", !.at = 1])
  /\ UNCHANGED <<waitFrom, busy, marked, poolVars>>

ArmTransmitter ==
  /\ At("arm")
  /\ TxArm
  /\ GoTo(IF Top.at < Len(Run(Top)) THEN "copy" ELSE "written")
  /\ UNCHANGED <<waitFrom, busy, marked, poolVars>>

CopyRest ==
  LET rest == SubSeq(Run(Top), Top.at + 1, Len(Run(Top))) IN
  /\ At("copy")
  /\ TxCopy(rest)
  /\ Become([Top EXCEPT !.pc = "publish", !.part = Part(rest)])
  /\ UNCHANGED <<waitFrom, busy, marked, poolVars>>

PublishPart ==
  /\ At("publish")
  /\ TxPublish(Top.part)
  /\ Become([Top EXCEPT !.pc = "arm", !.at = @ + Top.part, !.part = 0])
  /\ UNCHANGED <<waitFrom, busy, marked, poolVars>>

(* Mutant of MarkWritten: what was lost while it was written counts as told.  *)
MarkWrittenLate ==
  /\ At("written") /\ Top.mark
  /\ marked' = lostLines
  /\ Become([Top EXCEPT !.pc = "line", !.mark = FALSE, !.at = 0])
  /\ UNCHANGED <<txVars, waitFrom, busy, poolVars>>

MarkWritten ==
  /\ At("written") /\ Top.mark
  /\ marked' = Top.now
  /\ Become([Top EXCEPT !.pc = "line", !.mark = FALSE, !.at = 0])
  /\ UNCHANGED <<txVars, waitFrom, busy, poolVars>>

(* Mutant of Oldest: the first in the pool, as in the other states.           *)
OldestInPool(pending) == Min(pending)

(* oldest_in<st_pending>(): by number, across its wrap.                       *)
Before(i, j) == (stages[i].seq - stages[j].seq) % SeqRange >= SeqRange \div 2
Oldest(pending) == CHOOSE i \in pending : \A j \in pending \ {i} : Before(i, j)

(* The guard at the end of a line: the stage freed, a refusal counted, the    *)
(* oldest pending line next, or the lock released.                          *)
Relay ==
  LET fits == Top.pc = "written"
      pending == In("pending")
      next == Oldest(pending)
  IN
  /\ At("refuse") \/ (At("written") /\ ~Top.mark)
  /\ IF fits THEN UNCHANGED <<lostLines, refused>>
     ELSE lostLines' = lostLines + 1 /\ refused' = refused \cup {Publishing(Top).line}
  /\ \/ /\ pending = {}
        /\ stages' = [stages EXCEPT ![Top.stage].state = "free"]
        /\ busy' = FALSE
        /\ Become([Frame(Top.src) EXCEPT !.printed = TRUE])
     \/ /\ pending # {}
        /\ stages' = [stages EXCEPT ![Top.stage].state = "free", ![next].state = "publishing"]
        /\ Become([Top EXCEPT !.pc = "line", !.stage = next, !.at = 0])
        /\ UNCHANGED busy
  /\ UNCHANGED <<txVars, waitFrom, marked, slot, seqNo, begun, completed>>

-----------------------------------------------------------------------------
(* What the wire has shown once a panic here, outside a critical section,     *)
(* has drained the writer with drain_to_port(): the ring's bytes, the line    *)
(* being published from its start, the pending ones in their order, then the *)
(* open ones as they stand. The kernel is dead by then.                      *)
InOrder(S) == [k \in 1..Cardinality(S) |->
                 CHOOSE i \in S : Cardinality({j \in S \ {i} : Before(j, i)}) = k - 1]

Drained ==
  LET held == SetToSeq(In("publishing")) \o InOrder(In("pending")) \o SetToSeq(In("open")) IN
  wire \o InRing \o FlattenSeq([k \in DOMAIN held |-> StageBytes(held[k])])

Step == Claim \/ Compose \/ EndRefused \/ EndOverflow \/ EndLine \/ WriteMark \/ WriteLine
        \/ PushFirst \/ ArmTransmitter \/ CopyRest \/ PublishPart \/ MarkWritten \/ Relay

Next == (\E src \in Sources : Enter(src)) \/ Leave \/ Transmit \/ Step

(* The running context goes on, and an armed interrupt comes.                *)
Spec == Init /\ [][Next]_vars /\ WF_vars(Step \/ Leave) /\ WF_vars(Transmit)

-----------------------------------------------------------------------------
(* Properties.                                                              *)

TypeOK ==
  /\ txHead \in 0..TxSize - 1 /\ txTail \in 0..TxSize - 1
  /\ busy \in BOOLEAN /\ seqNo \in 0..SeqRange - 1
  /\ marked <= lostLines /\ lostLines <= begun /\ begun <= MaxLines
  /\ slot \in [Sources -> Stages \cup {NoSlot, Refused}]
  /\ refused \subseteq 1..begun /\ ToSet(completed) \subseteq 1..begun

Output == wire \o InRing

(* The place of a line among the completed ones.                             *)
Turn(line) == CHOOSE k \in DOMAIN completed : completed[k] = line

(* What went to the wire is whole lines and marks, none inside another, each *)
(* line once and in the order the lines were completed, whoever interrupted *)
(* whom; only the last may still be under way (line_writer.hpp: publish();  *)
(* ring.hpp: the slot before the index).                                    *)
LinesWhole ==
  /\ TypeOK
  /\ \A j \in DOMAIN Output :
       LET b == Output[j] IN
       /\ IF b.k = 1 THEN j = 1 \/ Output[j - 1].k = Output[j - 1].size
          ELSE j > 1 /\ Output[j - 1] = [b EXCEPT !.k = @ - 1]
       /\ b.k < b.size /\ j = Len(Output) => busy
       /\ b.line # 0 => \A i \in 1..j - 1 :
            LET a == Output[i] IN
            \/ a.line = 0
            \/ a.line = b.line /\ a.k < b.k
            \/ a.line # b.line /\ Turn(a.line) < Turn(b.line)

(* Nothing is lost in silence: a line completed is on the wire, or refused    *)
(* and counted, or held where a panic's drain shows it whole; the marks on   *)
(* the wire tell every loss but the ones still owed. And no stage is lost:   *)
(* one not free is a source's, or waits under the lock (line_writer.hpp:     *)
(* take(), publish(), write_mark(), drain_to_port()).                        *)
NothingLostUntold ==
  LET marks == {j \in DOMAIN Output : Output[j].line = 0 /\ Output[j].k = 1} IN
  /\ lostLines = Cardinality(refused)
  /\ \A line \in ToSet(completed) \ refused :
       \E j \in DOMAIN Drained : Drained[j].line = line /\ Drained[j].k = Drained[j].size
  /\ ~busy =>
       /\ MapThenSumSet(LAMBDA j : Output[j].owed, marks) = marked
       /\ In("pending") \cup In("publishing") = {}
       /\ \A i \in In("open") :
            \/ \E s \in Sources : slot[s] = i
            \/ \E d \in DOMAIN stack : stack[d].pc = "claimed" /\ stack[d].stage = i

(* The lock is released: whoever holds it writes its line and the pending     *)
(* ones and never waits for room that cannot come, as under a handler, which *)
(* holds the transmitter's interrupt off (line_writer.hpp: "Who waits").     *)
LockReleased == busy ~> ~busy
=============================================================================
