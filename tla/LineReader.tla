----------------------------- MODULE LineReader -----------------------------
(***************************************************************************)
(* util/line_reader.hpp over a receive ring, with the receive interrupt     *)
(* below it and the line sink above it.                                     *)
(*                                                                         *)
(* A byte is its place in the sender's stream, so that what a buffer holds  *)
(* says where it came from. A step of the reader is one access to what the  *)
(* interrupt or the channel also writes, or one byte pushed.                *)
(***************************************************************************)
EXTENDS SkipRing, HardwareRing, Sequences, FiniteSetsExt

CONSTANTS
  Rings,       \* "skip": lock-free; "guarded": consume() masked; "hardware"
  Scripts,     \* what the sender may say: the places of its ends of line
  MaxBytes,    \* how many bytes it says
  MaxChars,    \* max_line - 1
  QueueSlots   \* slots of the reader's queue, the one in dispatch included

ASSUME ReaderAssumption ==
  /\ Rings \subseteq {"skip", "guarded", "hardware"}
  /\ MaxBytes \in Nat /\ MaxChars \in Nat \ {0} /\ QueueSlots \in Nat \ {0}
  /\ \A s \in Scripts : s \subseteq Nat \ {0}

Buffers == {0, 1}

VARIABLES
  ring,        \* the transport, chosen once
  script,      \* the ends of line of what is sent
  sent,        \* bytes sent
  pc,          \* the drain's place
  run, next,   \* the run in hand, and how many of its bytes are read
  read1,       \* what the first of a verb's two reads gave: a head, a lap count
  assembler,   \* [text, done, dropping]: LineAssembler
  active, activeAtRun,
  held,        \* lines completed from the run in hand
  inFlight, resync, torn, seenSkips,
  quiet,       \* the ring found empty during a skip
  silent,      \* quiet_ticks have passed since
  heard,       \* history: the ends of line such a silence followed
  queue,       \* RxActivity waiting
  lent,        \* buffers lent to the sink, as LineReceived waiting with it
  lost,        \* history: bytes the stream lost
  got          \* history: the lines delivered, each as its end of line

streamVars == <<ring, script, sent>>
drainVars == <<pc, run, next, read1, held>>
lineVars == <<assembler, active, activeAtRun>>
gapVars == <<resync, torn, seenSkips, quiet, silent, heard>>
loanVars == <<inFlight, queue, lent, got>>
readerVars == <<ringVars, hardwareVars, streamVars, lost, drainVars, lineVars, gapVars, loanVars>>

NoRun == [at |-> 0, n |-> 0]
Empty == [text |-> <<>>, done |-> TRUE, dropping |-> FALSE]

ReaderInit ==
  /\ RingInit /\ HardwareInit
  /\ ring \in Rings /\ script \in Scripts
  /\ sent = 0 /\ lost = {} /\ got = <<>>
  /\ pc = "idle" /\ run = NoRun /\ next = 0 /\ read1 = 0
  /\ assembler = [b \in Buffers |-> Empty]
  /\ active = 0 /\ activeAtRun = 0 /\ held = <<>> /\ inFlight = 0
  /\ resync = FALSE /\ torn = 0 /\ seenSkips = 0 /\ quiet = FALSE /\ silent = FALSE
  /\ heard = {}
  /\ queue = 0 /\ lent = <<>>

(* The transport as the drain sees it.                                      *)
OnHardware == ring = "hardware"
Skips == IF OnHardware THEN skips ELSE seen
Unread == IF OnHardware THEN written - tailAt ELSE Queued
ByteAt(r, i) == IF OnHardware THEN storage[(r.at + i) % Lap] ELSE slots[(r.at + i) % Size]
EndOfLine(b) == b \in script

InDispatch == pc # "idle"
(* post<LineReader>(RxActivity): one more than the queue holds changes       *)
(* nothing, the ones in it guarantee the drain.                             *)
Posted(more) == IF more /\ queue + (IF InDispatch THEN 1 ELSE 0) < QueueSlots
                THEN queue + 1 ELSE queue

-----------------------------------------------------------------------------
(* The line, below the ring.                                                *)

(* rxc(): one byte, kept, dropped for its flags, or refused by a full ring.  *)
(* The edge is told when the byte finds the ring empty.                     *)
Receive ==
  /\ ~OnHardware /\ sent < MaxBytes
  /\ sent' = sent + 1
  /\ \/ /\ ~Full
        /\ PushElement(sent + 1)
        /\ queue' = Posted(Queued = 0)
        /\ UNCHANGED <<epoch, lost>>
     \/ /\ Lost
        /\ lost' = lost \cup {sent + 1}
        /\ UNCHANGED <<slots, head, queue>>
  /\ UNCHANGED <<tail, seen, hardwareVars, ring, script, drainVars, lineVars, gapVars,
                 inFlight, lent, got>>

DmaReceive ==
  /\ OnHardware /\ sent < MaxBytes
  /\ DmaWrite(sent + 1, IF pc \in {"look_count", "gap_verdict", "verdict"} THEN read1 ELSE laps)
  /\ sent' = sent + 1
  /\ UNCHANGED <<ringVars, ring, script, lost, drainVars, lineVars, gapVars, loanVars>>

Completion ==
  /\ CountLap
  /\ UNCHANGED <<ringVars, streamVars, lost, drainVars, lineVars, gapVars, loanVars>>

(* The edge of a receive engine, whichever event of its silicon makes it.    *)
EngineEdge ==
  /\ OnHardware /\ Unread > 0 /\ queue = 0
  /\ queue' = Posted(TRUE)
  /\ UNCHANGED <<ringVars, hardwareVars, streamVars, lost, drainVars, lineVars, gapVars,
                 inFlight, lent, got>>

(* The sender is silent for quiet_ticks: never within a line, and longer     *)
(* than the reader keeps a byte waiting.                                    *)
Silence ==
  /\ quiet /\ ~silent /\ ~InDispatch /\ Unread = 0 /\ queue = 0
  /\ sent = 0 \/ EndOfLine(sent)
  /\ silent' = TRUE
  /\ heard' = heard \cup {sent}
  /\ UNCHANGED <<ringVars, hardwareVars, streamVars, lost, drainVars, lineVars, loanVars,
                 resync, torn, seenSkips, quiet>>

-----------------------------------------------------------------------------
(* The kernel: the sink's queue first, one dispatch at a time.              *)

SinkDispatch ==
  /\ ~InDispatch /\ lent # <<>>
  /\ lent' = Tail(lent)
  /\ UNCHANGED <<ringVars, hardwareVars, streamVars, lost, drainVars, lineVars, gapVars,
                 inFlight, queue, got>>

(* running(): the sink has consumed what was lent.                           *)
Dispatch ==
  /\ ~InDispatch /\ lent = <<>> /\ queue > 0
  /\ queue' = queue - 1
  /\ inFlight' = 0
  /\ pc' = "look"
  /\ UNCHANGED <<ringVars, hardwareVars, streamVars, lost, lineVars, gapVars, lent, got,
                 run, next, read1, held>>

-----------------------------------------------------------------------------
(* Transport::read_span(), in the transport's steps.                        *)

DrainTo(place) == pc' = place /\ UNCHANGED <<next, held>>

(* The head of an interrupt's ring, or the laps of a channel's.              *)
Look ==
  /\ pc = "look"
  /\ IF OnHardware THEN read1' = laps /\ DrainTo("look_count") /\ UNCHANGED run
                   ELSE run' = Span /\ DrainTo("look_epoch") /\ UNCHANGED read1
  /\ UNCHANGED <<ringVars, hardwareVars, streamVars, lost, lineVars, gapVars, loanVars>>

LookCount ==
  /\ pc = "look_count"
  /\ LookUnread(read1)
  /\ run' = IF tailAt' # tailAt THEN NoRun ELSE HardwareSpan(headAt' - tailAt)
  /\ lost' = lost \cup (tailAt + 1..tailAt')
  /\ DrainTo("looked")
  /\ UNCHANGED <<ringVars, streamVars, lineVars, gapVars, loanVars, read1>>

(* The epoch compared after the run's head was read; a drop is taken as seen *)
(* before the head the tail jumps to is.                                    *)
LookEpoch ==
  /\ pc = "look_epoch"
  /\ IF Dropped THEN seen' = epoch /\ run' = NoRun /\ DrainTo("skip")
                ELSE UNCHANGED <<seen, run>> /\ DrainTo("looked")
  /\ UNCHANGED <<slots, head, tail, epoch, hardwareVars, streamVars, lost, lineVars, gapVars,
                 loanVars, read1>>

Discarded(n) == {slots[(tail + i) % Size] : i \in 0..n - 1}

(* consume() of the whole ring: the head read, then the tail stored, or both *)
(* under the critical section.                                              *)
SkipHead ==
  /\ pc = "skip" /\ ring = "skip"
  /\ read1' = Queued
  /\ DrainTo("jump")
  /\ UNCHANGED <<ringVars, hardwareVars, streamVars, lost, lineVars, gapVars, loanVars, run>>

SkipTail ==
  /\ pc = IF ring = "skip" THEN "jump" ELSE "skip"
  /\ LET queued == IF ring = "skip" THEN read1 ELSE Queued IN
     Consume(Size - 1, queued) /\ lost' = lost \cup Discarded(queued)
  /\ DrainTo("looked")
  /\ UNCHANGED <<slots, head, epoch, seen, hardwareVars, streamVars, lineVars, gapVars, loanVars,
                 run, read1>>

-----------------------------------------------------------------------------
(* The line begun, and a gap in the stream.                                 *)

(* LineAssembler::push(); a line is completed by an end of line that ends no *)
(* overflow's drop.                                                         *)
Pushed(a, b, eol) ==
  LET text == IF a.done THEN <<>> ELSE a.text IN
  CASE a.dropping -> [a EXCEPT !.dropping = ~eol]
    [] ~a.dropping /\ eol -> [a EXCEPT !.text = text, !.done = TRUE]
    [] ~a.dropping /\ ~eol /\ Len(text) = MaxChars -> [a EXCEPT !.done = TRUE, !.dropping = TRUE]
    [] OTHER -> [a EXCEPT !.text = Append(text, b), !.done = FALSE]

(* end_begun_line(), and what it counts.                                     *)
Begun(b) == IF assembler[b].done THEN 0 ELSE 1
Ended(bs) == [b \in Buffers |-> IF b \in bs THEN Pushed(assembler[b], 0, TRUE) ELSE assembler[b]]

(* Mutant of SeeGap: the line begun goes on.                                 *)
SeeGapGoesOn == /\ seenSkips' = Skips
                /\ resync' = TRUE
                /\ UNCHANGED <<torn, assembler>>

(* seen(): the line begun is torn, and the skip to an end of line armed.     *)
SeeGap ==
  /\ seenSkips' = Skips
  /\ torn' = torn + Begun(active)
  /\ assembler' = Ended({active})
  /\ resync' = TRUE

GapSeen == Skips # seenSkips

(* The ring is empty: found_quiet() if a skip is under way or was just made. *)
FoundEmpty ==
  /\ pc = "looked" /\ run.n = 0
  /\ IF GapSeen THEN SeeGap ELSE UNCHANGED <<seenSkips, torn, assembler, resync>>
  /\ quiet' = IF resync \/ GapSeen THEN TRUE ELSE quiet
  /\ silent' = IF resync \/ GapSeen THEN FALSE ELSE silent
  /\ DrainTo("end")
  /\ UNCHANGED <<ringVars, hardwareVars, streamVars, lost, loanVars, active, activeAtRun,
                 heard, run, read1>>

(* after_gap(): a gap since the last run, or a skip that no silence ended,   *)
(* turns the run into one to be skipped; the drain's loop otherwise begins. *)
FoundRun ==
  LET over == ~GapSeen /\ resync /\ quiet /\ silent
      skip == GapSeen \/ (resync /\ ~over)
  IN
  /\ pc = "looked" /\ run.n > 0
  /\ IF GapSeen THEN SeeGap
     ELSE resync' = (resync /\ ~over) /\ UNCHANGED <<seenSkips, torn, assembler>>
  /\ quiet' = (quiet /\ ~GapSeen /\ ~resync)
  /\ pc' = IF skip THEN "gap" ELSE "read"
  /\ next' = 0 /\ held' = <<>> /\ activeAtRun' = active
  /\ UNCHANGED <<ringVars, hardwareVars, streamVars, lost, loanVars, active, silent, heard,
                 run, read1>>

GapOver == pc = "gap" /\ (next = run.n \/ ~resync)

SkipByte ==
  /\ pc = "gap" /\ ~GapOver
  /\ next' = next + 1
  /\ resync' = ~EndOfLine(ByteAt(run, next))
  /\ UNCHANGED <<ringVars, hardwareVars, streamVars, lost, lineVars, loanVars, torn, seenSkips,
                 quiet, silent, heard, pc, run, held, read1>>

-----------------------------------------------------------------------------
(* A run read.                                                              *)

RunOver == pc = "read" /\ (next = run.n \/ inFlight + Len(held) >= 2)

(* One byte to the active assembler; the one after a completed line goes to  *)
(* the other.                                                               *)
ReadByte ==
  LET b == ByteAt(run, next)
      completed == EndOfLine(b) /\ ~assembler[active].dropping
  IN
  /\ pc = "read" /\ ~RunOver
  /\ next' = next + 1
  /\ assembler' = [assembler EXCEPT ![active] = Pushed(@, b, EndOfLine(b))]
  /\ held' = IF completed THEN Append(held, [buffer |-> active, eol |-> b]) ELSE held
  /\ active' = IF completed THEN 1 - active ELSE active
  /\ UNCHANGED <<ringVars, hardwareVars, streamVars, lost, loanVars, gapVars, activeAtRun,
                 pc, run, read1>>

(* deliver() of the lines held, and the loop's test.                         *)
Deliver(lines) ==
  /\ lent' = lent \o lines
  /\ got' = got \o [i \in 1..Len(lines) |-> lines[i].eol]
  /\ inFlight' = inFlight + Len(lines)
  /\ pc' = IF inFlight + Len(lines) < 2 THEN "look" ELSE "end"
  /\ UNCHANGED queue

(* tear(): the lines of the run refused are dropped with the line begun, in  *)
(* the assembler the run came to and, when none is lent, in the other.      *)
Tear ==
  LET ended == IF inFlight = 0 THEN Buffers ELSE {activeAtRun} IN
  /\ active' = activeAtRun
  /\ assembler' = Ended(ended)
  /\ torn' = torn + Len(held) + (IF inFlight = 0 THEN Begun(0) + Begun(1) ELSE Begun(activeAtRun))
  /\ resync' = TRUE
  /\ UNCHANGED <<seenSkips, quiet, silent, heard>>

(* Mutant of Release: the whole run, where the drain stopped within it.      *)
ReleaseWholeRun ==
  /\ ~OnHardware /\ (GapOver \/ RunOver)
  /\ Consume(run.n, Queued)
  /\ Deliver(held)
  /\ held' = <<>> /\ next' = 0
  /\ UNCHANGED <<slots, head, epoch, seen, hardwareVars, streamVars, lost, lineVars, gapVars,
                 run, read1>>

(* The release of an interrupt's ring cannot refuse. After a gap's run the   *)
(* drain's own release, of no byte, follows.                                *)
Release ==
  /\ ~OnHardware /\ (GapOver \/ RunOver)
  /\ Consume(next, Queued)
  /\ Deliver(held)
  /\ held' = <<>> /\ next' = 0
  /\ UNCHANGED <<slots, head, epoch, seen, hardwareVars, streamVars, lost, lineVars, gapVars,
                 run, read1>>

ReleaseLaps ==
  /\ OnHardware
  /\ \/ GapOver /\ pc' = "gap_verdict"
     \/ RunOver /\ pc' = "verdict"
  /\ read1' = laps
  /\ UNCHANGED <<ringVars, hardwareVars, streamVars, lost, lineVars, gapVars, loanVars,
                 run, next, held>>

Verdict ==
  /\ pc \in {"gap_verdict", "verdict"}
  /\ ReleaseRun(next, read1)
  /\ IF Torn(read1)
     THEN /\ Tear
          /\ lost' = lost \cup (tailAt + 1..tailAt')
     ELSE UNCHANGED <<lost, active, assembler, gapVars>>
  /\ IF pc = "gap_verdict"
     THEN pc' = "read" /\ run' = NoRun /\ UNCHANGED <<queue, lent, got, inFlight>>
     ELSE Deliver(IF Torn(read1) THEN <<>> ELSE held) /\ UNCHANGED run
  /\ held' = <<>> /\ next' = 0
  /\ UNCHANGED <<ringVars, streamVars, activeAtRun, read1>>

(* Mutant of EndDrain: no post to itself.                                    *)
EndDrainUnposted ==
  /\ pc = "end"
  /\ pc' = "idle"
  /\ run' = NoRun /\ read1' = 0
  /\ UNCHANGED <<ringVars, hardwareVars, streamVars, lost, lineVars, gapVars, loanVars,
                 next, held>>

(* The drain stopped with both buffers lent goes on after the sink.          *)
EndDrain ==
  /\ pc = "end"
  /\ queue' = Posted(inFlight >= 2)
  /\ pc' = "idle"
  /\ run' = NoRun /\ read1' = 0
  /\ UNCHANGED <<ringVars, hardwareVars, streamVars, lost, lineVars, gapVars, inFlight, lent, got,
                 next, held>>

Drain == \/ Look \/ LookCount \/ LookEpoch \/ SkipHead \/ SkipTail \/ FoundEmpty \/ FoundRun
         \/ SkipByte \/ ReadByte \/ Release \/ ReleaseLaps \/ Verdict \/ EndDrain

ReaderNext == Receive \/ DmaReceive \/ Completion \/ EngineEdge \/ Silence
        \/ SinkDispatch \/ Dispatch \/ Drain

(* The cooperative kernel serves what waits and a handler runs to its end;   *)
(* a pending interrupt is served. The sender may stop at any byte.          *)
ReaderSpec == ReaderInit /\ [][ReaderNext]_readerVars
        /\ WF_readerVars(SinkDispatch \/ Dispatch \/ Drain) /\ WF_readerVars(EngineEdge) /\ WF_readerVars(Completion)

-----------------------------------------------------------------------------
(* Properties.                                                              *)

ReaderTypeOK ==
  /\ head \in 0..Size - 1 /\ tail \in 0..Size - 1 /\ epoch \in 0..EpochMod - 1
  /\ lost \subseteq 1..sent /\ queue \in 0..QueueSlots /\ inFlight \in 0..2
  /\ active \in Buffers /\ Len(held) + inFlight <= 2 /\ next <= run.n

(* The end of line before the place e, or the stream's start.                *)
LineBefore(e) == Max({0} \cup {p \in script : p < e})

IsLine(text, e) == /\ Len(text) = e - 1 - LineBefore(e)
                   /\ \A i \in 1..Len(text) : text[i] = LineBefore(e) + i

(* A buffer lent to the sink holds one line exactly as it was sent, from the *)
(* post to the end of the sink's dispatch: no piece of a line, no two lines *)
(* joined over a gap, no byte the channel wrote over while it was read, and *)
(* never the next line (line_reader.hpp: running(), drain(), tear()).       *)
LentWhole ==
  /\ ReaderTypeOK
  /\ \A i \in 1..Len(lent) :
       /\ lent[i].eol \in script
       /\ IsLine(assembler[lent[i].buffer].text, lent[i].eol)
       /\ \A j \in 1..Len(lent) : i # j => lent[i].buffer # lent[j].buffer

(* Lines arrive in order and once, and only a gap costs one: a line that did *)
(* not arrive was too long, or the ring lost a byte of it or of the line    *)
(* before it, whose end the skip then could not tell, unless a silence       *)
(* followed that line (line_reader.hpp: after_gap(), found_quiet(), tear()).*)
OnlyGapsLose ==
  /\ \A i \in 1..Len(got) - 1 : got[i] < got[i + 1]
  /\ pc = "idle" /\ queue = 0 /\ Unread = 0 =>
       \A e \in script :
         e <= sent /\ e - 1 - LineBefore(e) <= MaxChars =>
           \/ \E i \in 1..Len(got) : got[i] = e
           \/ \E b \in lost : /\ b <= e
                                /\ \/ b > LineBefore(e)
                                   \/ b > LineBefore(LineBefore(e)) /\ LineBefore(e) \notin heard

(* Every byte received is read in the end, with no more said to the reader   *)
(* than the edge of an empty ring and its own posts (line_reader.hpp: the    *)
(* end of drain()). Over a lock-free ring, as long as no byte was dropped.   *)
AllRead == ring # "skip" \/ [](lost = {}) => []<>(Unread = 0)

(* "Told once: the next true waits until the consumer has found the ring     *)
(* empty, so there is [...] no lost wakeup" (docs/design/serial.md:138): no  *)
(* byte waits in the ring while nothing waits to read it.                   *)
NothingStranded == ~OnHardware /\ pc = "idle" /\ queue = 0 => Unread = 0
=============================================================================
