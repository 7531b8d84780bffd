---------------------------- MODULE HardwareRing ----------------------------
(***************************************************************************)
(* HardwareRing of util/ring.hpp: the consumer's half of a ring a DMA       *)
(* channel fills lap after lap. The producer's head is put together from    *)
(* two reads, the laps its completion interrupt has counted and the count   *)
(* left in the lap; a run is judged again when it is released.              *)
(***************************************************************************)
EXTENDS Integers

CONSTANT Lap       \* the storage's length: the period of every position

ASSUME LapAssumption == Lap \in Nat /\ Lap > 1

VARIABLES
  storage,
  written,    \* elements the channel has written since it was started
  laps,       \* Counter::laps(): the wraps the completion handler has counted
  uncounted,  \* a wrap whose handler has not run yet
  tailAt,     \* tail_, a position
  headAt,     \* head_, the producer's position as last looked at
  skips       \* skips_, one at each jump of the tail

hardwareVars == <<storage, written, laps, uncounted, tailAt, headAt, skips>>

HardwareInit ==
  /\ storage = [i \in 0..Lap - 1 |-> 0]
  /\ written = 0 /\ laps = 0 /\ uncounted = FALSE
  /\ tailAt = 0 /\ headAt = 0 /\ skips = 0

(* The channel writes its next element; lapsInUse is the lap count a look    *)
(* goes by. The guards are what the environment owes. That count is at most *)
(* one wrap behind, from the look's first read to its second; so a          *)
(* completion is counted before the next wrap. And while a wrap is not in   *)
(* it, the last look is less than a lap behind: a head that went back is    *)
(* then one lap short and no more (the header: "exact while the consumer    *)
(* looks more often than once a lap", "What it cannot know").               *)
DmaWrite(b, lapsInUse) ==
  LET wraps == (written + 1) % Lap = 0 IN
  /\ written + 1 < (lapsInUse + 2) * Lap
  /\ written + 1 >= (lapsInUse + 1) * Lap => written + 1 - headAt < Lap
  /\ storage' = [storage EXCEPT ![written % Lap] = b]
  /\ written' = written + 1
  /\ uncounted' = (uncounted \/ wraps)
  /\ UNCHANGED <<laps, tailAt, headAt, skips>>

(* The completion interrupt.                                                *)
CountLap ==
  /\ uncounted
  /\ uncounted' = FALSE
  /\ laps' = laps + 1
  /\ UNCHANGED <<storage, written, tailAt, headAt, skips>>

(* head_from(): the count is read now, the laps were read before; a head    *)
(* behind the last one seen is a wrap not counted yet.                      *)
HeadFrom(lapsRead) ==
  LET h == lapsRead * Lap + (written % Lap) IN
  IF h < headAt THEN h + Lap ELSE h

(* look_unread(), from the second of its two reads: a lap missed is skipped.*)
LookUnread(lapsRead) ==
  LET h == HeadFrom(lapsRead) IN
  /\ headAt' = h
  /\ IF h - tailAt >= Lap THEN tailAt' = h /\ skips' = skips + 1
                          ELSE UNCHANGED <<tailAt, skips>>
  /\ UNCHANGED <<storage, written, laps, uncounted>>

(* read_span()'s run, after the look: up to the end of the storage.         *)
HardwareSpan(unread) ==
  LET room == Lap - (tailAt % Lap) IN
  [at |-> tailAt % Lap, n |-> IF unread < room THEN unread ELSE room]

(* release(): the look after the run's reads that judges them.              *)
Torn(lapsRead) == HeadFrom(lapsRead) - tailAt > Lap

ReleaseRun(n, lapsRead) ==
  LET h == HeadFrom(lapsRead) IN
  /\ headAt' = h
  /\ IF Torn(lapsRead) THEN tailAt' = h /\ skips' = skips + 1
     ELSE tailAt' = tailAt + (IF n < h - tailAt THEN n ELSE h - tailAt) /\ UNCHANGED skips
  /\ UNCHANGED <<storage, written, laps, uncounted>>
=============================================================================
