------------------------------ MODULE SkipRing ------------------------------
(***************************************************************************)
(* Ring and SkipRing of util/ring.hpp: the ring of a receive interrupt.     *)
(* The producer runs where the consumer cannot interrupt it, so a verb of   *)
(* its is one step; the consumer's verbs are cut at the indices and bytes   *)
(* the producer writes.                                                     *)
(***************************************************************************)
EXTENDS Integers

CONSTANTS
  Size,       \* slots, one of which stays free
  EpochMod    \* the epoch and its copy are bytes: 2^8

ASSUME RingAssumption == Size \in Nat /\ Size > 1 /\ EpochMod \in Nat /\ EpochMod > 1

VARIABLES
  slots,      \* slots_
  head,       \* head_, the producer's
  tail,       \* tail_, the consumer's
  epoch,      \* epoch_, the producer's: one past the copy while a drop stands
  seen        \* seen_, the consumer's copy

ringVars == <<slots, head, tail, epoch, seen>>

Queued == (head - tail) % Size
Full == (head + 1) % Size = tail

RingInit ==
  /\ slots = [i \in 0..Size - 1 |-> 0]
  /\ head = 0 /\ tail = 0 /\ epoch = 0 /\ seen = 0

(* push(): the slot, then the index that publishes it.                      *)
PushElement(b) ==
  /\ slots' = [slots EXCEPT ![head] = b]
  /\ head' = (head + 1) % Size

(* lost(): not an increment, but one past the consumer's copy.              *)
Lost == epoch' = (seen + 1) % EpochMod

(* read_span_body(): up to the head or to the end of the storage.           *)
Span == [at |-> tail,
         n  |-> IF head >= tail THEN head - tail ELSE Size - tail]

Dropped == epoch # seen

(* consume_body(): n clamped to what was queued when the head was read.     *)
Consume(n, queued) == tail' = (tail + (IF n < queued THEN n ELSE queued)) % Size
=============================================================================
