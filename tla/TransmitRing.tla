---------------------------- MODULE TransmitRing ----------------------------
(***************************************************************************)
(* The transmit half of a serial transport: Ring of util/ring.hpp between a *)
(* writer's write_bulk() and the data-register-empty interrupt, which pops  *)
(* one byte a time and disarms itself when the ring is dry. The producer's  *)
(* verbs are cut where the interrupt may come.                              *)
(***************************************************************************)
EXTENDS Integers, Sequences, FiniteSetsExt

CONSTANTS
  TxSize,     \* slots of the ring, one of which stays free
  CopyPart,   \* copy_part: the largest part published at once
  NoByte      \* what a slot holds before it is written

ASSUME TransmitAssumption == TxSize \in Nat /\ TxSize > 1 /\ CopyPart \in Nat \ {0}

VARIABLES
  txSlots, txHead, txTail,
  armed,      \* DREIE
  wire        \* history: the bytes sent

txVars == <<txSlots, txHead, txTail, armed, wire>>

TxInit ==
  /\ txSlots = [i \in 0..TxSize - 1 |-> NoByte]
  /\ txHead = 0 /\ txTail = 0 /\ armed = FALSE /\ wire = <<>>

(* room_body(), and tx_room().                                              *)
Room == (txTail - txHead - 1) % TxSize

InRing == [i \in 1..(txHead - txTail) % TxSize |-> txSlots[(txTail + i - 1) % TxSize]]

(* push_body(), of a run's first byte.                                       *)
TxPush(b) ==
  /\ Room > 0
  /\ txSlots' = [txSlots EXCEPT ![txHead] = b]
  /\ txHead' = (txHead + 1) % TxSize
  /\ UNCHANGED <<txTail, armed, wire>>

(* write_span_body(): the free run, up to a slot short of the tail or to the *)
(* end of the storage.                                                      *)
WriteSpan ==
  IF txTail > txHead THEN txTail - txHead - 1
  ELSE TxSize - txHead - (IF txTail = 0 THEN 1 ELSE 0)

(* How much of the run's rest goes in the next part, and its copy.           *)
Part(rest) == Min({Len(rest), WriteSpan, CopyPart})

TxCopy(rest) ==
  /\ Part(rest) > 0
  /\ txSlots' = [i \in DOMAIN txSlots |->
                   IF i \in txHead..txHead + Part(rest) - 1 THEN rest[i - txHead + 1] ELSE txSlots[i]]
  /\ UNCHANGED <<txHead, txTail, armed, wire>>

(* publish_body(), clamped to the room there is now.                         *)
TxPublish(n) ==
  /\ txHead' = (txHead + Min({n, Room})) % TxSize
  /\ UNCHANGED <<txSlots, txTail, armed, wire>>

TxArm == armed' = TRUE /\ UNCHANGED <<txSlots, txHead, txTail, wire>>

(* dre(): the ring's last byte, or an interrupt that finds none, disarms it. *)
Dre ==
  /\ armed
  /\ IF InRing = <<>> THEN UNCHANGED <<txTail, wire>>
     ELSE wire' = Append(wire, txSlots[txTail]) /\ txTail' = (txTail + 1) % TxSize
  /\ armed' = (Len(InRing) > 1)
  /\ UNCHANGED <<txSlots, txHead>>
=============================================================================
