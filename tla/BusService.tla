----------------------------- MODULE BusService -----------------------------
(***************************************************************************)
(* What the arbiter of a serial bus promises its clients (the head of      *)
(* util/bus_master.hpp): one transaction on the wire at a time, in the     *)
(* order the requests arrived, each answered once; a request is refused    *)
(* only when Depth others wait ahead of it.                                *)
(***************************************************************************)
EXTENDS Sequences, Naturals

CONSTANTS
  Client,    \* those who post requests, one each at a time
  Nobody,    \* not one of them
  Depth      \* how many may wait: pending_depth

VARIABLES
  line,      \* the requests not answered and not on the wire, oldest first
  wire       \* whose request is on the wire

vars == <<line, wire>>

Init == line = <<>> /\ wire = Nobody

Waiting == {line[k] : k \in DOMAIN line}

Ask(c) ==
  /\ c \notin Waiting \cup {wire}
  /\ line' = Append(line, c)
  /\ UNCHANGED wire

Begin ==
  /\ wire = Nobody /\ line # <<>>
  /\ wire' = Head(line) /\ line' = Tail(line)

Answer == wire # Nobody /\ wire' = Nobody /\ UNCHANGED line

\* A transaction that ends inside start().
AnswerAtOnce ==
  /\ wire = Nobody /\ line # <<>>
  /\ line' = Tail(line)
  /\ UNCHANGED wire

Refuse ==
  /\ Len(line) > Depth
  /\ line' = SubSeq(line, 1, Depth) \o SubSeq(line, Depth + 2, Len(line))
  /\ UNCHANGED wire

Next == Begin \/ Answer \/ AnswerAtOnce \/ Refuse \/ \E c \in Client : Ask(c)

Spec == Init /\ [][Next]_vars
=============================================================================
