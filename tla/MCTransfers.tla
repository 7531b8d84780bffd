----------------------------- MODULE MCTransfers -----------------------------
(* Instances of Inbox, BlockRelay and NvWriter, which share nothing: a         *)
(* behaviour is one of the bridge, one of the relay or one of the writer.      *)
EXTENDS Inbox, BlockRelay, NvWriter

CONSTANTS x, y, p, q
TwoObjects == <<x, y>>
TwoEvents == {p, q}

VARIABLE live     \* the component that runs
transfers == <<live, vars, relayVars, nvVars>>

TransfersInit ==
  /\ live \in {"bridge", "relay", "writer"}
  /\ Init /\ RelayInit /\ NvInit
  /\ relayPreempt => live = "relay"

OfBridge(A) == live = "bridge" /\ A /\ UNCHANGED <<live, relayVars, nvVars>>
OfRelay(A) == live = "relay" /\ A /\ UNCHANGED <<live, vars, nvVars>>
OfWriter(A) == live = "writer" /\ A /\ UNCHANGED <<live, vars, relayVars>>

TransfersNext == OfBridge(Next) \/ OfRelay(RelayNext) \/ OfWriter(NvNext)

TransfersSpec ==
  /\ TransfersInit /\ [][TransfersNext]_transfers
  /\ WF_transfers(OfBridge(Sender)) /\ WF_transfers(OfBridge(Receiver)) /\ WF_transfers(OfBridge(Enable))
  /\ WF_transfers(OfRelay(Relaying)) /\ WF_transfers(OfRelay(Reading))
  /\ WF_transfers(OfWriter(Writing)) /\ WF_transfers(OfWriter(StoreDone)) /\ WF_transfers(OfWriter(ReadyInterrupt))
=============================================================================
