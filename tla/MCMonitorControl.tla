-------------------------- MODULE MCMonitorControl --------------------------
(***************************************************************************)
(* Small instances of MonitorControl, and of MarketGate, which every cycle *)
(* of a started monitor goes through.  Neither touches the state of the    *)
(* other, so that a behaviour explores one of them, its "part", while the  *)
(* other stays where it began.                                             *)
(***************************************************************************)
EXTENDS MonitorControl, MarketGate

CONSTANTS m1, m2, m3, m4, c1, c2, b1, p1

VARIABLE part  \* "control" or "gate"

\* Two accounts of one broker; pages ask with the first.
MCAccounts == <<1, 2>>
MCBrokerOf == <<b1, b1>>
MCAccountOf == [p \in Pages |-> 1]

PartInit ==
  /\ Init /\ GateInit
  /\ part \in IF window THEN {"control"} ELSE {"control", "gate"}
PartNext ==
  \/ part = "control" /\ Next /\ UNCHANGED <<part, gateVars>>
  \/ part = "gate" /\ GateNext /\ UNCHANGED <<part, vars>>
PartSpec == PartInit /\ [][PartNext]_<<part, vars, gateVars>> /\ Fairness /\ GateFairness
=============================================================================
