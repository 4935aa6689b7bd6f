--------------------------- MODULE OrderLifecycle ---------------------------
(***************************************************************************)
(* What the scheduled-order subsystem promises of each order, without a    *)
(* monitor, sessions or locks: it is scheduled once, quantity of it is     *)
(* submitted only while it is scheduled, and it ends once, with one entry  *)
(* in the status history, or is cleared without one.  OrderMonitor         *)
(* implements this specification.                                          *)
(***************************************************************************)
EXTENDS Integers

CONSTANT Orders

VARIABLES
  stage,      \* of each order: "none", "scheduled", "ended" or "cleared"
  history,    \* entries of each order in the status history
  submitted   \* quantity of each order the exchange has accepted

vars == <<stage, history, submitted>>

Init ==
  /\ stage = [o \in Orders |-> "none"]
  /\ history = [o \in Orders |-> 0]
  /\ submitted = [o \in Orders |-> 0]

Schedule(o) ==
  /\ stage[o] = "none"
  /\ stage' = [stage EXCEPT ![o] = "scheduled"]
  /\ UNCHANGED <<history, submitted>>

Submit(o) ==
  /\ stage[o] = "scheduled"
  /\ submitted' \in [Orders -> Nat]
  /\ submitted'[o] > submitted[o]
  /\ \A p \in Orders \ {o} : submitted'[p] = submitted[p]
  /\ UNCHANGED <<stage, history>>

\* A scan ends several orders at once, when it commits.
End(S) ==
  /\ \A o \in S : stage[o] = "scheduled"
  /\ stage' = [o \in Orders |-> IF o \in S THEN "ended" ELSE stage[o]]
  /\ history' = [o \in Orders |-> IF o \in S THEN history[o] + 1 ELSE history[o]]
  /\ UNCHANGED submitted

Clear ==
  /\ stage' = [o \in Orders |-> IF stage[o] = "scheduled" THEN "cleared" ELSE stage[o]]
  /\ UNCHANGED <<history, submitted>>

Next ==
  \/ \E o \in Orders : Schedule(o) \/ Submit(o)
  \/ \E S \in SUBSET Orders : End(S)
  \/ Clear

Spec == Init /\ [][Next]_vars
=============================================================================
