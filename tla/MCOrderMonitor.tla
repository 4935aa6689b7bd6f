--------------------------- MODULE MCOrderMonitor ---------------------------
(* Small instances of OrderMonitor. *)
EXTENDS OrderMonitor

CONSTANTS o1, o2

\* Both orders belong to one client and script.
OnePair == [o \in Orders |-> "c1/NABIL"]
=============================================================================
