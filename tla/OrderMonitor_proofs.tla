------------------------ MODULE OrderMonitor_proofs ------------------------
(***************************************************************************)
(* Proofs that OrderMonitor keeps its types, its history and its quantity  *)
(* promise, for every set of orders and every bound.                       *)
(***************************************************************************)
EXTENDS OrderMonitor, TLAPS

\* Changing the status of a row gives a row.
LEMMA StatusRow ==
  ASSUME NEW r \in Row, NEW s \in LiveStatus
  PROVE  [r EXCEPT !.status = s] \in Row
BY DEF Row

\* A new order is a row.
LEMMA PendingRow ==
  ASSUME NEW q \in Quantity
  PROVE  [status |-> "pending", qty |-> q, remaining |-> q, executed |-> FALSE, watch |-> {}] \in Row
<1>1. q \in 0..MaxQty
  BY DEF Quantity
<1>2. QED
  BY <1>1 DEF Row, LiveStatus, Active

\* Max0 and OrElse stay within the bound of a quantity.
LEMMA LeftBound ==
  ASSUME NEW a \in 0..MaxQty, NEW b \in 0..MaxQty, NEW q \in 0..MaxQty
  PROVE  Max0(OrElse(a, b) - q) \in 0..MaxQty
BY ConstantsAssumption DEF Max0, OrElse

\* An edit writes a row.
LEMMA MergedRow ==
  ASSUME TypeOK, NEW o \in Orders, table[o] # NoRow, edit[o] # NoEdit
  PROVE  Merged(o) \in Row
<1>1. table[o] \in Row /\ edit[o] \in EditSession
  BY DEF TypeOK
<1>2. edit[o].qty \in 0..MaxQty /\ edit[o].qty \in Quantity
  BY <1>1, ConstantsAssumption DEF EditSession, Quantity
<1>3. QED
  BY <1>1, <1>2, ConstantsAssumption DEF Merged, Row, LiveStatus, Active, Quantity

\* Zero is within the bounds.
LEMMA Zero == 0 \in 0..MaxQty /\ 0 \in 0..MaxAttempts /\ 0 \in Nat
BY ConstantsAssumption

\* The variables of a session have their types after it has ended.
LEMMA NoTransactionType ==
  ASSUME NoTransaction
  PROVE  /\ touched' = {} /\ logLock' = {}
         /\ work' \in [Orders -> Row \cup {NoRow}]
         /\ txPlaced' \in [Orders -> Nat] /\ due' \in [Orders -> 0..MaxQty]
         /\ cur' = NoOrder /\ qty' \in 0..MaxQty /\ attempt' \in 0..MaxAttempts
BY Zero DEF NoTransaction

LEMMA TypeInit == Init => TypeOK
<1> SUFFICES ASSUME Init PROVE TypeOK
  OBVIOUS
<1>1. /\ table \in [Orders -> Row \cup {NoRow}] /\ work \in [Orders -> Row \cup {NoRow}]
      /\ edit \in [Orders -> EditSession \cup {NoEdit}]
  BY DEF Init
<1>2. /\ logs \in [Orders -> Nat] /\ placed \in [Orders -> Nat] /\ txPlaced \in [Orders -> Nat]
      /\ due \in [Orders -> 0..MaxQty] /\ asked \in [Orders -> 0..MaxQty]
  BY Zero DEF Init
<1>3. QED
  BY <1>1, <1>2, Zero DEF Init, TypeOK, Phases

LEMMA TypeStep ==
  ASSUME TypeOK, SessionOK, LocksOK, [Next]_vars
  PROVE  TypeOK'
<1> USE ConstantsAssumption
<1>1. ASSUME NEW o \in Orders, SkipOrder(o) PROVE TypeOK'
  BY <1>1 DEF TypeOK, SkipOrder, Turn, DoneWith, Logs, rowVars, subVars, exchangeVars, ghostVars
<1>2. ASSUME NEW o \in Orders, KeepWatching(o) PROVE TypeOK'
  BY <1>2 DEF TypeOK, KeepWatching, Turn, DoneWith, Logs, rowVars, subVars, exchangeVars, ghostVars
<1>3. ASSUME NEW o \in Orders, BeginRecoveryCancel(o) PROVE TypeOK'
  BY <1>3 DEF TypeOK, BeginRecoveryCancel, Turn, DoneWith, Logs, Phases, rowVars, exchangeVars, ghostVars
<1>4. ASSUME NEW o \in Orders, Track(o) PROVE TypeOK'
  <2>1. [table[o] EXCEPT !.status = "Monitoring"] \in Row
    BY <1>4, StatusRow DEF TypeOK, Track, Evaluated, LiveStatus, Active
  <2>2. QED
    BY <1>4, <2>1 DEF TypeOK, Track, Turn, DoneWith, Logs, Stage, rowVars, subVars, exchangeVars, ghostVars
<1>5. ASSUME NEW o \in Orders, Expire(o) PROVE TypeOK'
  BY <1>5 DEF TypeOK, Expire, Turn, DoneWith, Logs, Stage, rowVars, subVars, exchangeVars, ghostVars
<1>6. ASSUME NEW o \in Orders, ClaimRefused(o) PROVE TypeOK'
  BY <1>6 DEF TypeOK, ClaimRefused, Turn, DoneWith, Logs, Stage, rowVars, subVars, exchangeVars, ghostVars
<1>7. ASSUME NEW o \in Orders, ScanHangs(o) PROVE TypeOK'
  BY <1>7 DEF TypeOK, ScanHangs, rowVars, txVars, subVars, exchangeVars, ghostVars
<1>8. ASSUME NEW o \in Orders, NEW q \in Quantity, Claim(o, q) PROVE TypeOK'
  <2>1. [table[o] EXCEPT !.status = "Executing"] \in Row
    BY <1>8, StatusRow DEF TypeOK, Claim, Evaluated, LiveStatus
  <2>2. QED
    BY <1>8, <2>1 DEF TypeOK, Claim, Logs, Stage, Phases, Quantity, rowVars, exchangeVars, ghostVars
<1>9. CASE BlockSubmission
  <2>1. cur \in Orders
    BY <1>9 DEF TypeOK, SessionOK, AtBroker, BlockSubmission, Submitting
  <2>2. QED
    BY <1>9, <2>1, Zero DEF TypeOK, BlockSubmission, Resume, Phases, rowVars, txVars, exchangeVars, ghostVars
<1>10. CASE ReleaseClaim
  <2>1. cur \in Orders /\ work[cur] \in Row
    BY <1>10 DEF TypeOK, SessionOK, AtBroker, ReleaseClaim, Submitting
  <2>2. [work[cur] EXCEPT !.status = "Monitoring"] \in Row
    BY <2>1, StatusRow DEF LiveStatus, Active
  <2>3. QED
    BY <1>10, <2>1, <2>2 DEF TypeOK, ReleaseClaim, Resume, Stage, Phases, rowVars, exchangeVars, ghostVars
<1>11. CASE LotRuleBlocks \/ PostRefused
  <2>1. cur \in Orders
    BY <1>11 DEF TypeOK, SessionOK, AtBroker, LotRuleBlocks, PostRefused, Submitting, Posting
  <2>2. QED
    BY <1>11, <2>1 DEF TypeOK, LotRuleBlocks, PostRefused, Resume, Stage, Phases, rowVars, exchangeVars, ghostVars
<1>12. CASE BeginPost \/ AwaitHangs \/ BeginScan \/ Start
  BY <1>12 DEF TypeOK, BeginPost, AwaitHangs, BeginScan, Start, Phases, rowVars, txVars, subVars, exchangeVars, ghostVars
<1>13. CASE PostAccepted \/ PostAcceptedUnanswered
  <2>1. cur \in Orders
    BY <1>13 DEF TypeOK, SessionOK, AtBroker, PostAccepted, PostAcceptedUnanswered, Posting
  <2>2. QED
    BY <1>13, <2>1 DEF TypeOK, PostAccepted, PostAcceptedUnanswered, Posting, Accept, Phases, rowVars, subVars, ghostVars
<1>14. CASE PostRetried
  BY <1>14 DEF TypeOK, PostRetried, Posting, rowVars, txVars, exchangeVars, ghostVars
<1>15. CASE RecordSlippageBlock \/ RecordExecuted
  <2>1. cur \in Orders
    BY <1>15 DEF TypeOK, SessionOK, AtBroker, RecordSlippageBlock, RecordExecuted, Answered
  <2>2. book' \subseteq Orders
    BY <1>15 DEF TypeOK, RecordSlippageBlock, RecordExecuted, exchangeVars
  <2>3. QED
    BY <1>15, <2>1, <2>2 DEF TypeOK, RecordSlippageBlock, RecordExecuted, Resume, Stage, Phases, rowVars, exchangeVars, ghostVars
<1>16. CASE RecordWatch \/ RecordPartial
  <2>1. cur \in Orders /\ work[cur] \in Row /\ OpenIds(cur) \subseteq Orders /\ qty \in 0..MaxQty
        /\ due[cur] \in 0..MaxQty
    BY <1>16 DEF TypeOK, SessionOK, AtBroker, RecordWatch, RecordPartial, Answered, OpenIds
  <2>2. Left \in 0..MaxQty
    BY <2>1, LeftBound DEF Left, Row
  <2>3. \A w \in SUBSET Orders :  \* the row of a watch, whatever is open
          [work[cur] EXCEPT !.status = "WatchingRecovery", !.remaining = 0,
                            !.executed = TRUE, !.watch = w] \in Row
    BY <2>1, Zero DEF Row, LiveStatus, Active
  <2>4. [work[cur] EXCEPT !.status = "Partially executed", !.remaining = Left,
                          !.executed = TRUE] \in Row
    BY <2>1, <2>2 DEF Row, LiveStatus, Active
  <2>5. \E r \in Row : Stage(cur, r)
    BY <1>16, <2>1, <2>3, <2>4 DEF RecordWatch, RecordPartial
  <2>6. QED
    BY <1>16, <2>1, <2>5 DEF TypeOK, RecordWatch, RecordPartial, Resume, Stage, Phases, rowVars, exchangeVars, ghostVars
<1>17. CASE FinishRecoveryCancel
  <2>1. cur \in Orders
    BY <1>17 DEF SessionOK, FinishRecoveryCancel
  <2>2. CASE table[cur] # NoRow
    BY <1>17, <2>1, <2>2 DEF TypeOK, FinishRecoveryCancel, Resume, Stage, Phases, rowVars, ghostVars
  <2>3. CASE table[cur] = NoRow
    BY <1>17, <2>3 DEF TypeOK, FinishRecoveryCancel, Rollback, NoTransaction, Phases, rowVars, exchangeVars
  <2>4. QED
    BY <2>2, <2>3
<1>18. CASE Commit
  BY <1>18 DEF TypeOK, Commit, View, Archive, NoTransaction, Phases, exchangeVars, ghostVars
<1>19. CASE CycleFails \/ Stop \/ Crash
  <2>1. NoTransaction /\ phase' \in Phases /\ blocked' \in BOOLEAN
        /\ UNCHANGED <<rowVars, exchangeVars, asked, unanswered, staleEdits>>
        /\ lost' \subseteq Orders
    BY <1>19 DEF TypeOK, CycleFails, Stop, Crash, Rollback, Phases
  <2>2. edit' \in [Orders -> EditSession \cup {NoEdit}]
    BY <1>19 DEF TypeOK, CycleFails, Stop, Crash
  <2>3. QED
    BY <2>1, <2>2, NoTransactionType DEF TypeOK, rowVars, exchangeVars
<1>20. CASE Load
  BY <1>20 DEF TypeOK, Load, Eligible, Row, Quantity, Phases, rowVars, txVars, subVars, exchangeVars, ghostVars
<1>21. ASSUME NEW o \in Orders, NEW q \in Quantity, Create(o, q) PROVE TypeOK'
  <2>1. QED
    BY <1>21, PendingRow DEF TypeOK, Create, Quantity, txVars, subVars, exchangeVars
<1>22. ASSUME NEW S \in SUBSET Orders, Delete(S) \/ RemovalHangs(S) PROVE TypeOK'
  <2>1. CASE Delete(S)
    <3>1. table' \in [Orders -> Row \cup {NoRow}] /\ logs' \in [Orders -> Nat]
      BY <2>1 DEF TypeOK, Delete, Archive
    <3>2. QED
      BY <2>1, <3>1 DEF TypeOK, Delete, txVars, subVars, exchangeVars, ghostVars
  <2>2. CASE RemovalHangs(S)
    BY <2>2 DEF TypeOK, RemovalHangs, rowVars, txVars, subVars, exchangeVars, ghostVars
  <2>3. QED
    BY <1>22, <2>1, <2>2
<1>23. CASE Clear
  BY <1>23 DEF TypeOK, Clear, Present, txVars, subVars, exchangeVars, ghostVars
<1>24. ASSUME NEW o \in Orders, NEW q \in Quantity, EditBegin(o, q) PROVE TypeOK'
  <2>1. [loaded |-> table[o], qty |-> q, flushed |-> FALSE] \in EditSession
    BY <1>24 DEF TypeOK, EditBegin, EditSession
  <2>2. QED
    BY <1>24, <2>1 DEF TypeOK, EditBegin, rowVars, txVars, subVars, exchangeVars, ghostVars
<1>25. ASSUME NEW o \in Orders, EditSave(o) \/ EditCommit(o) PROVE TypeOK'
  <2>1. Merged(o) \in Row
    BY <1>25, MergedRow DEF EditSave, EditCommit, LocksOK, EditLocked
  <2>2. SaveEdit(o) /\ UNCHANGED <<blocked, phase, due, txVars, subVars, exchangeVars>>
    BY <1>25 DEF EditSave, EditCommit
  <2>3. Merged(o).remaining \in 0..MaxQty
    BY <2>1 DEF Row
  <2>4. QED
    BY <2>1, <2>2, <2>3 DEF TypeOK, SaveEdit, txVars, subVars, exchangeVars
<1>26. ASSUME NEW o \in Orders, EditFlush(o) PROVE TypeOK'
  <2>1. [edit[o] EXCEPT !.flushed = TRUE] \in EditSession
    <3>1. edit[o] \in EditSession
      BY <1>26 DEF TypeOK, EditFlush
    <3>2. QED
      BY <3>1 DEF EditSession
  <2>2. QED
    BY <1>26, <2>1 DEF TypeOK, EditFlush, rowVars, txVars, subVars, exchangeVars, ghostVars
<1>27. ASSUME NEW o \in Orders, EditAbort(o) \/ EditHangs(o) \/ LeavesBook(o) PROVE TypeOK'
  BY <1>27 DEF TypeOK, EditAbort, EditHangs, LeavesBook, rowVars, txVars, subVars, exchangeVars, ghostVars
<1>28. CASE UNCHANGED vars
  BY <1>28 DEF TypeOK, vars, rowVars, txVars, subVars, exchangeVars, ghostVars
<1>29. QED
  BY <1>1, <1>2, <1>3, <1>4, <1>5, <1>6, <1>7, <1>8, <1>9, <1>10, <1>11, <1>12, <1>13,
     <1>14, <1>15, <1>16, <1>17, <1>18, <1>19, <1>20, <1>21, <1>22, <1>23, <1>24, <1>25,
     <1>26, <1>27, <1>28
  DEF Next, MonitorStep, ScanStep, SubmitStep, ApiStep, EditStep

-----------------------------------------------------------------------------
(* What the handlers, and the steps of the scan, leave alone.              *)

\* The handlers and the exchange touch no variable of the scan.
LEMMA ApiFrame ==
  ASSUME ApiStep \/ \E o \in Orders : LeavesBook(o)
  PROVE  UNCHANGED <<phase, due, txVars, subVars, placed>>
BY DEF ApiStep, EditStep, LeavesBook, Create, Delete, RemovalHangs, Clear, EditBegin, EditSave,
       EditFlush, EditCommit, EditAbort, EditHangs, exchangeVars

\* Every step is one of a few kinds.
LEMMA StepKinds ==
  ASSUME [Next]_vars
  PROVE  \/ ApiStep \/ \E o \in Orders : LeavesBook(o)
         \/ Start \/ Load \/ BeginScan \/ AwaitHangs \/ Commit \/ FinishRecoveryCancel
         \/ CycleFails \/ Stop \/ Crash
         \/ \E o \in Orders : ScanStep(o)
         \/ SubmitStep
         \/ UNCHANGED vars
BY DEF Next, MonitorStep

\* A session that ends leaves no trace.
LEMMA SessionEnds ==
  ASSUME NoTransaction, phase' \in {"stopped", "asleep"}
  PROVE  SessionOK'
BY DEF NoTransaction, SessionOK, AtBroker

LEMMA SessionStep ==
  ASSUME TypeOK, SessionOK, WatchesOK, [Next]_vars
  PROVE  SessionOK'
<1>1. CASE ApiStep \/ \E o \in Orders : LeavesBook(o)
  BY <1>1, ApiFrame DEF SessionOK, AtBroker, txVars, subVars
<1>2. CASE Start \/ BeginScan \/ AwaitHangs \/ UNCHANGED vars
  BY <1>2 DEF SessionOK, AtBroker, Start, BeginScan, AwaitHangs, vars, txVars, subVars
<1>3. CASE Load
  BY <1>3 DEF SessionOK, AtBroker, Load, txVars, subVars
<1>4. CASE Commit \/ CycleFails \/ Stop \/ Crash
  BY <1>4, SessionEnds DEF Commit, CycleFails, Stop, Crash, Rollback
<1>5. CASE FinishRecoveryCancel
  <2>1. CASE table[cur] # NoRow
    BY <1>5, <2>1, ConstantsAssumption
    DEF FinishRecoveryCancel, Resume, Stage, SessionOK, AtBroker, TypeOK
  <2>2. CASE table[cur] = NoRow
    BY <1>5, <2>2, SessionEnds DEF FinishRecoveryCancel, Rollback
  <2>3. QED
    BY <2>1, <2>2
<1>6. ASSUME NEW o \in Orders, ScanStep(o) PROVE SessionOK'
  <2>1. CASE SkipOrder(o) \/ KeepWatching(o) \/ ScanHangs(o)
    BY <2>1 DEF SkipOrder, KeepWatching, ScanHangs, Turn, DoneWith, SessionOK, AtBroker, TypeOK,
                txVars, subVars
  <2>2. CASE BeginRecoveryCancel(o)
    <3>1. o \in CapitalProtection
      BY <2>2 DEF BeginRecoveryCancel, Watched, WatchesOK, WatchOK
    <3>2. QED
      BY <2>2, <3>1 DEF BeginRecoveryCancel, Turn, DoneWith, SessionOK, AtBroker, TypeOK
  <2>3. CASE Track(o) \/ Expire(o) \/ ClaimRefused(o)
    BY <2>3 DEF Track, Expire, ClaimRefused, Turn, DoneWith, Stage, SessionOK, AtBroker, TypeOK,
                subVars
  <2>4. ASSUME NEW q \in Quantity, Claim(o, q) PROVE SessionOK'
    <3>1. table[o] \in Row /\ NoRow \notin Row
      BY <2>4, ConstantsAssumption DEF Claim, Evaluated, TypeOK
    <3>2. [table[o] EXCEPT !.status = "Executing"] \in Row
      BY <3>1, StatusRow DEF LiveStatus
    <3>3. work'[o] = [table[o] EXCEPT !.status = "Executing"] /\ touched' = touched \cup {o}
      BY <2>4 DEF Claim, Stage, TypeOK
    <3>4. work'[o] # NoRow /\ work'[o].status = "Executing"
      BY <3>1, <3>2, <3>3 DEF Row
    <3>5. QED
      BY <2>4, <3>3, <3>4 DEF Claim, Turn, SessionOK, AtBroker
  <2>5. QED
    BY <1>6, <2>1, <2>2, <2>3, <2>4 DEF ScanStep
<1>7. CASE SubmitStep
  <2>1. CASE BeginPost \/ PostAccepted \/ PostRetried \/ PostAcceptedUnanswered
    BY <1>7, <2>1 DEF BeginPost, PostAccepted, PostRetried, PostAcceptedUnanswered, Accept, Posting,
                      Submitting, SessionOK, AtBroker, txVars, subVars
  <2>2. CASE Resume /\ AtBroker /\ (UNCHANGED <<touched, work>> \/ \E r \in Row \cup {NoRow} : Stage(cur, r))
    BY <2>2 DEF Resume, Stage, SessionOK, AtBroker, TypeOK
  <2>3. CASE BlockSubmission \/ ReleaseClaim \/ LotRuleBlocks \/ PostRefused
             \/ RecordSlippageBlock \/ RecordExecuted \/ RecordWatch \/ RecordPartial
    <3>1. Resume /\ AtBroker /\ \/ UNCHANGED <<touched, work>> 
                                \/ touched' = touched \cup {cur}
      BY <2>3 DEF BlockSubmission, ReleaseClaim, LotRuleBlocks, PostRefused, RecordSlippageBlock,
                  RecordExecuted, RecordWatch, RecordPartial, Stage, AtBroker, Submitting, Posting,
                  Answered, txVars
    <3>2. QED
      BY <3>1 DEF Resume, SessionOK, AtBroker, TypeOK
  <2>4. QED
    BY <1>7, <2>1, <2>3 DEF SubmitStep
<1>8. QED
  BY <1>1, <1>2, <1>3, <1>4, <1>5, <1>6, <1>7, StepKinds

LEMMA LocksStep ==
  ASSUME TypeOK, SessionOK, LocksOK, WatchesOK, [Next]_vars
  PROVE  LocksOK'
<1> USE DEF EditLocked
<1>1. CASE ApiStep \/ \E o \in Orders : LeavesBook(o)
  <2>1. UNCHANGED <<touched, txPlaced, placed>>
    BY <1>1, ApiFrame DEF txVars
  <2>2. ASSUME NEW o \in Orders, NEW q \in Quantity, Create(o, q) PROVE LocksOK'
    <3>1. [status |-> "pending", qty |-> q, remaining |-> q, executed |-> FALSE, watch |-> {}] # NoRow
      BY PendingRow, ConstantsAssumption
    <3>2. \A p \in Orders : table[p] # NoRow => table'[p] # NoRow
      BY <2>2, <3>1 DEF Create, TypeOK
    <3>3. QED
      BY <2>1, <2>2, <3>2 DEF Create, LocksOK, TypeOK
  <2>3. ASSUME NEW S \in SUBSET Orders, Delete(S) \/ RemovalHangs(S) PROVE LocksOK'
    BY <2>1, <2>3 DEF Delete, RemovalHangs, RowLocked, LocksOK, TypeOK, rowVars
  <2>4. CASE Clear
    BY <2>1, <2>4 DEF Clear, RowLocked, LocksOK, TypeOK
  <2>5. ASSUME NEW o \in Orders, NEW q \in Quantity, EditBegin(o, q) PROVE LocksOK'
    <3>1. ~EditLocked(o)'
      BY <2>5, ConstantsAssumption DEF EditBegin, TypeOK
    <3>2. \A p \in Orders \ {o} : edit'[p] = edit[p]
      BY <2>5 DEF EditBegin, TypeOK
    <3>3. QED
      BY <2>1, <2>5, <3>1, <3>2 DEF EditBegin, LocksOK, TypeOK, rowVars
  <2>6. ASSUME NEW o \in Orders, EditSave(o) \/ EditCommit(o) PROVE LocksOK'
    <3>1. Merged(o) # NoRow
      BY <2>6, MergedRow, ConstantsAssumption DEF EditSave, EditCommit, LocksOK
    <3>2. /\ table' = [table EXCEPT ![o] = Merged(o)] /\ edit' = [edit EXCEPT ![o] = NoEdit]
      BY <2>6 DEF EditSave, EditCommit, SaveEdit
    <3>3. QED
      BY <2>1, <3>1, <3>2 DEF LocksOK, TypeOK
  <2>7. ASSUME NEW o \in Orders, EditFlush(o) \/ EditAbort(o) \/ EditHangs(o) PROVE LocksOK'
    <3>1. table' = table
      BY <2>7 DEF EditFlush, EditAbort, EditHangs, rowVars
    <3>2. \A p \in Orders \ {o} : edit'[p] = edit[p]
      BY <2>7 DEF EditFlush, EditAbort, EditHangs, TypeOK
    <3>3. EditLocked(o)' => EditLocked(o) \/ (o \notin touched /\ table[o] # NoRow /\ o \in RuleBased)
      BY <2>7 DEF EditFlush, EditAbort, EditHangs, TypeOK
    <3>4. QED
      BY <2>1, <3>1, <3>2, <3>3 DEF LocksOK, TypeOK
  <2>8. ASSUME NEW o \in Orders, LeavesBook(o) PROVE LocksOK'
    BY <2>1, <2>8 DEF LeavesBook, LocksOK, rowVars
  <2>9. QED
    BY <1>1, <2>2, <2>3, <2>4, <2>5, <2>6, <2>7, <2>8 DEF ApiStep, EditStep
<1>2. CASE Start \/ BeginScan \/ AwaitHangs \/ Load \/ UNCHANGED vars
  BY <1>2 DEF LocksOK, Start, BeginScan, AwaitHangs, Load, vars, rowVars, txVars, exchangeVars
<1>3. ASSUME NoTransaction, placed' = placed, UNCHANGED edit \/ edit' = [o \in Orders |-> NoEdit],
             \A o \in Orders \ touched : table'[o] = table[o]
      PROVE  LocksOK'
  BY <1>3 DEF NoTransaction, LocksOK, TypeOK
<1>4. CASE Commit
  BY <1>3, <1>4 DEF Commit, View, exchangeVars
<1>5. CASE CycleFails \/ Stop \/ Crash
  BY <1>3, <1>5 DEF CycleFails, Stop, Crash, Rollback, rowVars, exchangeVars
<1>6. ASSUME UNCHANGED <<table, edit, txPlaced, placed>>, NEW o \in Orders,
             touched' \subseteq touched \cup {o}, touched \subseteq touched',
             table[o] # NoRow, ~EditLocked(o)
      PROVE  LocksOK'
  BY <1>6 DEF LocksOK, TypeOK
<1>7. CASE FinishRecoveryCancel
  <2>1. CASE table[cur] # NoRow
    <3>1. cur \in Orders /\ ~EditLocked(cur)
      BY <1>7, ConstantsAssumption DEF FinishRecoveryCancel, SessionOK, LocksOK
    <3>2. QED
      BY <1>6, <1>7, <2>1, <3>1 DEF FinishRecoveryCancel, Stage, rowVars
  <2>2. CASE table[cur] = NoRow
    BY <1>3, <1>7, <2>2 DEF FinishRecoveryCancel, Rollback, rowVars, exchangeVars
  <2>3. QED
    BY <2>1, <2>2
<1>8. ASSUME NEW o \in Orders, ScanStep(o) PROVE LocksOK'
  <2>1. CASE SkipOrder(o) \/ KeepWatching(o) \/ BeginRecoveryCancel(o) \/ ScanHangs(o)
    BY <2>1 DEF SkipOrder, KeepWatching, BeginRecoveryCancel, ScanHangs, LocksOK, rowVars, txVars,
                exchangeVars
  <2>2. CASE Track(o) \/ Expire(o) \/ ClaimRefused(o) \/ \E q \in Quantity : Claim(o, q)
    BY <1>6, <2>2 DEF Track, Expire, ClaimRefused, Claim, Evaluated, Stage, rowVars, exchangeVars
  <2>3. QED
    BY <1>8, <2>1, <2>2 DEF ScanStep
<1>9. CASE SubmitStep
  <2>1. AtBroker /\ cur \in Orders /\ cur \in touched
    BY <1>9 DEF SubmitStep, BlockSubmission, ReleaseClaim, LotRuleBlocks, BeginPost, PostAccepted,
                PostRefused, PostRetried, PostAcceptedUnanswered, RecordSlippageBlock,
                RecordExecuted, RecordWatch, RecordPartial, Submitting, Posting, Answered, AtBroker,
                SessionOK, TypeOK
  <2>2. UNCHANGED <<table, edit>> /\ touched' = touched
    BY <1>9, <2>1 DEF SubmitStep, BlockSubmission, ReleaseClaim, LotRuleBlocks, BeginPost,
                PostAccepted, PostRefused, PostRetried, PostAcceptedUnanswered, RecordSlippageBlock,
                RecordExecuted, RecordWatch, RecordPartial, Stage, rowVars, txVars
  <2>3. CASE Accept
    BY <2>1, <2>2, <2>3 DEF Accept, LocksOK, TypeOK
  <2>4. CASE UNCHANGED <<placed, txPlaced>>
    BY <2>2, <2>4 DEF LocksOK
  <2>5. Accept \/ UNCHANGED <<placed, txPlaced>>
    BY <1>9 DEF SubmitStep, BlockSubmission, ReleaseClaim, LotRuleBlocks, BeginPost, PostAccepted,
                PostRefused, PostRetried, PostAcceptedUnanswered, RecordSlippageBlock,
                RecordExecuted, RecordWatch, RecordPartial, txVars, exchangeVars
  <2>6. QED
    BY <2>3, <2>4, <2>5
<1>10. QED
  BY <1>1, <1>2, <1>4, <1>5, <1>7, <1>8, <1>9, StepKinds

\* The steps of a submission work on a claimed row, and end or go on.
LEMMA SubmitFrame ==
  ASSUME TypeOK, SessionOK, SubmitStep
  PROVE  /\ AtBroker /\ cur \in Orders /\ cur \in touched /\ work[cur] \in Row /\ qty \in Quantity
         /\ UNCHANGED <<rowVars, edit, asked, lost, staleEdits>> /\ touched' = touched
         /\ unanswered \subseteq unanswered'
<1>1. AtBroker
  BY DEF SubmitStep, BlockSubmission, ReleaseClaim, LotRuleBlocks, BeginPost, PostAccepted,
         PostRefused, PostRetried, PostAcceptedUnanswered, RecordSlippageBlock, RecordExecuted,
         RecordWatch, RecordPartial, Submitting, Posting, Answered, AtBroker
<1>2. cur \in Orders /\ cur \in touched /\ work[cur] \in Row /\ qty \in Quantity
  BY <1>1 DEF SessionOK, TypeOK
<1>3. QED
  BY <1>1, <1>2
  DEF SubmitStep, BlockSubmission, ReleaseClaim, LotRuleBlocks, BeginPost, PostAccepted,
      PostRefused, PostRetried, PostAcceptedUnanswered, RecordSlippageBlock, RecordExecuted,
      RecordWatch, RecordPartial, Stage, txVars, ghostVars

LEMMA WatchesStep ==
  ASSUME TypeOK, SessionOK, LocksOK, WatchesOK, [Next]_vars
  PROVE  WatchesOK'
<1>1. ASSUME UNCHANGED table, NEW o \in Orders, NEW r, Stage(o, r), WatchOK(r, o) PROVE WatchesOK'
  BY <1>1 DEF WatchesOK, Stage, TypeOK
<1>2. ASSUME UNCHANGED table, NoTransaction PROVE WatchesOK'
  BY <1>2 DEF WatchesOK, WatchOK, NoTransaction
<1>3. CASE ApiStep \/ \E o \in Orders : LeavesBook(o)
  <2>1. work' = work
    BY <1>3, ApiFrame DEF txVars
  <2>2. ASSUME NEW o \in Orders, NEW q \in Quantity, Create(o, q) PROVE WatchesOK'
    BY <2>1, <2>2 DEF Create, WatchesOK, WatchOK, TypeOK
  <2>3. CASE Clear \/ \E S \in SUBSET Orders : Delete(S)
    BY <2>1, <2>3 DEF Clear, Delete, WatchesOK, WatchOK
  <2>4. ASSUME NEW o \in Orders, EditSave(o) \/ EditCommit(o) PROVE WatchesOK'
    <3>1. table[o] \in Row /\ table[o] # NoRow
      BY <2>4, ConstantsAssumption DEF EditSave, EditCommit, LocksOK, TypeOK
    <3>2. /\ Merged(o).executed = table[o].executed
          /\ Merged(o).status \in {"pending", table[o].status}
      BY <3>1 DEF Merged, Row
    <3>3. WatchOK(Merged(o), o)
      BY <3>1, <3>2 DEF WatchesOK, WatchOK
    <3>4. table' = [table EXCEPT ![o] = Merged(o)]
      BY <2>4 DEF EditSave, EditCommit, SaveEdit
    <3>5. QED
      BY <2>1, <3>3, <3>4 DEF WatchesOK, TypeOK
  <2>5. CASE UNCHANGED table
    BY <2>1, <2>5 DEF WatchesOK
  <2>6. QED
    BY <1>3, <2>2, <2>3, <2>4, <2>5
    DEF ApiStep, EditStep, RemovalHangs, EditBegin, EditFlush, EditAbort, EditHangs, LeavesBook, rowVars
<1>4. CASE Start \/ Load \/ BeginScan \/ AwaitHangs \/ UNCHANGED vars
  BY <1>4 DEF Start, Load, BeginScan, AwaitHangs, vars, rowVars, txVars, WatchesOK
<1>5. CASE Commit
  BY <1>5 DEF Commit, View, NoTransaction, WatchesOK, WatchOK
<1>6. CASE FinishRecoveryCancel
  <2>1. CASE table[cur] # NoRow
    <3>1. cur \in Orders
      BY <1>6, ConstantsAssumption DEF FinishRecoveryCancel, SessionOK
    <3>2. QED
      BY <1>1, <1>6, <2>1, <3>1 DEF FinishRecoveryCancel, WatchOK, rowVars
  <2>2. CASE table[cur] = NoRow
    BY <1>2, <1>6, <2>2 DEF FinishRecoveryCancel, Rollback, rowVars
  <2>3. QED
    BY <2>1, <2>2
<1>7. CASE CycleFails \/ Stop \/ Crash
  BY <1>2, <1>7 DEF CycleFails, Stop, Crash, Rollback, rowVars
<1>8. ASSUME NEW o \in Orders, ScanStep(o) PROVE WatchesOK'
  <2>1. CASE SkipOrder(o) \/ KeepWatching(o) \/ BeginRecoveryCancel(o) \/ ScanHangs(o)
    BY <2>1 DEF SkipOrder, KeepWatching, BeginRecoveryCancel, ScanHangs, rowVars, txVars, WatchesOK
  <2>2. CASE Track(o) \/ Expire(o) \/ ClaimRefused(o) \/ \E q \in Quantity : Claim(o, q)
    <3>1. table[o] \in Row /\ table[o].status # "WatchingRecovery" /\ UNCHANGED table
      BY <2>2, ConstantsAssumption DEF Track, Expire, ClaimRefused, Claim, Evaluated, TypeOK, rowVars
    <3>2. \A x \in LiveStatus \ {"WatchingRecovery"} : WatchOK([table[o] EXCEPT !.status = x], o)
      BY <3>1 DEF WatchOK, Row
    <3>3. WatchOK(NoRow, o) /\ WatchOK(table[o], o)
      BY <3>1 DEF WatchOK, WatchesOK
    <3>4. QED
      BY <1>1, <2>2, <3>1, <3>2, <3>3 DEF Track, Expire, ClaimRefused, Claim, LiveStatus, Active
  <2>3. QED
    BY <1>8, <2>1, <2>2 DEF ScanStep
<1>9. CASE SubmitStep
  <2>1. cur \in Orders /\ work[cur] \in Row /\ UNCHANGED table
    BY <1>9, SubmitFrame DEF rowVars
  <2>2. CASE UNCHANGED work
    BY <2>1, <2>2 DEF WatchesOK
  <2>3. CASE Stage(cur, NoRow)
    BY <1>1, <2>1, <2>3 DEF WatchOK
  <2>4. CASE ReleaseClaim
    <3>1. WatchOK([work[cur] EXCEPT !.status = "Monitoring"], cur)
      BY <2>1 DEF WatchOK, Row
    <3>2. QED
      BY <1>1, <2>1, <2>4, <3>1 DEF ReleaseClaim
  <2>5. CASE RecordWatch
    <3>1. cur \in CapitalProtection
      BY <2>5 DEF RecordWatch, ToWatch
    <3>2. WatchOK([work[cur] EXCEPT !.status = "WatchingRecovery", !.remaining = 0,
                                    !.executed = TRUE, !.watch = OpenIds(cur)], cur)
      BY <2>1, <3>1 DEF WatchOK, Row
    <3>3. QED
      BY <1>1, <2>1, <2>5, <3>2 DEF RecordWatch
  <2>6. CASE RecordPartial
    <3>1. WatchOK([work[cur] EXCEPT !.status = "Partially executed", !.remaining = Left,
                                    !.executed = TRUE], cur)
      BY <2>1 DEF WatchOK, Row
    <3>2. QED
      BY <1>1, <2>1, <2>6, <3>1 DEF RecordPartial
  <2>7. QED
    BY <1>9, <2>2, <2>3, <2>4, <2>5, <2>6
    DEF SubmitStep, BlockSubmission, LotRuleBlocks, BeginPost, PostAccepted, PostRefused,
        PostRetried, PostAcceptedUnanswered, RecordSlippageBlock, RecordExecuted, txVars
<1>10. QED
  BY <1>3, <1>4, <1>5, <1>6, <1>7, <1>8, <1>9, StepKinds

LEMMA HistoryStep ==
  ASSUME TypeOK, SessionOK, LocksOK, HistoryOK, [Next]_vars
  PROVE  HistoryOK'
<1>1. ASSUME UNCHANGED rowVars, UNCHANGED placed PROVE HistoryOK'
  BY <1>1 DEF HistoryOK, HistoryOnce, rowVars
<1>2. ASSUME NEW S \in SUBSET Orders, Archive(S), UNCHANGED <<created, cleared, placed>>,
             \A o \in S : table[o] # NoRow /\ table'[o] = NoRow,
             \A o \in Orders \ S : table'[o] = NoRow <=> table[o] = NoRow
      PROVE  HistoryOK'
  BY <1>2 DEF Archive, HistoryOK, HistoryOnce, TypeOK
<1>3. CASE Commit
  <2>1. \A o \in Orders : table'[o] = View(o)
    BY <1>3 DEF Commit
  <2>2. QED
    BY <1>2, <1>3, <2>1 DEF Commit, View, LocksOK, TypeOK, exchangeVars
<1>4. ASSUME NEW o \in Orders, NEW q \in Quantity, Create(o, q) PROVE HistoryOK'
  <2>1. table'[o] # NoRow /\ \A p \in Orders \ {o} : table'[p] = table[p]
    BY <1>4, PendingRow, ConstantsAssumption DEF Create, TypeOK
  <2>2. QED
    BY <1>4, <2>1 DEF Create, HistoryOK, HistoryOnce, TypeOK, exchangeVars
<1>5. ASSUME NEW S \in SUBSET Orders, Delete(S) PROVE HistoryOK'
  BY <1>2, <1>5 DEF Delete, Present, TypeOK, exchangeVars
<1>6. CASE Clear
  BY <1>6 DEF Clear, Present, HistoryOK, HistoryOnce, TypeOK, exchangeVars
<1>7. ASSUME NEW o \in Orders, EditSave(o) \/ EditCommit(o) PROVE HistoryOK'
  <2>1. table[o] # NoRow /\ Merged(o) # NoRow
    BY <1>7, MergedRow, ConstantsAssumption DEF EditSave, EditCommit, LocksOK, EditLocked
  <2>2. table' = [table EXCEPT ![o] = Merged(o)] /\ UNCHANGED <<logs, created, cleared, placed>>
    BY <1>7 DEF EditSave, EditCommit, SaveEdit, exchangeVars
  <2>3. QED
    BY <2>1, <2>2 DEF HistoryOK, HistoryOnce, TypeOK
<1>8. CASE ApiStep \/ \E o \in Orders : LeavesBook(o)
  BY <1>1, <1>4, <1>5, <1>6, <1>7, <1>8
  DEF ApiStep, EditStep, RemovalHangs, EditBegin, EditFlush, EditAbort, EditHangs, LeavesBook, exchangeVars
<1>9. CASE \E o \in Orders : ScanStep(o)
  BY <1>1, <1>9 DEF ScanStep, SkipOrder, KeepWatching, BeginRecoveryCancel, Track, Expire,
                    ClaimRefused, ScanHangs, Claim, exchangeVars
<1>10. CASE SubmitStep
  <2>1. cur \in created /\ UNCHANGED rowVars
    BY <1>10, SubmitFrame DEF LocksOK, HistoryOK
  <2>2. \A o \in Orders \ {cur} : placed'[o] = placed[o]
    BY <1>10 DEF SubmitStep, BlockSubmission, ReleaseClaim, LotRuleBlocks, BeginPost, PostAccepted,
                 PostRefused, PostRetried, PostAcceptedUnanswered, RecordSlippageBlock,
                 RecordExecuted, RecordWatch, RecordPartial, Accept, exchangeVars, TypeOK
  <2>3. QED
    BY <2>1, <2>2 DEF HistoryOK, HistoryOnce, rowVars
<1>11. CASE Start \/ Load \/ BeginScan \/ AwaitHangs \/ FinishRecoveryCancel \/ CycleFails \/ Stop
            \/ Crash \/ UNCHANGED vars
  BY <1>1, <1>11 DEF Start, Load, BeginScan, AwaitHangs, FinishRecoveryCancel, CycleFails, Stop,
                     Crash, Rollback, vars, exchangeVars
<1>12. QED
  BY <1>3, <1>8, <1>9, <1>10, <1>11, StepKinds

-----------------------------------------------------------------------------
(* The quantities.                                                         *)

Excused == lost \cup unanswered \cup staleEdits

\* What QuantityOK says of one order.
QuantityOf(o) ==
  /\ placed[o] <= asked[o]
  /\ Agrees(table[o], o, placed[o] - txPlaced[o])
  /\ phase # "hung" /\ o \in touched =>
       Agrees(work[o], o, placed[o] - (IF phase = "answered" /\ cur = o THEN qty ELSE 0))
  /\ AtBroker /\ cur = o => qty <= work[o].remaining

\* An excuse is never withdrawn.
LEMMA ExcusedGrows ==
  ASSUME [Next]_vars
  PROVE  Excused \subseteq Excused'
<1>1. CASE ApiStep \/ \E o \in Orders : LeavesBook(o)
  BY <1>1 DEF ApiStep, EditStep, LeavesBook, Create, Delete, RemovalHangs, Clear, EditBegin,
              EditSave, EditFlush, EditCommit, EditAbort, EditHangs, SaveEdit, ghostVars, Excused
<1>2. CASE Start \/ Load \/ BeginScan \/ AwaitHangs \/ FinishRecoveryCancel \/ Commit \/ CycleFails
           \/ Stop \/ Crash \/ UNCHANGED vars
  BY <1>2 DEF Start, Load, BeginScan, AwaitHangs, FinishRecoveryCancel, Commit, CycleFails, Stop,
              Crash, Rollback, ghostVars, vars, Excused
<1>3. CASE \E o \in Orders : ScanStep(o)
  BY <1>3 DEF ScanStep, SkipOrder, KeepWatching, BeginRecoveryCancel, Track, Expire, ClaimRefused,
              ScanHangs, Claim, ghostVars, Excused
<1>4. CASE SubmitStep
  BY <1>4 DEF SubmitStep, BlockSubmission, ReleaseClaim, LotRuleBlocks, BeginPost, PostAccepted,
              PostRefused, PostRetried, PostAcceptedUnanswered, RecordSlippageBlock,
              RecordExecuted, RecordWatch, RecordPartial, ghostVars, Excused
<1>5. QED
  BY <1>1, <1>2, <1>3, <1>4, StepKinds

\* The end of a session, whether it commits (S: the rows it wrote) or not (S empty).
LEMMA QuantityAtEnd ==
  ASSUME TypeOK, LocksOK, NEW p \in Orders, QuantityOf(p), NoTransaction,
         phase' \in {"stopped", "asleep"}, UNCHANGED <<placed, asked>>,
         \/ table'[p] = table[p] /\ txPlaced[p] = 0
         \/ phase = "scanning" /\ p \in touched /\ table'[p] = work[p]
  PROVE  QuantityOf(p)'
<1>1. p \notin touched' /\ txPlaced'[p] = 0 /\ ~AtBroker'
  BY DEF NoTransaction, AtBroker
<1>2. placed[p] \in Nat /\ txPlaced[p] \in Nat
  BY DEF TypeOK
<1>3. Agrees(table'[p], p, placed[p])
  <2>1. CASE table'[p] = table[p] /\ txPlaced[p] = 0
    BY <2>1, <1>2 DEF QuantityOf
  <2>2. CASE phase = "scanning" /\ p \in touched /\ table'[p] = work[p]
    BY <2>2, <1>2 DEF QuantityOf
  <2>3. QED
    BY <2>1, <2>2
<1>4. QED
  BY <1>1, <1>2, <1>3 DEF QuantityOf, Agrees

LEMMA QuantityStep ==
  ASSUME TypeOK, SessionOK, LocksOK, WatchesOK, HistoryOK, QuantityOK, [Next]_vars
  PROVE  QuantityOK'
<1> SUFFICES ASSUME NEW p \in Orders, p \notin RuleBased, p \notin Excused'
             PROVE  QuantityOf(p)'
  BY DEF QuantityOK, QuantityOf, Excused
<1>1. p \notin Excused /\ QuantityOf(p)
  BY ExcusedGrows DEF QuantityOK, QuantityOf, Excused
<1>2. /\ placed[p] \in Nat /\ txPlaced[p] \in Nat /\ asked[p] \in 0..MaxQty
      /\ table[p] \in Row \cup {NoRow} /\ work[p] \in Row \cup {NoRow} /\ NoRow \notin Row
      /\ qty \in Nat /\ txPlaced[p] <= placed[p]
  BY ConstantsAssumption DEF TypeOK, LocksOK
<1>3. CASE ApiStep \/ \E o \in Orders : LeavesBook(o)
  <2>1. UNCHANGED <<phase, cur, qty, touched, work, txPlaced, placed>>
    BY <1>3, ApiFrame DEF txVars, subVars
  <2>2. ASSUME asked'[p] = asked[p], table'[p] = table[p] \/ table'[p] = NoRow PROVE QuantityOf(p)'
    BY <1>1, <2>1, <2>2 DEF QuantityOf, Agrees, AtBroker
  <2>3. ASSUME NEW o \in Orders, NEW q \in Quantity, Create(o, q) PROVE QuantityOf(p)'
    <3>1. CASE o # p
      BY <2>2, <2>3, <3>1 DEF Create, TypeOK
    <3>2. CASE o = p
      <4>1. table[p] = NoRow /\ p \notin touched /\ placed[p] = 0 /\ txPlaced[p] = 0
        BY <1>2, <2>3, <3>2 DEF Create, HistoryOK, LocksOK
      <4>2. /\ asked'[p] = q
            /\ table'[p] = [status |-> "pending", qty |-> q, remaining |-> q,
                            executed |-> FALSE, watch |-> {}]
        BY <2>3, <3>2 DEF Create, TypeOK
      <4>3. Agrees(table[p], p, 0)'
        BY <4>2 DEF Agrees, Quantity
      <4>4. cur # p \/ ~AtBroker
        BY <4>1 DEF SessionOK
      <4>5. /\ (placed[p] - txPlaced[p])' = 0 /\ placed'[p] <= asked'[p]
            /\ UNCHANGED AtBroker
        BY <2>1, <4>1, <4>2 DEF Quantity, AtBroker
      <4>6. QED
        BY <2>1, <4>1, <4>3, <4>4, <4>5 DEF QuantityOf
    <3>3. QED
      BY <3>1, <3>2
  <2>4. ASSUME NEW o \in Orders, EditSave(o) \/ EditCommit(o) PROVE QuantityOf(p)'
    <3>1. SaveEdit(o) /\ o \notin touched /\ table[o] # NoRow /\ edit[o] # NoEdit
      BY <2>4 DEF EditSave, EditCommit, LocksOK, EditLocked
    <3>2. CASE o # p
      BY <2>2, <3>1, <3>2 DEF SaveEdit, TypeOK
    <3>3. CASE o = p
      <4>1. ~table[p].executed
        BY <3>1, <3>3 DEF SaveEdit, Excused
      <4>2. txPlaced[p] = 0 /\ placed[p] = 0
        BY <1>1, <1>2, <3>1, <3>3, <4>1 DEF LocksOK, QuantityOf, Agrees
      <4>3. table'[p] = Merged(p) /\ asked'[p] = Merged(p).remaining
        BY <3>1, <3>3, <4>1 DEF SaveEdit, TypeOK
      <4>4. Merged(p) \in Row
        BY <3>1, <3>3, MergedRow
      <4>5. Merged(p).remaining \in Nat /\ Merged(p).remaining > 0
        <5>1. table[p].remaining \in Nat /\ table[p].remaining > 0
          BY <1>1, <1>2, <3>1, <3>3, <4>1 DEF QuantityOf, Agrees, WatchesOK, WatchOK, Row
        <5>2. edit[p].qty \in Quantity
          BY <3>1, <3>3 DEF TypeOK, EditSession
        <5>3. Merged(p).remaining \in {edit[p].qty, table[p].remaining}
          BY <1>2, <3>1, <3>3 DEF Merged, Row
        <5>4. QED
          BY <5>1, <5>2, <5>3 DEF Quantity
      <4>6. QED
        BY <2>1, <3>1, <3>3, <4>2, <4>3, <4>5, <1>1 DEF QuantityOf, Agrees, AtBroker, SessionOK
    <3>4. QED
      BY <3>2, <3>3
  <2>5. ASSUME NEW S \in SUBSET Orders, Delete(S) PROVE QuantityOf(p)'
    BY <2>2, <2>5 DEF Delete, ghostVars
  <2>6. CASE Clear
    BY <2>2, <2>6 DEF Clear, ghostVars
  <2>7. QED
    BY <1>3, <2>2, <2>3, <2>4, <2>5, <2>6
    DEF ApiStep, EditStep, RemovalHangs, EditBegin, EditFlush, EditAbort, EditHangs, LeavesBook,
        rowVars, ghostVars
<1>4. CASE Start \/ Load \/ BeginScan \/ AwaitHangs \/ UNCHANGED vars
  BY <1>1, <1>4 DEF Start, Load, BeginScan, AwaitHangs, vars, rowVars, txVars, subVars, exchangeVars,
                    ghostVars, QuantityOf, Agrees, AtBroker
<1>5. CASE Commit
  <2>1. table'[p] = View(p)
    BY <1>5 DEF Commit
  <2>2. p \notin touched => txPlaced[p] = 0
    BY DEF LocksOK
  <2>3. QED
    BY <1>1, <1>5, <2>1, <2>2, QuantityAtEnd DEF Commit, View, exchangeVars, ghostVars
<1>6. ASSUME Rollback, phase' \in {"stopped", "asleep"} PROVE QuantityOf(p)'
  <2>1. txPlaced[p] = 0
    BY <1>2, <1>6 DEF Rollback, Excused
  <2>2. QED
    BY <1>1, <1>6, <2>1, QuantityAtEnd DEF Rollback, rowVars, exchangeVars
<1>7. CASE CycleFails \/ Stop \/ Crash
  BY <1>6, <1>7 DEF CycleFails, Stop, Crash
<1>8. CASE FinishRecoveryCancel
  <2>1. CASE table[cur] # NoRow
    <3>1. cur \in Orders /\ Stage(cur, NoRow) /\ Resume /\ phase = "recovering"
          /\ UNCHANGED <<table, txPlaced, placed, asked>>
      BY <1>8, <2>1, ConstantsAssumption DEF FinishRecoveryCancel, SessionOK, rowVars, ghostVars
    <3>2. work'[cur] = NoRow /\ \A o \in Orders \ {cur} : work'[o] = work[o] /\ (o \in touched' => o \in touched)
      BY <3>1 DEF Stage, TypeOK
    <3>3. QED
      BY <1>1, <1>2, <3>1, <3>2 DEF QuantityOf, Agrees, AtBroker, Resume
  <2>2. CASE table[cur] = NoRow
    BY <1>6, <1>8, <2>2 DEF FinishRecoveryCancel
  <2>3. QED
    BY <2>1, <2>2
<1>9. ASSUME NEW o \in Orders, ScanStep(o) PROVE QuantityOf(p)'
  <2>1. UNCHANGED <<table, txPlaced, placed, asked>> /\ phase \notin {"hung", "answered"}
    BY <1>9 DEF ScanStep, SkipOrder, KeepWatching, BeginRecoveryCancel, Track, Expire,
                ClaimRefused, ScanHangs, Claim, Turn, rowVars, txVars, exchangeVars, ghostVars
  <2>2. CASE SkipOrder(o) \/ KeepWatching(o) \/ BeginRecoveryCancel(o) \/ ScanHangs(o)
    BY <1>1, <2>1, <2>2 DEF SkipOrder, KeepWatching, BeginRecoveryCancel, ScanHangs, Turn,
                QuantityOf, Agrees, AtBroker, txVars, subVars
  <2>3. CASE Track(o) \/ Expire(o) \/ ClaimRefused(o) \/ \E q \in Quantity : Claim(o, q)
    <3>1. /\ table[o] \in Row /\ table[o].status # "WatchingRecovery"
          /\ phase = "scanning" /\ due[o] # 0
      BY <2>3, ConstantsAssumption DEF Track, Expire, ClaimRefused, Claim, Evaluated, Turn, TypeOK
    <3>2. o \notin touched
      BY <3>1 DEF SessionOK, AtBroker
    <3>3. /\ touched' = touched \cup {o}
          /\ \A x \in Orders \ {o} : work'[x] = work[x]
          /\ phase' \in {"scanning", "submitting"}
      BY <2>3 DEF Track, Expire, ClaimRefused, Claim, Stage, Turn, TypeOK
    <3>4. CASE o # p
      BY <1>1, <2>1, <2>3, <3>1, <3>3, <3>4
      DEF Track, Expire, ClaimRefused, Claim, QuantityOf, Agrees, AtBroker, subVars
    <3>5. CASE o = p
      <4>1. txPlaced[p] = 0
        BY <3>2, <3>5 DEF LocksOK
      <4>2. Agrees(table[p], p, placed[p])
        BY <1>1, <1>2, <4>1 DEF QuantityOf
      <4>3. \A x \in LiveStatus \ {"WatchingRecovery"} :
              Agrees([table[p] EXCEPT !.status = x], p, placed[p])
              /\ [table[p] EXCEPT !.status = x].remaining = table[p].remaining
        BY <3>1, <3>5, <4>2, <1>2 DEF Agrees, Row
      <4>4. work'[p] = NoRow \/ Agrees(work'[p], p, placed[p])
        <5>1. {"Monitoring", "Executing"} \subseteq LiveStatus \ {"WatchingRecovery"}
          BY DEF LiveStatus, Active
        <5>2. CASE Track(o)
          BY <3>5, <4>3, <5>1, <5>2 DEF Track, Stage, TypeOK
        <5>3. CASE Expire(o)
          BY <3>5, <5>3 DEF Expire, Stage, TypeOK
        <5>4. CASE ClaimRefused(o)
          BY <3>5, <4>2, <5>4 DEF ClaimRefused, Stage, TypeOK
        <5>5. CASE \E q \in Quantity : Claim(o, q)
          BY <3>5, <4>3, <5>1, <5>5 DEF Claim, Stage, TypeOK
        <5>6. QED
          BY <2>3, <5>2, <5>3, <5>4, <5>5
      <4>5. ASSUME NEW q \in Quantity, Claim(o, q)
            PROVE  qty' <= work'[p].remaining
        <5>1. table[p].remaining > 0 /\ table[p].remaining \in Nat /\ table[p].qty \in Nat
          BY <3>1, <3>5, <1>2, <4>2 DEF Agrees, Row, Quantity
        <5>2. q <= table[p].remaining
          BY <3>5, <4>5, <5>1 DEF Claim, OrElse
        <5>3. work'[p].remaining = table[p].remaining
          BY <3>5, <4>3, <4>5 DEF Claim, Stage, TypeOK, LiveStatus
        <5>4. QED
          BY <4>5, <5>2, <5>3 DEF Claim
      <4>6. AtBroker' => \E q \in Quantity : Claim(o, q)
        BY <2>3, <3>1 DEF Track, Expire, ClaimRefused, AtBroker
      <4>7. QED
        BY <1>1, <1>2, <2>1, <3>3, <4>1, <4>2, <4>4, <4>5, <4>6 DEF QuantityOf, Agrees
    <3>6. QED
      BY <3>4, <3>5
  <2>4. QED
    BY <1>9, <2>2, <2>3 DEF ScanStep
<1>10. CASE SubmitStep
  <2>1. /\ AtBroker /\ cur \in Orders /\ cur \in touched /\ work[cur] \in Row /\ qty \in Quantity
        /\ UNCHANGED <<table, asked, touched>>
    BY <1>10, SubmitFrame DEF rowVars
  <2>2. CASE BeginPost \/ PostRetried
    BY <1>1, <2>1, <2>2 DEF BeginPost, PostRetried, Submitting, Posting, QuantityOf, Agrees, AtBroker,
                txVars, subVars, exchangeVars
  <2>3. CASE PostAccepted \/ PostAcceptedUnanswered
    <3>1. /\ \A o \in Orders \ {cur} : placed'[o] = placed[o] /\ txPlaced'[o] = txPlaced[o]
          /\ placed'[cur] = placed[cur] + qty /\ txPlaced'[cur] = txPlaced[cur] + qty
          /\ UNCHANGED <<work, cur, qty>> /\ phase = "posting"
      BY <2>1, <2>3 DEF PostAccepted, PostAcceptedUnanswered, Posting, Accept, TypeOK, subVars
    <3>2. CASE p # cur
      BY <1>1, <2>1, <2>3, <3>1, <3>2
      DEF PostAccepted, PostAcceptedUnanswered, QuantityOf, Agrees, AtBroker
    <3>3. CASE p = cur
      <4>1. PostAccepted /\ phase' = "answered"
        BY <2>3, <3>3 DEF PostAccepted, PostAcceptedUnanswered, Excused
      <4>2. qty \in Nat /\ work[p].remaining \in Nat /\ work[p] # NoRow
        BY <1>2, <2>1, <3>3 DEF Row, Quantity
      <4>3. /\ placed[p] + work[p].remaining = asked[p] /\ qty <= work[p].remaining
            /\ Agrees(work[p], p, placed[p]) /\ Agrees(table[p], p, placed[p] - txPlaced[p])
        BY <1>1, <1>2, <2>1, <3>1, <3>3, <4>2 DEF QuantityOf, Agrees
      <4>4. /\ placed'[p] = placed[p] + qty /\ txPlaced'[p] = txPlaced[p] + qty
            /\ placed'[p] - txPlaced'[p] = placed[p] - txPlaced[p] /\ placed'[p] - qty = placed[p]
        BY <1>2, <3>1, <3>3, <4>2
      <4>5. placed'[p] <= asked[p]
        BY <1>2, <4>2, <4>3, <4>4
      <4>6. QED
        BY <2>1, <3>1, <3>3, <4>1, <4>3, <4>4, <4>5 DEF QuantityOf, Agrees
    <3>4. QED
      BY <3>2, <3>3
  <2>4. CASE BlockSubmission \/ ReleaseClaim \/ LotRuleBlocks \/ PostRefused
             \/ RecordSlippageBlock \/ RecordExecuted \/ RecordWatch \/ RecordPartial
    <3>1. /\ phase' = "scanning" /\ UNCHANGED <<placed, txPlaced>>
          /\ \A o \in Orders \ {cur} : work'[o] = work[o]
      BY <2>4 DEF BlockSubmission, ReleaseClaim, LotRuleBlocks, PostRefused, RecordSlippageBlock,
                  RecordExecuted, RecordWatch, RecordPartial, Resume, Stage, TypeOK, txVars,
                  exchangeVars
    <3>2. CASE p # cur
      BY <1>1, <2>1, <3>1, <3>2 DEF QuantityOf, Agrees, AtBroker
    <3>3. CASE p = cur
      <4>1. work'[p] = NoRow \/ Agrees(work'[p], p, placed[p])
        <5>1. CASE BlockSubmission
          BY <1>1, <1>2, <2>1, <3>3, <5>1 DEF BlockSubmission, Submitting, QuantityOf, txVars
        <5>2. CASE ReleaseClaim
          BY <3>3, <5>2 DEF ReleaseClaim
        <5>3. CASE Stage(cur, NoRow)
          BY <2>1, <3>3, <5>3 DEF Stage, TypeOK
        <5>4. CASE RecordWatch \/ RecordPartial
          <6>1. phase = "answered" /\ due[cur] \in Nat
            BY <2>1, <5>4 DEF RecordWatch, RecordPartial, Answered, TypeOK
          <6>2. /\ placed[p] - qty + work[p].remaining = asked[p] /\ qty <= work[p].remaining
                /\ work[p].remaining \in Nat /\ qty \in Nat /\ qty > 0
            BY <1>1, <1>2, <2>1, <3>3, <6>1 DEF QuantityOf, Agrees, Row, Quantity
          <6>3. Left = work[p].remaining - qty
            BY <3>3, <6>1, <6>2 DEF Left, OrElse, Max0
          <6>4. CASE RecordWatch
            <7>1. Left = 0
              BY <6>4 DEF RecordWatch, ToWatch
            <7>2. work'[p] = [work[p] EXCEPT !.status = "WatchingRecovery", !.remaining = 0,
                                             !.executed = TRUE, !.watch = OpenIds(cur)]
              BY <2>1, <3>3, <6>4 DEF RecordWatch, Stage, TypeOK
            <7>3. work'[p].remaining = 0 /\ work'[p].executed /\ work'[p].status = "WatchingRecovery"
              BY <2>1, <3>3, <7>2 DEF Row
            <7>4. QED
              BY <1>2, <6>2, <6>3, <7>1, <7>3 DEF Agrees
          <6>5. CASE RecordPartial
            <7>1. Left # 0
              BY <6>5 DEF RecordPartial
            <7>2. work'[p] = [work[p] EXCEPT !.status = "Partially executed", !.remaining = Left,
                                             !.executed = TRUE]
              BY <2>1, <3>3, <6>5 DEF RecordPartial, Stage, TypeOK
            <7>3. work'[p].remaining = Left /\ work'[p].executed
              BY <2>1, <3>3, <7>2 DEF Row
            <7>4. QED
              BY <1>2, <6>2, <6>3, <7>1, <7>3 DEF Agrees
          <6>6. QED
            BY <5>4, <6>4, <6>5
        <5>5. QED
          BY <2>4, <5>1, <5>2, <5>3, <5>4 DEF LotRuleBlocks, PostRefused, RecordSlippageBlock,
             RecordExecuted
      <4>2. QED
        BY <1>1, <1>2, <2>1, <3>1, <3>3, <4>1 DEF QuantityOf, Agrees, AtBroker
    <3>4. QED
      BY <3>2, <3>3
  <2>5. QED
    BY <1>10, <2>2, <2>3, <2>4 DEF SubmitStep
<1>11. QED
  BY <1>3, <1>4, <1>5, <1>7, <1>8, <1>9, <1>10, StepKinds

-----------------------------------------------------------------------------
(* The theorems.                                                           *)

\* The initial states satisfy the inductive invariant.
LEMMA InductiveInit ==
  Init => IInv
<1> SUFFICES ASSUME Init PROVE IInv
  OBVIOUS
<1>1. TypeOK
  BY TypeInit
<1>2. SessionOK /\ LocksOK
  BY ConstantsAssumption DEF Init, SessionOK, LocksOK, AtBroker, EditLocked
<1>3. WatchesOK /\ HistoryOK
  BY DEF Init, WatchesOK, WatchOK, HistoryOK, HistoryOnce
<1>4. QuantityOK
  BY DEF Init, QuantityOK, Agrees, AtBroker
<1>5. QED
  BY <1>1, <1>2, <1>3, <1>4 DEF IInv

\* Every step preserves it.
LEMMA InductiveStep ==
  IInv /\ [Next]_vars => IInv'
BY TypeStep, SessionStep, LocksStep, WatchesStep, HistoryStep, QuantityStep DEF IInv

\* The inductive invariant holds of every reachable state: session, locks, watches,
\* history and quantities stay in agreement, whatever the monitor and the handlers do.
THEOREM Inductive == Spec => []IInv
BY InductiveInit, InductiveStep, PTL DEF Spec

\* Every variable keeps its type: in particular the rows the scan, the edits and the
\* recovery write are rows with a live status and a quantity within its bounds.
THEOREM TypeCorrect == Spec => []TypeOK
<1>1. IInv => TypeOK
  BY DEF IInv
<1>2. QED
  BY <1>1, Inductive, PTL

\* The status history is written exactly once for each order that ends, for any number
\* of orders: the scan, the API and the rollbacks never lose or repeat an entry.
THEOREM HistoryCorrect == Spec => []HistoryOnce
<1>1. IInv => HistoryOnce
  BY DEF IInv, HistoryOK
<1>2. QED
  BY <1>1, Inductive, PTL

\* The exchange holds more of a plain order than was asked for only after a rolled-back
\* scan, a lost answer or an edit of an order that had begun to execute.
THEOREM QuantityCorrect == Spec => []NoOverSubmission
<1>1. IInv => NoOverSubmission
  <2>1. ASSUME IInv, NEW o \in Orders \ RuleBased, placed[o] > asked[o],
               o \notin lost \cup unanswered \cup staleEdits
        PROVE  FALSE
    BY <2>1 DEF IInv, QuantityOK, TypeOK
  <2>2. QED
    BY <2>1 DEF NoOverSubmission
<1>2. QED
  BY <1>1, Inductive, PTL

\* A row the open session has written changes only when that session commits.
LEMMA TouchedRow ==
  ASSUME IInv, [Next]_vars, NEW o \in touched, table'[o] # table[o]
  PROVE  phase = "scanning" /\ phase' = "asleep"
<1>1. o \in Orders /\ o \in created /\ table[o] # NoRow /\ ~EditLocked(o) /\ o \in RowLocked
  BY DEF IInv, TypeOK, LocksOK, HistoryOK, RowLocked
<1>2. CASE ApiStep \/ \E p \in Orders : LeavesBook(p)
  <2>1. ASSUME NEW p \in Orders, EditSave(p) \/ EditCommit(p) PROVE FALSE
    BY <1>1, <2>1 DEF EditSave, EditCommit, SaveEdit, IInv, LocksOK, TypeOK
  <2>2. ASSUME NEW p \in Orders, NEW q \in Quantity, Create(p, q) PROVE FALSE
    BY <1>1, <2>2 DEF Create, IInv, TypeOK
  <2>3. CASE Clear \/ \E S \in SUBSET Orders : Delete(S)
    BY <1>1, <2>3 DEF Clear, Delete
  <2>4. QED
    BY <1>2, <2>1, <2>2, <2>3
    DEF ApiStep, EditStep, RemovalHangs, EditBegin, EditFlush, EditAbort, EditHangs, LeavesBook,
        rowVars
<1>3. CASE Commit
  BY <1>3 DEF Commit
<1>4. CASE SubmitStep
  BY <1>4, SubmitFrame DEF IInv, rowVars
<1>5. CASE \E p \in Orders : ScanStep(p)
  BY <1>5 DEF ScanStep, SkipOrder, KeepWatching, BeginRecoveryCancel, Track, Expire,
                    ClaimRefused, ScanHangs, Claim, rowVars
<1>6. CASE Start \/ Load \/ BeginScan \/ AwaitHangs \/ FinishRecoveryCancel \/ CycleFails \/ Stop
           \/ Crash \/ UNCHANGED vars
  BY <1>6 DEF Start, Load, BeginScan, AwaitHangs, FinishRecoveryCancel, CycleFails, Stop,
                    Crash, Rollback, rowVars, vars
<1>7. QED
  BY <1>2, <1>3, <1>4, <1>5, <1>6, StepKinds

\* A row the open session has written changes only when that session commits: claims,
\* edits, deletions and clear-all exclude one another through the row locks.
THEOREM ClaimExclusive == Spec => ClaimIsExclusive
<1>1. IInv /\ [Next]_vars => [\A o \in touched :
        table'[o] # table[o] => phase = "scanning" /\ phase' = "asleep"]_vars
  BY TouchedRow
<1>2. QED
  BY <1>1, Inductive, PTL DEF Spec, ClaimIsExclusive

\* Outside a scan the session holds nothing, and the loop hangs only on somebody's lock.
OpenSession ==
  /\ HangNeedsOpenTransaction
  /\ phase \in {"stopped", "asleep", "fetching"} => touched = {} /\ logLock = {}

\* A hung loop takes no step but the exchange's and the crash; it begins to hang on a row
\* that the scan or an edit has locked, or on a counter the scan has.
LEMMA OpenSessionStep == IInv /\ OpenSession /\ [Next]_vars => OpenSession'
<1> SUFFICES ASSUME IInv, OpenSession, [Next]_vars PROVE OpenSession'
  OBVIOUS
<1> DEFINE Closed == {"stopped", "asleep", "fetching"}
           Away == phase \in Closed => touched = {} /\ logLock = {}
           HangsOn == \/ touched # {} \/ logLock # {} \/ \E o \in Orders : EditLocked(o)
<1>1. Away' => (HangNeedsOpenTransaction' <=> blocked' => phase' \in Phases \ Closed \/ \E o \in Orders : EditLocked(o)')
  BY DEF HangNeedsOpenTransaction, EditLocked
<1>2. phase \in Phases /\ (~blocked => blocked = FALSE)
  BY DEF IInv, TypeOK
<1>3. ASSUME HangsOn, UNCHANGED <<edit, phase, touched, logLock>> PROVE OpenSession'
  BY <1>2, <1>3 DEF OpenSession, HangNeedsOpenTransaction, EditLocked
<1>4. ASSUME NEW o \in Orders, ScanHangs(o) \/ EditHangs(o) PROVE OpenSession'
  <2>1. HangsOn
    BY <1>4 DEF ScanHangs, EditHangs
  <2>2. QED
    BY <1>3, <1>4, <2>1 DEF ScanHangs, EditHangs, txVars
<1>5. ASSUME NEW S \in SUBSET Orders, RemovalHangs(S) PROVE OpenSession'
  <2>1. HangsOn
    BY <1>5 DEF RemovalHangs, Conflict, RowLocked
  <2>2. QED
    BY <1>3, <1>5, <2>1 DEF RemovalHangs, txVars
<1>6. ASSUME phase' \in Closed, touched' = {}, logLock' = {}, blocked' = FALSE PROVE OpenSession'
  BY <1>6 DEF OpenSession, HangNeedsOpenTransaction
<1>7. ASSUME phase' \notin Closed, blocked' = FALSE PROVE OpenSession'
  BY <1>7 DEF OpenSession, HangNeedsOpenTransaction
<1>8. ASSUME UNCHANGED <<phase, touched, logLock>>, blocked' = FALSE PROVE OpenSession'
  BY <1>8 DEF OpenSession, HangNeedsOpenTransaction
<1>9. CASE Commit \/ CycleFails \/ Stop \/ Crash
  BY <1>2, <1>6, <1>9 DEF Commit, CycleFails, Stop, Crash, Rollback, NoTransaction, AtAwait
<1>10. CASE Start \/ Load \/ BeginScan
  BY <1>2, <1>6, <1>7, <1>10 DEF Start, Load, BeginScan, OpenSession, txVars
<1>11. CASE AwaitHangs
  BY <1>2, <1>7, <1>11 DEF AwaitHangs, AtAwait
<1>12. CASE FinishRecoveryCancel
  BY <1>2, <1>6, <1>7, <1>12 DEF FinishRecoveryCancel, Rollback, NoTransaction, Resume
<1>13. CASE SubmitStep
  <2>1. phase' \notin Closed
    BY <1>13 DEF SubmitStep, BlockSubmission, ReleaseClaim, LotRuleBlocks, BeginPost, PostAccepted, PostRefused,
      PostRetried, PostAcceptedUnanswered, RecordSlippageBlock, RecordExecuted, RecordWatch, RecordPartial,
      Submitting, Posting, Answered, Resume
  <2>2. blocked' = FALSE
    BY <1>13 DEF IInv, TypeOK, SubmitStep, BlockSubmission, ReleaseClaim, LotRuleBlocks, BeginPost, PostAccepted,
      PostRefused, PostRetried, PostAcceptedUnanswered, RecordSlippageBlock, RecordExecuted, RecordWatch,
      RecordPartial, Submitting, Posting, Answered
  <2>3. QED
    BY <1>7, <2>1, <2>2
<1>14. ASSUME NEW o \in Orders, ScanStep(o), ~ScanHangs(o) PROVE OpenSession'
  <2>1. phase' \notin Closed /\ blocked' = FALSE
    BY <1>14 DEF IInv, TypeOK, ScanStep, SkipOrder, KeepWatching, BeginRecoveryCancel, Track, Expire, ClaimRefused,
                 Claim, Turn
  <2>2. QED
    BY <1>7, <2>1
<1>15. CASE ApiStep /\ ~(\E S \in SUBSET Orders : RemovalHangs(S)) /\ ~(\E o \in Orders : EditHangs(o))
  <2>1. UNCHANGED <<phase, touched, logLock>> /\ blocked' = FALSE
    BY <1>15 DEF IInv, TypeOK, ApiStep, EditStep, Create, Delete, Clear, EditBegin, EditSave, EditFlush, EditCommit,
                 EditAbort, AtAwait, txVars
  <2>2. QED
    BY <1>8, <2>1
<1>16. CASE UNCHANGED vars \/ \E o \in Orders : LeavesBook(o)
  BY <1>16 DEF OpenSession, HangNeedsOpenTransaction, EditLocked, vars, LeavesBook, txVars
<1>17. QED
  BY <1>4, <1>5, <1>9, <1>10, <1>11, <1>12, <1>13, <1>14, <1>15, <1>16 DEF Next, MonitorStep, ScanStep, ApiStep, EditStep

\* The event loop hangs on a database lock only while a scan's transaction, or an edit that
\* awaits, is open: a hang is never left behind by something that has ended.
THEOREM HangExplained == Spec => []HangNeedsOpenTransaction
<1>1. Init => OpenSession
  BY DEF Init, OpenSession, HangNeedsOpenTransaction
<1>2. OpenSession => HangNeedsOpenTransaction
  BY DEF OpenSession
<1>3. QED
  BY <1>1, <1>2, OpenSessionStep, Inductive, PTL DEF Spec

\* The order at the broker is still active in the table: the claim is not committed.
ClaimedIsActive == AtBroker => table[cur] # NoRow /\ table[cur].status \in Active

\* While it is there the row is locked, so that nobody changes its status.
LEMMA ClaimedStep == IInv /\ ClaimedIsActive /\ [Next]_vars => ClaimedIsActive'
<1> SUFFICES ASSUME IInv, ClaimedIsActive, [Next]_vars, AtBroker' PROVE table'[cur'] # NoRow /\ table'[cur'].status \in Active
  BY DEF ClaimedIsActive
<1>1. ASSUME AtBroker, cur' = cur PROVE table'[cur'] # NoRow /\ table'[cur'].status \in Active
  BY <1>1, TouchedRow DEF IInv, SessionOK, AtBroker, ClaimedIsActive
<1>2. CASE ApiStep \/ (\E o \in Orders : LeavesBook(o)) \/ UNCHANGED vars
  BY <1>1, <1>2, ApiFrame DEF LeavesBook, AtBroker, vars, subVars
<1>3. CASE SubmitStep
  BY <1>1, <1>3, SubmitFrame DEF IInv, SubmitStep, BlockSubmission, ReleaseClaim, LotRuleBlocks, BeginPost, PostAccepted,
     PostRefused, PostRetried, PostAcceptedUnanswered, RecordSlippageBlock, RecordExecuted, RecordWatch, RecordPartial,
     Resume, AtBroker, subVars
<1>4. ASSUME NEW o \in Orders, ScanStep(o) PROVE table'[cur'] # NoRow /\ table'[cur'].status \in Active
  BY <1>4 DEF ScanStep, SkipOrder, KeepWatching, BeginRecoveryCancel, Track, Expire, ClaimRefused, ScanHangs, Claim,
     Turn, Evaluated, Claimable, AtBroker, rowVars
<1>5. CASE Start \/ Load \/ BeginScan \/ AwaitHangs \/ FinishRecoveryCancel \/ CycleFails \/ Stop \/ Crash \/ Commit
  BY <1>5 DEF Start, Load, BeginScan, AwaitHangs, FinishRecoveryCancel, CycleFails, Stop, Crash, Commit, Resume, AtBroker
<1>6. QED
  BY <1>2, <1>3, <1>4, <1>5, StepKinds

\* An order that a blocked submission left "Executing" is not posted until tracking or an edit
\* gives it an active status back, for any number of orders and scans.
THEOREM StrandedEver == Spec => StrandedIsNotPosted
<1>1. Init => ClaimedIsActive
  BY DEF Init, ClaimedIsActive, AtBroker
<1>2. IInv /\ ClaimedIsActive /\ [Next]_vars
        => [\A o \in Orders : table[o] # NoRow /\ table[o].status = "Executing" => placed'[o] = placed[o]]_vars
  <2> SUFFICES ASSUME IInv, ClaimedIsActive, [Next]_vars, NEW o \in Orders, table[o].status = "Executing"
               PROVE  placed'[o] = placed[o]
    OBVIOUS
  <2>1. CASE SubmitStep
    <3>1. AtBroker /\ cur # o
      BY <2>1, SubmitFrame DEF IInv, ClaimedIsActive, Active
    <3>2. QED
      BY <2>1, <3>1 DEF IInv, TypeOK, SubmitStep, BlockSubmission, ReleaseClaim, LotRuleBlocks, BeginPost, PostAccepted,
        PostRefused, PostRetried, PostAcceptedUnanswered, RecordSlippageBlock, RecordExecuted, RecordWatch,
        RecordPartial, Accept, exchangeVars
  <2>2. CASE ApiStep \/ \E p \in Orders : LeavesBook(p)
    BY <2>2 DEF ApiStep, EditStep, LeavesBook, Create, Delete, RemovalHangs, Clear, EditBegin, EditSave, EditFlush,
                EditCommit, EditAbort, EditHangs, exchangeVars
  <2>3. CASE \E p \in Orders : ScanStep(p)
    BY <2>3 DEF ScanStep, SkipOrder, KeepWatching, BeginRecoveryCancel, Track, Expire, ClaimRefused, ScanHangs, Claim,
                exchangeVars
  <2>4. CASE \/ Start \/ Load \/ BeginScan \/ AwaitHangs \/ FinishRecoveryCancel \/ CycleFails \/ Stop \/ Crash
             \/ Commit \/ UNCHANGED vars
    BY <2>4 DEF Start, Load, BeginScan, AwaitHangs, FinishRecoveryCancel, CycleFails, Stop, Crash, Commit, Rollback,
                exchangeVars, vars
  <2>5. QED
    BY <2>1, <2>2, <2>3, <2>4, StepKinds
<1>3. QED
  BY <1>1, <1>2, ClaimedStep, Inductive, PTL DEF Spec, StrandedIsNotPosted

-----------------------------------------------------------------------------
(* The refinement.                                                         *)

\* Every order is in a stage of the lifecycle, and a step that neither adds nor removes rows,
\* entries or accepted quantity is none of the lifecycle's.
LEMMA SameStages ==
  ASSUME UNCHANGED <<created, cleared, logs, placed>>,
         \A o \in Orders : table'[o] = NoRow <=> table[o] = NoRow
  PROVE  UNCHANGED Lifecycle!vars
<1>1. \A o \in Orders : StageOf(o)' = StageOf(o)
  BY DEF StageOf
<1>2. [o \in Orders |-> StageOf(o)]' = [o \in Orders |-> StageOf(o)]
  BY <1>1
<1>3. QED
  BY <1>2 DEF Lifecycle!vars

\* A commit or a deletion that removes the rows S ends those orders.
LEMMA RemovalEnds ==
  ASSUME IInv, NEW S \in SUBSET Orders, Archive(S), UNCHANGED <<created, cleared, placed>>,
         \A o \in S : table[o] # NoRow /\ table'[o] = NoRow,
         \A o \in Orders \ S : table'[o] = NoRow <=> table[o] = NoRow
  PROVE  Lifecycle!End(S)
<1>1. \A o \in S : StageOf(o) = "scheduled" /\ StageOf(o)' = "ended"
  BY DEF IInv, HistoryOK, StageOf
<1>2. \A o \in Orders \ S : StageOf(o)' = StageOf(o)
  BY DEF StageOf
<1>3. QED
  BY <1>1, <1>2 DEF Lifecycle!End, Archive

\* A POST that the exchange accepts is a submission of a scheduled order.
LEMMA AcceptSubmits ==
  ASSUME IInv, SubmitStep, placed' # placed
  PROVE  Lifecycle!Submit(cur)
<1>1. cur \in Orders /\ cur \in touched /\ qty \in Quantity /\ UNCHANGED rowVars
  BY SubmitFrame DEF IInv
<1>2. placed' = [placed EXCEPT ![cur] = @ + qty]
  BY DEF SubmitStep, BlockSubmission, ReleaseClaim, LotRuleBlocks, BeginPost, PostAccepted, PostRefused, PostRetried,
         PostAcceptedUnanswered, RecordSlippageBlock, RecordExecuted, RecordWatch, RecordPartial, Accept, exchangeVars
<1>3. qty \in Nat /\ qty > 0 /\ placed \in [Orders -> Nat]
  BY <1>1, ConstantsAssumption DEF Quantity, IInv, TypeOK
<1>4. /\ placed' \in [Orders -> Nat] /\ placed'[cur] > placed[cur]
      /\ \A p \in Orders \ {cur} : placed'[p] = placed[p]
  BY <1>1, <1>2, <1>3
<1>5. StageOf(cur) = "scheduled"
  BY <1>1 DEF IInv, LocksOK, HistoryOK, StageOf
<1>6. UNCHANGED [o \in Orders |-> StageOf(o)]
  <2>1. \A o \in Orders : StageOf(o)' = StageOf(o)
    BY <1>1 DEF StageOf, rowVars
  <2>2. QED
    BY <2>1
<1>7. QED
  BY <1>1, <1>4, <1>5, <1>6 DEF Lifecycle!Submit, rowVars

\* Every step of the monitor and the handlers is one of the lifecycle, or none.
LEMMA LifecycleStep == IInv /\ [Next]_vars => [Lifecycle!Next]_(Lifecycle!vars)
<1> DEFINE Goal == Lifecycle!Next \/ UNCHANGED Lifecycle!vars
<1> SUFFICES ASSUME IInv, [Next]_vars PROVE Goal
  OBVIOUS
<1>1. ASSUME UNCHANGED rowVars, UNCHANGED placed PROVE Goal
  BY <1>1, SameStages DEF rowVars
<1>2. ASSUME NEW S \in SUBSET Orders, Archive(S), UNCHANGED <<created, cleared, placed>>,
             \A o \in S : table[o] # NoRow /\ table'[o] = NoRow,
             \A o \in Orders \ S : table'[o] = NoRow <=> table[o] = NoRow
      PROVE  Goal
  BY <1>2, RemovalEnds DEF Lifecycle!Next
<1> HIDE DEF Goal
<1>3. CASE Commit
  <2>1. \A o \in Orders : table'[o] = View(o)
    BY <1>3 DEF Commit
  <2>2. QED
    BY <1>2, <1>3, <2>1 DEF Commit, View, IInv, LocksOK, TypeOK, exchangeVars
<1>4. ASSUME NEW o \in Orders, NEW q \in Quantity, Create(o, q) PROVE Goal
  <2>1. table'[o] # NoRow /\ \A p \in Orders \ {o} : table'[p] = table[p]
    BY <1>4, PendingRow, ConstantsAssumption DEF Create, IInv, TypeOK
  <2>2. StageOf(o) = "none" /\ StageOf(o)' = "scheduled" /\ UNCHANGED <<logs, placed>>
    BY <1>4, <2>1 DEF Create, StageOf, exchangeVars
  <2>3. \A p \in Orders \ {o} : StageOf(p)' = StageOf(p)
    BY <1>4, <2>1 DEF Create, StageOf
  <2>4. Lifecycle!Schedule(o)
    BY <2>2, <2>3 DEF Lifecycle!Schedule
  <2>5. QED
    BY <2>4 DEF Lifecycle!Next, Goal
<1>5. ASSUME NEW S \in SUBSET Orders, Delete(S) PROVE Goal
  BY <1>2, <1>5 DEF Delete, Present, IInv, TypeOK, exchangeVars
<1>6. CASE Clear
  <2>1. \A o \in Orders : StageOf(o)' = IF StageOf(o) = "scheduled" THEN "cleared" ELSE StageOf(o)
    BY <1>6 DEF Clear, Present, StageOf, IInv, HistoryOK
  <2>2. Lifecycle!Clear
    BY <1>6, <2>1 DEF Clear, Lifecycle!Clear, exchangeVars
  <2>3. QED
    BY <2>2 DEF Lifecycle!Next, Goal
<1>7. ASSUME NEW o \in Orders, EditSave(o) \/ EditCommit(o) PROVE Goal
  <2>1. table[o] # NoRow /\ Merged(o) # NoRow
    BY <1>7, MergedRow, ConstantsAssumption DEF EditSave, EditCommit, IInv, LocksOK, EditLocked
  <2>2. table' = [table EXCEPT ![o] = Merged(o)] /\ UNCHANGED <<logs, created, cleared, placed>>
    BY <1>7 DEF EditSave, EditCommit, SaveEdit, exchangeVars
  <2>3. \A p \in Orders : table'[p] = NoRow <=> table[p] = NoRow
    BY <2>1, <2>2 DEF IInv, TypeOK
  <2>4. QED
    BY <2>2, <2>3, SameStages DEF Goal
<1>8. CASE ApiStep \/ \E o \in Orders : LeavesBook(o)
  BY <1>1, <1>4, <1>5, <1>6, <1>7, <1>8
  DEF ApiStep, EditStep, RemovalHangs, EditBegin, EditFlush, EditAbort, EditHangs, LeavesBook, exchangeVars
<1>9. CASE \E o \in Orders : ScanStep(o)
  BY <1>1, <1>9 DEF ScanStep, SkipOrder, KeepWatching, BeginRecoveryCancel, Track, Expire,
                    ClaimRefused, ScanHangs, Claim, exchangeVars
<1>10. CASE SubmitStep
  <2>1. UNCHANGED rowVars /\ cur \in Orders
    BY <1>10, SubmitFrame DEF IInv
  <2>2. CASE placed' = placed
    BY <1>1, <2>1, <2>2
  <2>3. CASE placed' # placed
    BY <1>10, <2>1, <2>3, AcceptSubmits DEF Lifecycle!Next, Goal
  <2>4. QED
    BY <2>2, <2>3
<1>11. CASE Start \/ Load \/ BeginScan \/ AwaitHangs \/ FinishRecoveryCancel \/ CycleFails \/ Stop
            \/ Crash \/ UNCHANGED vars
  BY <1>1, <1>11 DEF Start, Load, BeginScan, AwaitHangs, FinishRecoveryCancel, CycleFails, Stop,
                     Crash, Rollback, vars, exchangeVars
<1>12. QED
  BY <1>3, <1>8, <1>9, <1>10, <1>11, StepKinds

\* Nothing is scheduled at first, and nothing has been.
LEMMA LifecycleInit == Init => Lifecycle!Init
BY DEF Init, Lifecycle!Init, StageOf

\* The monitor with its sessions, locks, snapshots and rollbacks, and the handlers, give each
\* order the life that OrderLifecycle promises, for any number of orders.
THEOREM RefinesLifecycle == Spec => ImplementsLifecycle
BY LifecycleInit, LifecycleStep, Inductive, PTL DEF Spec, ImplementsLifecycle, Lifecycle!Spec
=============================================================================
