------------------------- MODULE StoredData_proofs -------------------------
(***************************************************************************)
(* Proofs about the two stores that are filled from TMS behind the pages:  *)
(* the cache of market data (MarketData, for any symbols and jobs) and the *)
(* history of trades (Tradebook, for any trades, requests and calendar);   *)
(* and what the portfolio makes of the history (TradeLots).                *)
(***************************************************************************)
EXTENDS MarketData, Tradebook, FiniteSetTheorems, TLAPS

-----------------------------------------------------------------------------
(* The exclusive flag.                                                     *)

\* Who holds the flag waits for its thread, and nobody else has one that runs or has returned,
\* but for the threads of a tick that was cancelled.
Control ==
  /\ active \in Jobs \cup {NoJob} /\ phase \in [Jobs -> Phases]
  /\ thread \in [Jobs -> ThreadWork \cup {"none", "returned", "fetched"}]
  /\ ticking \in {"between", "running", "gone"}
  /\ active # NoJob => phase[active] \in Awaiting /\ thread[active] # "none"
  /\ \A j \in Jobs : thread[j] \in ThreadWork \cup {"returned"} =>
       active = j \/ (ticking = "gone" /\ j \in TickJobs)
  /\ ticking # "running" => \A j \in TickJobs : phase[j] = "idle"

\* Nothing runs at first.
LEMMA ControlInit == Init => Control
BY DEF Init, Control, Jobs, TickJobs, NoJob, Phases, ThreadWork, Awaiting

\* A job that waits for its thread and sees it returned holds the flag.
LEMMA ReturnedHolds ==
  ASSUME Control, NEW j \in Jobs, NEW p \in Awaiting, Returned(j, p)
  PROVE  active = j /\ (j \in TickJobs => ticking = "running")
BY DEF Control, Returned, Awaiting, TickJobs, Jobs

\* Every step keeps the flag with the thread.
LEMMA ControlStep == Control /\ [Next]_vars => Control'
<1> SUFFICES ASSUME Control, [Next]_vars PROVE Control'
  OBVIOUS
<1> USE DEF Jobs, TickJobs, NoJob, Phases, ThreadWork, Awaiting
<1>1. CASE Tick
  BY <1>1 DEF Tick, Control, Free
<1>2. CASE TickEnds
  BY <1>2 DEF TickEnds, Control
<1>3. CASE SchedulerCancelled
  BY <1>3 DEF SchedulerCancelled, Control
<1>4. ASSUME NEW j \in {"daily", "refresh"}, SnapshotThread(j) PROVE Control'
  BY <1>4 DEF SnapshotThread, Control
<1>5. CASE DailyResumes
  BY <1>5, ReturnedHolds DEF DailyResumes, Control, Returned
<1>6. CASE Counted("ensure") \/ Probe
  BY <1>6 DEF Counted, Probe, KickedOff, Control
<1>7. CASE CountedMerolagani
  BY <1>7 DEF CountedMerolagani, KickedOff, Free, Control
<1>8. ASSUME NEW j \in {"merolagani", "refresh"}, ScrapeThread(j) PROVE Control'
  BY <1>8 DEF ScrapeThread, Control
<1>9. CASE MerolaganiResumes
  BY <1>9, ReturnedHolds DEF MerolaganiResumes, Control, Returned
<1>10. CASE CountedNepse
  BY <1>10 DEF CountedNepse, ToFetches, Control
<1>11. ASSUME NEW j \in {"nepse", "refresh"}, Fetched(j) \/ NepseWrites(j) PROVE Control'
  <2>1. CASE Fetched(j)
    BY <2>1 DEF Fetched, Control
  <2>2. CASE NepseWrites(j)
    BY <2>2 DEF NepseWrites, Control
  <2>3. QED
    BY <1>11, <2>1, <2>2
<1>12. CASE BootstrapTask
  <2>1. CASE BootstrapBegins
    BY <2>1 DEF BootstrapBegins, Free, Start, Control
  <2>2. CASE BootstrapReads \/ BootstrapWrites
    BY <2>2 DEF BootstrapReads, BootstrapWrites, Control
  <2>3. CASE BootstrapResumes
    BY <2>3, ReturnedHolds DEF BootstrapResumes, Control, Returned
  <2>4. QED
    BY <1>12, <2>1, <2>2, <2>3 DEF BootstrapTask
<1>13. CASE RefreshStarts
  BY <1>13 DEF RefreshStarts, Start, Free, EnrichPart, ScreenerPart, ToFetches, Control
<1>14. CASE RefreshSnapshotted
  BY <1>14, ReturnedHolds DEF RefreshSnapshotted, Returned, EnrichPart, Control
<1>15. CASE RefreshEnriched
  BY <1>15, ReturnedHolds DEF RefreshEnriched, Returned, ScreenerPart, Control
<1>16. CASE RefreshScraped
  BY <1>16, ReturnedHolds DEF RefreshScraped, Returned, ToFetches, Control
<1>17. CASE EnrichCommits \/ EnrichSkips \/ \E s \in Symbols : EnrichReads(s) \/ EnrichWrites(s)
  BY <1>17 DEF EnrichCommits, EnrichSkips, EnrichReads, EnrichWrites, Control
<1>18. CASE Outside \/ UNCHANGED vars
  BY <1>18 DEF Outside, vars, Control
<1>19. QED
  BY <1>1, <1>2, <1>3, <1>4, <1>5, <1>6, <1>7, <1>8, <1>9, <1>10, <1>11, <1>12, <1>13, <1>14,
     <1>15, <1>16, <1>17, <1>18
  DEF Next, RefreshGoesOn

\* However many symbols there are: as long as the scheduler is not cancelled, at most one job
\* has a worker thread that runs.
THEOREM OneThreadEver == Spec => []OneThread
<1>1. Control => OneThread
  BY DEF Control, OneThread, ThreadWork
<1>2. QED
  BY <1>1, ControlInit, ControlStep, PTL DEF Spec

-----------------------------------------------------------------------------
(* The cache.                                                              *)

Data ==
  /\ row \in [Symbols -> Row] /\ daily \in Versions /\ saved \in BOOLEAN
  /\ world \in Versions \ {0} /\ answering \in BOOLEAN /\ open \in BOOLEAN /\ changes \in 0..MaxChanges
  /\ due \in [{"merolagani", "nepse"} -> BOOLEAN] /\ current \in BOOLEAN
  /\ got \in [Jobs -> [Symbols -> Versions]] /\ base \in [Jobs -> [Symbols -> Versions]]
  /\ locked \subseteq Symbols

\* The cache and the pages have their types at first.
LEMMA DataInit == Init => Data
<1> SUFFICES ASSUME Init PROVE Data
  OBVIOUS
<1>1. 0 \in Versions /\ 1 \in Versions /\ 0 \in 0..MaxChanges
  BY ConstantsAssumption DEF Versions
<1>2. row \in [Symbols -> Row]
  <2>1. NoRow \in Row /\ [n \in DOMAIN NoRow |-> 1] \in Row
    BY <1>1 DEF NoRow, Row
  <2>2. QED
    BY <2>1 DEF Init
<1>3. got \in [Jobs -> [Symbols -> Versions]] /\ base \in [Jobs -> [Symbols -> Versions]]
  BY <1>1 DEF Init, Nothing
<1>4. daily \in Versions /\ saved \in BOOLEAN /\ due \in [{"merolagani", "nepse"} -> BOOLEAN] /\ current \in BOOLEAN
  BY <1>1 DEF Init
<1>5. world \in Versions \ {0} /\ answering \in BOOLEAN /\ open \in BOOLEAN /\ changes \in 0..MaxChanges /\ locked \subseteq Symbols
  BY <1>1 DEF Init
<1>6. QED
  BY <1>2, <1>3, <1>4, <1>5 DEF Data

\* A row written with a Merolagani record agrees with what is stored beside it.
LEMMA CombinedRow ==
  ASSUME NEW r \in Row, NEW m \in Versions
  PROVE  Combined(r, m) \in Row /\ Agrees(Combined(r, m))
BY DEF Combined, Row, Agrees

\* What is inserted into an empty cache agrees, and a cache that is not empty stays.
LEMMA BootstrappedRows ==
  ASSUME Data
  PROVE  /\ Bootstrapped \in [Symbols -> Row]
         /\ \A s \in Symbols : Agrees(row[s]) => Agrees(Bootstrapped[s])
<1>1. SeedVersion \in Versions
  BY ConstantsAssumption DEF SeedVersion, Data, Versions
<1>2. CASE Empty /\ SeedVersion # 0
  <2>1. \A s \in Symbols : row[s].nepse = 0 /\ row[s] \in Row
    BY <1>2 DEF Empty, NoRow, Data
  <2>2. 0 \in Versions
    BY ConstantsAssumption DEF Versions
  <2> DEFINE seeded(s) == [row[s] EXCEPT !.merolagani = SeedVersion, !.shownMerolagani = SeedVersion, !.shownNepse = 0]
  <2>3. ASSUME NEW s \in Symbols PROVE seeded(s) \in Row /\ Agrees(seeded(s))
    BY <1>1, <2>1, <2>2 DEF Row, Agrees
  <2>4. Bootstrapped = [s \in Symbols |-> seeded(s)]
    BY <1>2 DEF Bootstrapped, Seeded
  <2> HIDE DEF seeded
  <2>5. QED
    BY <2>3, <2>4
<1>3. CASE ~(Empty /\ SeedVersion # 0)
  BY <1>3 DEF Bootstrapped, Data
<1>4. QED
  BY <1>2, <1>3

\* Enriching on the loop keeps every row in agreement.
LEMMA EnrichedRows ==
  ASSUME Data
  PROVE  /\ EnrichedOnLoop \in [Symbols -> Row]
         /\ \A s \in Symbols : Agrees(row[s]) => Agrees(EnrichedOnLoop[s])
<1>1. CASE Empty
  BY <1>1, BootstrappedRows DEF EnrichedOnLoop
<1>2. CASE ~Empty /\ daily = 0
  BY <1>2 DEF EnrichedOnLoop, Data
<1>3. CASE ~Empty /\ daily # 0
  <2>1. ASSUME NEW s \in Symbols PROVE row[s] \in Row /\ Merged(row[s]) \in Versions
    BY DEF Data, Merged, Row
  <2>2. EnrichedOnLoop = [s \in Symbols |-> Combined(row[s], Merged(row[s]))]
    BY <1>3 DEF EnrichedOnLoop
  <2>3. QED
    BY <2>1, <2>2, CombinedRow
<1>4. QED
  BY <1>1, <1>2, <1>3

\* So does a scrape.
LEMMA ScrapedRows ==
  ASSUME Data, NEW g \in [Symbols -> Versions]
  PROVE  /\ AfterScrape(g) \in [Symbols -> Row]
         /\ \A s \in Symbols : Agrees(row[s]) => Agrees(AfterScrape(g)[s])
<1>1. CASE g = Nothing
  BY <1>1, BootstrappedRows DEF AfterScrape
<1>2. CASE g # Nothing
  <2>1. AfterScrape(g) = [s \in Symbols |-> IF g[s] = 0 THEN row[s] ELSE Combined(row[s], g[s])]
    BY <1>2 DEF AfterScrape, Scraped
  <2>2. \A s \in Symbols : row[s] \in Row /\ g[s] \in Versions
    BY DEF Data
  <2>3. QED
    BY <2>1, <2>2, CombinedRow
<1>3. QED
  BY <1>1, <1>2

\* A Nepse Alpha refresh breaks the agreement of a row only if the record it read is not the
\* stored one any more, or if its fetch failed.
LEMMA NepseRows ==
  ASSUME Data, NEW j \in Jobs
  PROVE  /\ NepseWritten(j) \in [Symbols -> Row]
         /\ \A s \in Symbols : Agrees(row[s]) /\ ~Agrees(NepseWritten(j)[s]) =>
              base[j][s] # row[s].merolagani \/ got[j][s] = 0
<1> DEFINE written(s) == [row[s] EXCEPT !.nepse = IF got[j][s] = 0 THEN @ ELSE got[j][s],
                                        !.shownMerolagani = base[j][s], !.shownNepse = got[j][s]]
<1>1. ASSUME NEW s \in Symbols
      PROVE  /\ written(s) \in Row /\ row[s] \in Row
             /\ ~Agrees(written(s)) => base[j][s] # row[s].merolagani \/ got[j][s] = 0
  <2>1. row[s] \in Row /\ got[j][s] \in Versions /\ base[j][s] \in Versions
    BY DEF Data
  <2>2. QED
    BY <2>1 DEF Row, Agrees
<1>2. NepseWritten(j) = [s \in Symbols |-> IF base[j][s] = 0 THEN row[s] ELSE written(s)]
  BY DEF NepseWritten
<1> HIDE DEF written
<1>3. QED
  BY <1>1, <1>2
Kept == \A s \in Symbols : Agrees(row[s]) /\ ~Agrees(row'[s]) => Overlapped(s)
Pages == <<daily, saved, outside>>
Logs == <<due, current>>
Work == <<got, base, locked>>

\* The logs have their types whatever is logged.
LEMMA LogsType ==
  ASSUME Data, NEW t \in {"merolagani", "nepse"}, NEW written \in BOOLEAN, LogIf(t, written)
  PROVE  due' \in [{"merolagani", "nepse"} -> BOOLEAN]
BY DEF Data, LogIf

\* Every step keeps the types, and a row in agreement unless two jobs overlap.
LEMMA DataStep == Control /\ Data /\ [Next]_vars => Data' /\ Kept
<1> SUFFICES ASSUME Control, Data, [Next]_vars PROVE Data' /\ Kept
  OBVIOUS
<1> DEFINE Good(rows) == /\ rows \in [Symbols -> Row]
                         /\ \A s \in Symbols : Agrees(row[s]) => Agrees(rows[s])
           PagesType == /\ daily \in Versions /\ saved \in BOOLEAN
                        /\ world \in Versions \ {0} /\ answering \in BOOLEAN /\ open \in BOOLEAN
                        /\ changes \in 0..MaxChanges
           LogsOK == due \in [{"merolagani", "nepse"} -> BOOLEAN] /\ current \in BOOLEAN
           WorkType == /\ got \in [Jobs -> [Symbols -> Versions]] /\ base \in [Jobs -> [Symbols -> Versions]]
                       /\ locked \subseteq Symbols
           Goal == Data' /\ Kept
<1>a. ASSUME Good(row'), PagesType', LogsOK', WorkType' PROVE Goal
  BY <1>a DEF Data, Kept
<1>b. ASSUME UNCHANGED row PROVE Good(row')
  BY <1>b DEF Data
<1>c. ASSUME UNCHANGED Pages PROVE PagesType'
  BY <1>c DEF Data, Pages, outside
<1>d. ASSUME UNCHANGED Logs PROVE LogsOK'
  BY <1>d DEF Data, Logs
<1>e. ASSUME UNCHANGED Work PROVE WorkType'
  BY <1>e DEF Data, Work
<1>f. ASSUME NEW t \in {"merolagani", "nepse"}, NEW written \in BOOLEAN, LogIf(t, written),
             current' \in BOOLEAN
      PROVE  LogsOK'
  BY <1>f, LogsType
<1>g. ASSUME NEW t \in {"merolagani", "nepse"}, NEW written \in BOOLEAN, LogIf(t, written),
             CurrentIf(written)
      PROVE  LogsOK'
  BY <1>g, LogsType DEF CurrentIf, Data
<1>h. Good(row) /\ Good(Bootstrapped) /\ Good(EnrichedOnLoop)
  BY BootstrappedRows, EnrichedRows DEF Data
<1>i. ASSUME NEW rows, Good(rows) PROVE Prices(rows) \in [Symbols -> Versions]
  BY <1>i DEF Prices, Row
<1>j. ASSUME NEW j \in Jobs, NEW rows, Good(rows), ToFetches(j, rows) PROVE base' \in [Jobs -> [Symbols -> Versions]]
  BY <1>i, <1>j DEF ToFetches, Data
<1>k. BootstrapLogs \in BOOLEAN /\ EnrichLogs \in BOOLEAN
  BY DEF BootstrapLogs, EnrichLogs
<1>l. 0 \in Versions /\ Nothing \in [Symbols -> Versions]
  BY ConstantsAssumption DEF Versions, Nothing
<1> HIDE DEF Good, PagesType, LogsOK, WorkType, Goal
<1> SUFFICES Goal
  BY DEF Goal
<1>1. CASE UNCHANGED vars
  BY <1>1, <1>a, <1>b, <1>c, <1>d, <1>e DEF vars, cache, Pages, Logs, Work
<1>2. CASE TickEnds \/ (\E j \in TickJobs : Counted(j)) \/ Probe \/ BootstrapBegins \/ BootstrapResumes \/ DailyResumes
  <2>1. UNCHANGED <<cache, outside, got, base, locked>>
    BY <1>2 DEF TickEnds, Counted, Probe, BootstrapBegins, BootstrapResumes, DailyResumes
  <2>2. QED
    BY <2>1, <1>a, <1>b, <1>c, <1>d, <1>e DEF cache, Pages, Logs, Work
<1>3. CASE Tick
  <2> DEFINE onLoop == MerolaganiDue /\ ~open /\ ~Empty
  <2>1. row' = IF onLoop THEN EnrichedOnLoop ELSE row
    BY <1>3 DEF Tick
  <2>2. Good(row')
    BY <2>1, <1>h
  <2>3. base' \in [Jobs -> [Symbols -> Versions]]
    <3>1. base' = base \/ base' = [base EXCEPT !["nepse"] = Prices(row')]
      BY <1>3, <2>1 DEF Tick
    <3>2. QED
      BY <3>1, <2>2, <1>i DEF Data
  <2>4. LogIf("merolagani", onLoop /\ EnrichLogs) /\ CurrentIf(onLoop /\ EnrichLogs)
    BY <1>3 DEF Tick
  <2>5. UNCHANGED Pages /\ UNCHANGED <<got, locked>>
    BY <1>3 DEF Tick, Pages
  <2>6. (onLoop /\ EnrichLogs) \in BOOLEAN
    OBVIOUS
  <2> HIDE DEF onLoop
  <2>7. QED
    BY <2>2, <2>3, <2>4, <2>5, <2>6, <1>a, <1>c, <1>g DEF WorkType, Data
<1>4. CASE CountedMerolagani
  <2> DEFINE onLoop == due["merolagani"] /\ ~open
  <2>1. row' = IF onLoop THEN EnrichedOnLoop ELSE row
    BY <1>4 DEF CountedMerolagani
  <2>2. LogIf("merolagani", onLoop /\ (BootstrapLogs \/ EnrichLogs)) /\ CurrentIf(onLoop /\ (BootstrapLogs \/ EnrichLogs))
    BY <1>4 DEF CountedMerolagani
  <2>3. UNCHANGED Pages /\ UNCHANGED Work
    BY <1>4 DEF CountedMerolagani, Pages, Work
  <2>4. Good(row')
    BY <2>1, <1>h
  <2>5. (onLoop /\ (BootstrapLogs \/ EnrichLogs)) \in BOOLEAN
    OBVIOUS
  <2> HIDE DEF onLoop
  <2>6. QED
    BY <2>2, <2>3, <2>4, <2>5, <1>a, <1>c, <1>e, <1>g
<1>5. CASE CountedNepse
  <2>1. UNCHANGED Pages /\ UNCHANGED <<got, locked>>
    BY <1>5 DEF CountedNepse, Pages
  <2>2. CASE due["nepse"] /\ open
    <3>1. /\ row' = Bootstrapped /\ LogIf("merolagani", BootstrapLogs) /\ CurrentIf(BootstrapLogs)
          /\ ToFetches("nepse", Bootstrapped)
      BY <1>5, <2>2 DEF CountedNepse
    <3>2. WorkType'
      BY <2>1, <3>1, <1>h, <1>j DEF WorkType, Data, Jobs, TickJobs
    <3>3. QED
      BY <2>1, <3>1, <3>2, <1>a, <1>c, <1>g, <1>h, <1>k
  <2>3. CASE ~(due["nepse"] /\ open)
    BY <1>5, <2>1, <2>3, <1>a, <1>b, <1>c, <1>d, <1>e DEF CountedNepse, Logs, Work
  <2>4. QED
    BY <2>2, <2>3
<1>6. ASSUME NEW j \in Jobs, SnapshotThread(j) PROVE Goal
  <2>1. daily' \in Versions /\ saved' \in BOOLEAN /\ current' \in BOOLEAN
    BY <1>6 DEF SnapshotThread, Data
  <2>2. UNCHANGED <<row, due, outside, got, base, locked>>
    BY <1>6 DEF SnapshotThread
  <2>3. QED
    BY <2>1, <2>2, <1>a, <1>b, <1>e DEF Data, PagesType, LogsOK, Work, outside
<1>7. ASSUME NEW j \in Jobs, ScrapeThread(j) \/ Fetched(j) PROVE Goal
  <2>1. PICK S \in SUBSET Symbols : got' = [got EXCEPT ![j] = [s \in Symbols |-> IF s \in S THEN world ELSE 0]]
    BY <1>7 DEF ScrapeThread, Fetched
  <2>2. UNCHANGED <<cache, outside, base, locked>>
    BY <1>7 DEF ScrapeThread, Fetched
  <2>3. [s \in Symbols |-> IF s \in S THEN world ELSE 0] \in [Symbols -> Versions]
    BY <1>l DEF Data
  <2>4. WorkType'
    BY <2>1, <2>2, <2>3 DEF Data, WorkType
  <2>5. QED
    BY <2>2, <2>4, <1>a, <1>b, <1>c, <1>d DEF cache, Pages, Logs
<1>8. CASE BootstrapReads
  <2>1. UNCHANGED <<cache, outside, base, locked>>
    BY <1>8 DEF BootstrapReads
  <2>2. SeedVersion \in Versions
    BY <1>l DEF SeedVersion, Data
  <2>3. got' = got \/ got' = [got EXCEPT !["bootstrap"] = [s \in Symbols |-> SeedVersion]]
    BY <1>8 DEF BootstrapReads
  <2>4. WorkType'
    BY <2>1, <2>2, <2>3 DEF Data, WorkType
  <2>5. QED
    BY <2>1, <2>4, <1>a, <1>b, <1>c, <1>d DEF cache, Pages, Logs
<1>9. CASE BootstrapWrites
  <2>1. PICK v \in {got["bootstrap"][s] : s \in Symbols} : row' = Seeded(v)
    BY <1>9 DEF BootstrapWrites
  <2>2. v \in Versions
    BY DEF Data, Jobs
  <2> DEFINE seeded(s) == [row[s] EXCEPT !.merolagani = v, !.shownMerolagani = v, !.shownNepse = 0]
  <2>3. ASSUME NEW s \in Symbols
        PROVE  seeded(s) \in Row /\ (~Agrees(seeded(s)) => row[s].nepse # 0)
    BY <2>2, <1>l DEF Data, Row, Agrees
  <2>4. row' = [s \in Symbols |-> seeded(s)]
    BY <2>1 DEF Seeded
  <2> HIDE DEF seeded
  <2>5. row' \in [Symbols -> Row] /\ Kept
    BY <2>3, <2>4, <1>9 DEF BootstrapWrites, Kept, Overlapped
  <2>6. LogIf("merolagani", TRUE) /\ CurrentIf(TRUE) /\ UNCHANGED Pages
        /\ UNCHANGED <<base, locked>> /\ got' = [got EXCEPT !["bootstrap"] = Nothing]
    BY <1>9 DEF BootstrapWrites, Pages
  <2>7. WorkType'
    BY <2>6, <1>l DEF Data, WorkType
  <2>8. LogsOK' /\ PagesType'
    BY <2>6, <1>c, <1>g
  <2>9. QED
    BY <2>5, <2>7, <2>8 DEF Goal, Data, WorkType, LogsOK, PagesType<1>10. ASSUME NEW s \in Symbols, EnrichReads(s) PROVE Goal
  <2>1. row[s] \in Row /\ Merged(row[s]) \in Versions /\ row[s].nepse \in Versions
    BY DEF Data, Merged, Row
  <2>2. got' = [got EXCEPT !["refresh"][s] = Merged(row[s])]
        /\ base' = [base EXCEPT !["refresh"][s] = row[s].nepse] /\ UNCHANGED <<cache, outside, locked>>
    BY <1>10 DEF EnrichReads
  <2>3. WorkType'
    BY <2>1, <2>2 DEF Data, WorkType
  <2>4. QED
    BY <2>2, <2>3, <1>a, <1>b, <1>c, <1>d DEF cache, Pages, Logs
<1>11. ASSUME NEW s \in Symbols, EnrichWrites(s) PROVE Goal
  <2>1. locked' = locked \cup {s} /\ UNCHANGED <<cache, outside, got, base>>
    BY <1>11 DEF EnrichWrites
  <2>2. WorkType'
    BY <2>1 DEF Data, WorkType
  <2>3. QED
    BY <2>1, <2>2, <1>a, <1>b, <1>c, <1>d DEF cache, Pages, Logs
<1>12. CASE EnrichCommits
  <2> DEFINE written(s) == [row[s] EXCEPT !.merolagani = got["refresh"][s],
                                          !.shownMerolagani = got["refresh"][s],
                                          !.shownNepse = base["refresh"][s]]
  <2>1. ASSUME NEW s \in Symbols
        PROVE  written(s) \in Row /\ (~Agrees(written(s)) => base["refresh"][s] # row[s].nepse)
    <3>1. row[s] \in Row /\ got["refresh"][s] \in Versions /\ base["refresh"][s] \in Versions
      BY DEF Data, Jobs
    <3>2. QED
      BY <3>1 DEF Row, Agrees
  <2>2. row' = [s \in Symbols |-> written(s)] /\ locked # {}
    BY <1>12, ConstantsAssumption DEF EnrichCommits
  <2> HIDE DEF written
  <2>3. row' \in [Symbols -> Row] /\ Kept
    BY <2>1, <2>2 DEF Kept, Overlapped
  <2>4. LogIf("merolagani", TRUE) /\ CurrentIf(TRUE) /\ UNCHANGED Pages /\ locked' = {}
        /\ got' = [got EXCEPT !["refresh"] = Nothing] /\ base' = [base EXCEPT !["refresh"] = Nothing]
    BY <1>12 DEF EnrichCommits, Pages
  <2>5. WorkType'
    BY <2>4, <1>l DEF Data, WorkType
  <2>6. LogsOK' /\ PagesType'
    BY <2>4, <1>c, <1>g
  <2>7. QED
    BY <2>3, <2>5, <2>6 DEF Goal, Data, WorkType, LogsOK, PagesType
<1>13. CASE EnrichSkips
  <2>1. row' = IF daily = 0 THEN row ELSE Bootstrapped
    BY <1>13 DEF EnrichSkips
  <2>2. LogIf("merolagani", Empty /\ daily # 0) /\ CurrentIf(Empty /\ daily # 0)
        /\ UNCHANGED Pages /\ UNCHANGED Work
    BY <1>13 DEF EnrichSkips, Pages, Work
  <2>3. (Empty /\ daily # 0) \in BOOLEAN
    OBVIOUS
  <2>4. LogsOK'
    BY <2>2, <2>3, <1>g
  <2>5. QED
    BY <2>1, <2>2, <2>4, <1>a, <1>c, <1>e, <1>h
<1>n. ASSUME NEW j \in Jobs, WriteScraped(j)
      PROVE  Good(row') /\ LogsOK' /\ got' \in [Jobs -> [Symbols -> Versions]] /\ Good(AfterScrape(got[j]))
  <2>1. got[j] \in [Symbols -> Versions] /\ ScrapeLogs(got[j]) \in BOOLEAN
    BY DEF Data, ScrapeLogs, BootstrapLogs
  <2>2. Good(AfterScrape(got[j]))
    BY <2>1, ScrapedRows DEF Good
  <2>3. got' \in [Jobs -> [Symbols -> Versions]]
    BY <1>n, <1>l DEF WriteScraped, Data
  <2>4. QED
    BY <1>n, <2>1, <2>2, <2>3, <1>g DEF WriteScraped
<1>14. CASE MerolaganiResumes
  <2>1. WriteScraped("merolagani") /\ UNCHANGED Pages /\ UNCHANGED <<base, locked>>
    BY <1>14 DEF MerolaganiResumes, Pages
  <2>2. Good(row') /\ LogsOK' /\ got' \in [Jobs -> [Symbols -> Versions]]
    BY <2>1, <1>n DEF Jobs, TickJobs
  <2>3. QED
    BY <2>1, <2>2, <1>a, <1>c DEF Data, WorkType
<1>15. ASSUME NEW holder, EnrichPart(holder) \/ ScreenerPart(holder), UNCHANGED <<daily, saved, outside, got, locked>>
       PROVE  Goal
  <2>1. UNCHANGED Pages
    BY <1>15 DEF Pages
  <2>2. CASE ScreenerPart(holder)
    <3>1. row' = Bootstrapped /\ LogIf("merolagani", BootstrapLogs) /\ CurrentIf(BootstrapLogs)
      BY <2>2 DEF ScreenerPart
    <3>2. UNCHANGED base \/ ToFetches("refresh", Bootstrapped)
      BY <2>2 DEF ScreenerPart
    <3>3. base' \in [Jobs -> [Symbols -> Versions]]
      BY <3>2, <1>h, <1>j DEF Data, Jobs
    <3>4. QED
      BY <1>15, <2>1, <3>1, <3>3, <1>a, <1>c, <1>g, <1>h, <1>k DEF Data, WorkType
  <2>3. CASE ~ScreenerPart(holder)
    <3>1. UNCHANGED <<row, due, current, base>>
      BY <1>15, <2>3 DEF EnrichPart
    <3>2. QED
      BY <1>15, <2>1, <3>1, <1>a, <1>b, <1>c, <1>d, <1>e DEF Logs, Work
  <2>4. QED
    BY <2>2, <2>3
<1>16. CASE RefreshStarts
  <2>1. CASE Free("refresh")
    <3>1. UNCHANGED <<row, due, current, base, daily, saved, outside, got, locked>>
      BY <1>16, <2>1 DEF RefreshStarts
    <3>2. QED
      BY <3>1, <1>a, <1>b, <1>c, <1>d, <1>e DEF Pages, Logs, Work
  <2>2. CASE ~Free("refresh")
    BY <1>15, <1>16, <2>2 DEF RefreshStarts
  <2>3. QED
    BY <2>1, <2>2
<1>17. CASE RefreshSnapshotted \/ RefreshEnriched
  BY <1>15, <1>17 DEF RefreshSnapshotted, RefreshEnriched
<1>18. CASE RefreshScraped
  <2>1. WriteScraped("refresh") /\ ToFetches("refresh", AfterScrape(got["refresh"]))
        /\ UNCHANGED <<daily, saved, outside, locked>>
    BY <1>18 DEF RefreshScraped
  <2>2. /\ Good(row') /\ LogsOK' /\ got' \in [Jobs -> [Symbols -> Versions]]
        /\ Good(AfterScrape(got["refresh"]))
    BY <2>1, <1>n DEF Jobs
  <2>3. base' \in [Jobs -> [Symbols -> Versions]]
    BY <2>1, <2>2, <1>j DEF Jobs
  <2>4. UNCHANGED Pages
    BY <2>1 DEF Pages
  <2>5. QED
    BY <2>1, <2>2, <2>3, <2>4, <1>a, <1>c DEF Data, WorkType
<1>19. ASSUME NEW j \in {"nepse", "refresh"}, NepseWrites(j) PROVE Goal
  <2>1. j \in Jobs
    BY DEF Jobs, TickJobs
  <2>2. /\ row' = NepseWritten(j) /\ LogIf("nepse", TRUE) /\ UNCHANGED <<daily, saved, current, outside, locked>>
        /\ got' = [got EXCEPT ![j] = Nothing] /\ base' = [base EXCEPT ![j] = Nothing]
        /\ phase[j] = "fetching" /\ phase'[j] = "idle"
    BY <1>19, <2>1 DEF NepseWrites, Control
  <2>3. row' \in [Symbols -> Row] /\ Kept
    BY <1>19, <2>1, <2>2, NepseRows DEF Kept, Overlapped
  <2>4. WorkType'
    BY <2>2, <1>l DEF Data, WorkType
  <2>5. LogsOK'
    BY <2>2, LogsType DEF Data, LogsOK
  <2>6. QED
    BY <2>2, <2>3, <2>4, <2>5, <1>c DEF Goal, Data, WorkType, LogsOK, PagesType, Pages
<1>20. CASE SchedulerCancelled
  <2>1. base' \in [Jobs -> [Symbols -> Versions]] /\ got' \in [Jobs -> [Symbols -> Versions]]
    BY <1>20, <1>l DEF SchedulerCancelled, Data
  <2>2. UNCHANGED <<cache, outside, locked>>
    BY <1>20 DEF SchedulerCancelled
  <2>3. WorkType'
    BY <2>1, <2>2 DEF Data, WorkType
  <2>4. QED
    BY <2>2, <2>3, <1>a, <1>b, <1>c, <1>d DEF cache, Pages, Logs
<1>21. CASE Outside
  <2>1. UNCHANGED <<row, daily, current, got, base, locked>>
    BY <1>21 DEF Outside
  <2>2. changes' \in 0..MaxChanges
    BY <1>21, ConstantsAssumption DEF Outside, Data
  <2>3. world' \in Versions \ {0} /\ answering' \in BOOLEAN /\ open' \in BOOLEAN /\ saved' \in BOOLEAN
        /\ due' \in [{"merolagani", "nepse"} -> BOOLEAN]
    <3>1. CASE PagesChange
      BY <3>1, ConstantsAssumption DEF PagesChange, Data, Versions
    <3>2. CASE PagesFailOrAnswer \/ MarketOpensOrCloses \/ NewDay
      BY <3>2 DEF PagesFailOrAnswer, MarketOpensOrCloses, NewDay, Data
    <3>3. CASE \E t \in DOMAIN due : TenMinutesPass(t)
      BY <3>3 DEF TenMinutesPass, Data
    <3>4. QED
      BY <1>21, <3>1, <3>2, <3>3 DEF Outside
  <2>4. QED
    BY <2>1, <2>2, <2>3, <1>a, <1>b, <1>e DEF Data, PagesType, LogsOK, Work
<1>22. QED
  BY <1>1, <1>2, <1>3, <1>4, <1>5, <1>6, <1>7, <1>8, <1>9, <1>10, <1>11, <1>12, <1>13, <1>14,
     <1>16, <1>17, <1>18, <1>19, <1>20, <1>21
  DEF Next, RefreshGoesOn, BootstrapTask, Jobs, TickJobs

\* Every variable keeps its type, for any symbols and bounds.
THEOREM TypeCorrect == Spec => []TypeOK
<1>1. Control /\ Data => TypeOK
  BY DEF Control, Data, TypeOK
<1>2. QED
  BY <1>1, ControlInit, ControlStep, DataInit, DataStep, PTL DEF Spec

\* However many symbols there are, and whatever the pages bring: the combined record of a row
\* that agreed with the records beside it still does after every step, unless that step ends
\* one of the three overlaps of two jobs.
THEOREM AgreementKept == Spec => DisagreesOnlyByOverlap
<1>1. Control /\ Data /\ [Next]_vars
        => [\A s \in Symbols : Agrees(row[s]) /\ ~Agrees(row'[s]) => Overlapped(s)]_vars
  BY DataStep DEF Kept
<1>2. QED
  BY <1>1, ControlInit, ControlStep, DataInit, DataStep, PTL DEF Spec, DisagreesOnlyByOverlap

-----------------------------------------------------------------------------
(* The history of trades: numbers.                                         *)

\* Natural numbers have a least element wherever they have one.
LEMMA LeastExists ==
  ASSUME NEW S, S \subseteq Nat, S # {}
  PROVE  \E m \in S : \A n \in S : m <= n
<1> DEFINE Under(n) == {k \in Nat : k < n}
           T == {Under(n) : n \in S}
<1>1. ASSUME NEW n \in S PROVE Under(n) \in FiniteSubsetsOf(Nat)
  <2>1. n \in Nat /\ Under(n) \in SUBSET Nat /\ \A s \in Under(n) : s <= n
    OBVIOUS
  <2>2. IsFiniteSet(Under(n))
    <3> HIDE DEF Under
    <3> QED BY <2>1, FS_BoundedSetOfNaturals
  <2>3. QED
    BY <2>1, <2>2 DEF FiniteSubsetsOf
<1>2. T \subseteq FiniteSubsetsOf(Nat) /\ T # {}
  BY <1>1
<1>3. IsWellFoundedOn(StrictSubsetOrdering(Nat), FiniteSubsetsOf(Nat))
  BY FS_StrictSubsetOrderingWellFounded
<1>4. \E x \in T : \A y \in T : ~(<<y, x>> \in StrictSubsetOrdering(Nat))
  <2> HIDE DEF T
  <2> QED BY <1>2, <1>3, WFMin
<1>5. PICK m \in S : \A n \in S : ~(<<Under(n), Under(m)>> \in StrictSubsetOrdering(Nat))
  BY <1>4
<1>6. ASSUME NEW n \in S, n < m PROVE FALSE
  <2>1. m \in Nat /\ n \in Nat
    OBVIOUS
  <2>2. Under(n) \subseteq Under(m) /\ n \in Under(m) /\ n \notin Under(n)
    BY <2>1, <1>6
  <2>3. <<Under(n), Under(m)>> \in StrictSubsetOrdering(Nat)
    BY <2>1, <2>2 DEF StrictSubsetOrdering
  <2>4. QED
    BY <2>3, <1>5
<1>7. QED
  BY <1>6

\* Division by a positive number.
LEMMA Division ==
  ASSUME NEW a \in Nat, NEW b \in Nat, b > 0
  PROVE  /\ a \div b \in Nat /\ a % b \in 0..(b - 1)
         /\ a = b * (a \div b) + (a % b)
OBVIOUS

\* A quotient by its bounds.
LEMMA Quotient ==
  ASSUME NEW a \in Nat, NEW b \in Nat, b > 0, NEW q \in Nat, b * q <= a, a < b * (q + 1)
  PROVE  a \div b = q /\ a % b = a - b * q
<1>1. a \div b \in Nat /\ a = b * (a \div b) + (a % b) /\ a % b \in 0..(b - 1)
  BY Division
<1>2. b * (a \div b) < b * (q + 1) /\ b * q < b * (a \div b + 1)
  BY <1>1
<1>3. \A x, y \in Nat : b * x < b * y => x < y
  OBVIOUS
<1>4. a \div b < q + 1 /\ q < a \div b + 1
  BY <1>1, <1>2, <1>3
<1>5. QED
  BY <1>1, <1>4

-----------------------------------------------------------------------------
(* Ranges, weeks and years.                                                *)

Ranges == Nat \X Nat
Holds(range, d) == d \in range[1]..range[2]

\* Of some ranges one is the first.
LEMMA FirstIn ==
  ASSUME NEW R, R \subseteq Ranges, R # {}
  PROVE  First(R) \in R
<1> DEFINE S == {x[1] : x \in R}
<1>1. S \subseteq Nat /\ S # {}
  BY DEF Ranges
<1>2. PICK m \in S : \A n \in S : m <= n
  <2> HIDE DEF S
  <2> QED BY <1>1, LeastExists
<1>3. \E x \in R : \A y \in R : x[1] <= y[1]
  BY <1>2
<1>4. QED
  BY <1>3 DEF First

\* The weeks of a range lie in it and hold each of its days.
LEMMA WeeksInside ==
  ASSUME NEW range \in Ranges, NEW week \in Weeks(range)
  PROVE  /\ week \in Ranges
         /\ range[1] <= week[1] /\ week[1] <= week[2] /\ week[2] <= range[2]
<1>1. range[1] \in Nat /\ range[2] \in Nat /\ WeekDays \in Nat \ {0}
  BY TradebookAssumption DEF Ranges
<1>2. PICK d \in range[1]..range[2] : week = <<d, Smaller(d + WeekDays - 1, range[2])>>
  BY DEF Weeks
<1>3. QED
  BY <1>1, <1>2 DEF Smaller, Ranges

LEMMA WeeksCover ==
  ASSUME NEW range \in Ranges, NEW d \in range[1]..range[2]
  PROVE  \E week \in Weeks(range) : Holds(week, d)
<1> DEFINE a == d - range[1]
           e == range[1] + WeekDays * (a \div WeekDays)
<1>1. range[1] \in Nat /\ range[2] \in Nat /\ WeekDays \in Nat \ {0} /\ d \in Nat /\ a \in Nat
  BY TradebookAssumption DEF Ranges
<1>2. /\ a \div WeekDays \in Nat /\ a % WeekDays \in 0..(WeekDays - 1)
      /\ a = WeekDays * (a \div WeekDays) + (a % WeekDays)
  <2> HIDE DEF a
  <2> QED BY <1>1, Division
<1>3. WeekDays * (a \div WeekDays) \in Nat
  BY <1>1, <1>2
<1>4. e \in range[1]..range[2] /\ e <= d /\ d <= e + WeekDays - 1
  <2>1. d = range[1] + a
    BY <1>1
  <2>2. \A w, q, m, b, x, y \in Nat :
          w # 0 /\ m \in 0..(w - 1) /\ b = q + m /\ x + b <= y
            => x + q \in x..y /\ x + q <= x + b /\ x + b <= x + q + w - 1
    OBVIOUS
  <2>3. QED
    <3> HIDE DEF a
    <3> QED BY <1>1, <1>2, <1>3, <2>1, <2>2
<1>5. (e - range[1]) % WeekDays = 0
  <2>1. e - range[1] = WeekDays * (a \div WeekDays)
    BY <1>1, <1>3
  <2>2. \A q, w \in Nat : w # 0 => (w * q) % w = 0
    OBVIOUS
  <2>3. QED
    BY <2>1, <2>2, <1>1, <1>2
<1>6. <<e, Smaller(e + WeekDays - 1, range[2])>> \in Weeks(range)
  <2> HIDE DEF e
  <2> QED BY <1>4, <1>5 DEF Weeks
<1>7. Holds(<<e, Smaller(e + WeekDays - 1, range[2])>>, d)
  <2> HIDE DEF e, a
  <2> QED BY <1>1, <1>4 DEF Holds, Smaller
<1>8. QED
  BY <1>6, <1>7

\* So do the years.
LEMMA YearsInside ==
  ASSUME NEW range \in Ranges
  PROVE  Years(range) \subseteq Ranges
<1>1. range[1] \in Nat /\ range[2] \in Nat /\ YearDays \in Nat \ {0}
  BY TradebookAssumption DEF Ranges
<1>2. ASSUME NEW d \in range[1]..range[2]
      PROVE  <<d, Smaller(((d - 1) \div YearDays + 1) * YearDays, range[2])>> \in Ranges
  <2>1. CASE d = 0
    <3>1. \A y \in Nat \ {0} : ((0 - 1) \div y + 1) * y = 0
      OBVIOUS
    <3>2. QED
      BY <1>1, <2>1, <3>1 DEF Smaller, Ranges
  <2>2. CASE d # 0
    <3>1. d - 1 \in Nat /\ d \in Nat
      BY <1>1, <2>2
    <3>2. (d - 1) \div YearDays \in Nat
      BY <1>1, <3>1, Division
    <3>3. ((d - 1) \div YearDays + 1) * YearDays \in Nat
      BY <1>1, <3>2
    <3>4. QED
      BY <1>1, <3>1, <3>3 DEF Smaller, Ranges
  <2>3. QED
    BY <2>1, <2>2
<1>3. QED
  BY <1>2 DEF Years

LEMMA YearsCover ==
  ASSUME NEW range \in Ranges, NEW d \in range[1]..range[2], d # 0
  PROVE  \E year \in Years(range) : Holds(year, d)
<1> DEFINE q == (d - 1) \div YearDays
           s == YearDays * q + 1
           c == IF s < range[1] THEN range[1] ELSE s
<1>1. range[1] \in Nat /\ range[2] \in Nat /\ YearDays \in Nat /\ YearDays > 1 /\ d - 1 \in Nat /\ d \in Nat
  BY TradebookAssumption DEF Ranges
<1>2. /\ q \in Nat /\ (d - 1) % YearDays \in 0..(YearDays - 1)
      /\ d - 1 = YearDays * q + ((d - 1) % YearDays)
  BY <1>1, Division
<1>3. YearDays * q \in Nat /\ YearDays * (q + 1) = YearDays * q + YearDays /\ (q + 1) * YearDays = YearDays * (q + 1)
  BY <1>1, <1>2
<1>4. CASE range[2] - range[1] <= YearDays
  BY <1>4 DEF Years, Holds
<1>5. CASE ~(range[2] - range[1] <= YearDays)
  <2>1. c \in range[1]..range[2] /\ c <= d /\ s <= c
    <3> HIDE DEF q
    <3> QED BY <1>1, <1>2, <1>3
  <2>2. c = range[1] \/ c % YearDays = 1
    <3>1. s \in Nat /\ YearDays * q <= s /\ s < YearDays * (q + 1) /\ s - YearDays * q = 1
      <4> HIDE DEF q
      <4> QED BY <1>1, <1>2, <1>3
    <3>2. s % YearDays = 1
      <4> HIDE DEF q, s
      <4> QED BY <1>1, <1>2, <3>1, Quotient
    <3>3. QED
      BY <3>2
  <2>3. c # 0 /\ (c - 1) \div YearDays = q
    <3>1. c \in Nat /\ c # 0 /\ c - 1 \in Nat
      BY <1>1, <1>2, <1>3, <2>1
    <3>2. YearDays * q <= c - 1 /\ c - 1 < YearDays * (q + 1)
      <4> HIDE DEF q
      <4> QED BY <1>1, <1>2, <1>3, <2>1, <3>1
    <3>3. QED
      <4> HIDE DEF q, c
      <4> QED BY <1>1, <1>2, <3>1, <3>2, Quotient
  <2>4. <<c, Smaller(((c - 1) \div YearDays + 1) * YearDays, range[2])>> \in Years(range)
    <3> HIDE DEF c
    <3> QED BY <1>5, <2>1, <2>2 DEF Years
  <2>5. d <= (q + 1) * YearDays
    <3> HIDE DEF q
    <3> QED BY <1>1, <1>2, <1>3
  <2>6. Holds(<<c, Smaller((q + 1) * YearDays, range[2])>>, d)
    <3> HIDE DEF q, c
    <3> QED BY <1>1, <1>2, <1>3, <2>1, <2>5 DEF Holds, Smaller
  <2>7. QED
    <3> HIDE DEF q, c
    <3> QED BY <2>3, <2>4, <2>6
<1>6. QED
  BY <1>4, <1>5

\* What is fetched are ranges.
LEMMA StaleInside ==
  ASSUME NEW range \in Ranges, NEW force
  PROVE  /\ StaleRanges(range, force) \subseteq Ranges
         /\ \A week \in Stale(range, force) : week \in Ranges /\ week[1] <= week[2] /\ week[2] <= range[2]
<1>1. \A week \in Stale(range, force) : week \in Ranges /\ week[1] <= week[2] /\ week[2] <= range[2]
  BY WeeksInside DEF Stale
<1>2. QED
  BY <1>1 DEF StaleRanges, Ranges

\* Every stale week is part of a range that is fetched.
LEMMA StaleCovered ==
  ASSUME NEW range \in Ranges, NEW force, NEW week \in Stale(range, force)
  PROVE  \E run \in StaleRanges(range, force) : run[1] <= week[1] /\ week[2] <= run[2]
<1> DEFINE stale == Stale(range, force)
           Starts == {a \in Nat : a <= week[1] /\ Joined(stale, a, week[2])}
           Ends == {b \in week[2]..range[2] : Joined(stale, week[1], b)}
           Rests == {range[2] - b : b \in Ends}
<1>1. \A w \in stale : w[1] \in Nat /\ w[2] \in Nat /\ w[1] <= w[2] /\ w[2] <= range[2]
  BY StaleInside DEF Ranges
<1>2. week[1] \in Nat /\ week[2] \in Nat /\ range[2] \in Nat /\ week[1] <= week[2] /\ week[2] <= range[2]
  BY <1>1 DEF Ranges
<1>3. Joined(stale, week[1], week[2])
  BY DEF Joined
<1>4. PICK a \in Starts : \A n \in Starts : a <= n
  <2>1. Starts \subseteq Nat /\ Starts # {}
    BY <1>2, <1>3
  <2>2. QED
    <3> HIDE DEF Starts
    <3> QED BY <2>1, LeastExists
<1>5. PICK b \in Ends : \A n \in Ends : n <= b
  <2>1. Rests \subseteq Nat /\ Rests # {}
    BY <1>2, <1>3
  <2>2. PICK r \in Rests : \A n \in Rests : r <= n
    <3> HIDE DEF Rests
    <3> QED BY <2>1, LeastExists
  <2>3. PICK b \in Ends : r = range[2] - b
    BY <2>2
  <2>4. \A n \in Ends : range[2] - b <= range[2] - n
    BY <2>2, <2>3
  <2>5. b \in Nat /\ \A n \in Ends : n \in Nat
    BY <1>2
  <2>6. \A n \in Ends : n <= b
    BY <2>4, <2>5, <1>2
  <2>7. QED
    BY <2>6
<1>6. a \in Nat /\ a <= week[1] /\ Joined(stale, a, week[2])
  OBVIOUS
<1>7. b \in Nat /\ week[2] <= b /\ b <= range[2] /\ Joined(stale, week[1], b)
  BY <1>2
<1> HIDE DEF stale
<1>8. PICK v \in stale : a \in v[1]..v[2]
  BY <1>2, <1>6 DEF Joined
<1>9. v[1] = a
  <2>1. Joined(stale, v[1], week[2])
    BY <1>1, <1>2, <1>6, <1>8 DEF Joined
  <2>2. v[1] \in Starts
    BY <1>1, <1>6, <1>8, <2>1, <1>2
  <2>3. a <= v[1]
    <3> HIDE DEF Starts
    <3> QED BY <1>4, <2>2
  <2>4. QED
    BY <2>3, <1>1, <1>8, <1>6
<1>10. PICK u \in stale : b \in u[1]..u[2]
  BY <1>2, <1>7 DEF Joined
<1>11. u[2] = b
  <2>1. Joined(stale, week[1], u[2])
    BY <1>1, <1>2, <1>7, <1>10 DEF Joined
  <2>2. u[2] \in Ends
    BY <1>1, <1>7, <1>10, <2>1, <1>2
  <2>3. u[2] <= b
    <3> HIDE DEF Ends
    <3> QED BY <1>5, <2>2
  <2>4. QED
    BY <2>3, <1>1, <1>10, <1>7
<1>12. Joined(stale, a, b)
  BY <1>2, <1>6, <1>7 DEF Joined
<1>13. ~Joined(stale, a - 1, b)
  <2>1. SUFFICES ASSUME Joined(stale, a - 1, b) PROVE FALSE
    OBVIOUS
  <2>2. PICK w \in stale : a - 1 \in w[1]..w[2]
    BY <2>1, <1>2, <1>6, <1>7 DEF Joined
  <2>3. a - 1 \in Nat
    BY <2>2, <1>1, <1>6
  <2>4. Joined(stale, a - 1, week[2])
    BY <2>1, <1>2, <1>6, <1>7 DEF Joined
  <2>5. a - 1 \in Starts
    BY <2>3, <2>4, <1>6, <1>2
  <2>6. a <= a - 1
    <3> HIDE DEF Starts
    <3> QED BY <1>4, <2>5
  <2>7. QED
    BY <2>6, <1>6
<1>14. ~Joined(stale, a, b + 1)
  <2>1. SUFFICES ASSUME Joined(stale, a, b + 1) PROVE FALSE
    OBVIOUS
  <2>2. PICK w \in stale : b + 1 \in w[1]..w[2]
    BY <2>1, <1>2, <1>6, <1>7 DEF Joined
  <2>3. b + 1 \in Nat /\ b + 1 <= range[2]
    BY <2>2, <1>1, <1>2, <1>7
  <2>4. Joined(stale, week[1], b + 1)
    BY <2>1, <1>2, <1>6, <1>7 DEF Joined
  <2>5. b + 1 \in Ends
    BY <2>3, <2>4, <1>7, <1>2
  <2>6. b + 1 <= b
    <3> HIDE DEF Ends
    <3> QED BY <1>5, <2>5
  <2>7. QED
    BY <2>6, <1>7
<1>15. <<a, b>> \in StaleRanges(range, force)
  BY <1>2, <1>6, <1>7, <1>8, <1>9, <1>10, <1>11, <1>12, <1>13, <1>14 DEF StaleRanges, stale
<1>16. QED
  BY <1>15, <1>6, <1>7

-----------------------------------------------------------------------------
(* Pages: the place of a trade in the list of the broker.                  *)

\* The broker's order is total.
LEMMA BrokerOrder ==
  ASSUME NEW t \in Trades, NEW u \in Trades
  PROVE  /\ t = u \/ Before(t, u) \/ Before(u, t)
         /\ ~(Before(t, u) /\ Before(u, t)) /\ ~Before(t, t)
         /\ \A w \in Trades : Before(t, u) /\ Before(u, w) => Before(t, w)
<1>1. \A x \in Trades : x.id \in Nat /\ x.date \in Nat
  BY TradebookAssumption
<1>2. t.id = u.id => t = u
  BY TradebookAssumption
<1>3. QED
  BY <1>1, <1>2 DEF Before

LEMMA FiniteTrades ==
  ASSUME NEW S, S \subseteq Trades
  PROVE  /\ IsFiniteSet(S) /\ Cardinality(S) \in Nat
         /\ Cardinality(S) < MaxPages * PageSize
<1>1. IsFiniteSet(Trades) /\ Cardinality(Trades) < MaxPages * PageSize
  BY TradebookAssumption
<1>2. IsFiniteSet(S) /\ Cardinality(S) <= Cardinality(Trades)
  BY <1>1, FS_Subset
<1>3. Cardinality(S) \in Nat /\ Cardinality(Trades) \in Nat
  BY <1>1, <1>2, FS_CardinalityType
<1>4. MaxPages * PageSize \in Nat
  BY TradebookAssumption
<1>5. QED
  BY <1>1, <1>2, <1>3, <1>4

\* Places count from one to the length of the list.
LEMMA PlaceInside ==
  ASSUME NEW S, S \subseteq Trades, NEW t \in S
  PROVE  Place(t, S) \in 1..Cardinality(S)
<1>1. IsFiniteSet(S) /\ Cardinality(S) \in Nat
  BY FiniteTrades
<1>2. Newer(t, S) \in SUBSET S /\ t \in Newer(t, S)
  BY DEF Newer
<1>3. IsFiniteSet(Newer(t, S)) /\ Cardinality(Newer(t, S)) <= Cardinality(S)
  BY <1>1, <1>2, FS_Subset
<1>4. Cardinality(Newer(t, S)) \in Nat /\ Cardinality(Newer(t, S)) # 0
  BY <1>2, <1>3, FS_CardinalityType, FS_EmptySet
<1>5. QED
  BY <1>1, <1>3, <1>4 DEF Place

\* What is traded meanwhile moves a trade back.
LEMMA PlaceGrows ==
  ASSUME NEW S, NEW T, S \subseteq T, T \subseteq Trades, NEW t \in S
  PROVE  Place(t, S) <= Place(t, T)
<1>1. Newer(t, S) \in SUBSET Newer(t, T) /\ Newer(t, T) \subseteq Trades
  BY DEF Newer
<1>2. IsFiniteSet(Newer(t, T))
  BY <1>1, FiniteTrades
<1>3. QED
  BY <1>1, <1>2, FS_Subset DEF Place

\* No two trades share a place.
LEMMA PlaceApart ==
  ASSUME NEW S, S \subseteq Trades, NEW t \in S, NEW u \in S, Place(t, S) = Place(u, S)
  PROVE  t = u
<1>1. ASSUME NEW x \in S, NEW y \in S, Before(x, y) PROVE Place(x, S) # Place(y, S)
  <2>1. x \in Trades /\ y \in Trades
    OBVIOUS
  <2>2. \A w \in S : Before(y, w) => Before(x, w)
    BY <1>1, <2>1, BrokerOrder
  <2>3. Newer(y, S) \in SUBSET Newer(x, S)
    BY <1>1, <2>2 DEF Newer
  <2>4. x \in Newer(x, S) /\ x \notin Newer(y, S)
    BY <1>1, <2>1, BrokerOrder DEF Newer
  <2>5. IsFiniteSet(Newer(x, S))
    <3>1. Newer(x, S) \subseteq Trades
      BY DEF Newer
    <3>2. QED
      BY <3>1, FiniteTrades
  <2>6. QED
    BY <2>3, <2>4, <2>5, FS_Subset DEF Place
<1>2. t \in Trades /\ u \in Trades
  OBVIOUS
<1>3. QED
  BY <1>1, <1>2, BrokerOrder

\* A page with a trade behind it is full.
LEMMA FullPage ==
  ASSUME NEW S, S \subseteq Trades, style # "all", NEW n \in Nat \ {0},
         NEW t \in S, Place(t, S) > n * PageSize
  PROVE  Cardinality(PageOf(S, n)) = PageSize
<1> DEFINE c == Cardinality(S)
           f == [u \in S |-> Place(u, S)]
           lo == (n - 1) * PageSize
           rows == PageOf(S, n)
           g == [u \in rows |-> Place(u, S)]
<1>1. IsFiniteSet(S) /\ c \in Nat /\ PageSize \in Nat /\ PageSize > 0
  BY FiniteTrades, TradebookAssumption
<1>2. f \in Injection(S, 1..c)
  <2>1. f \in [S -> 1..c]
    BY PlaceInside
  <2>2. \A x, y \in S : f[x] = f[y] => x = y
    BY PlaceApart
  <2>3. QED
    BY <2>1, <2>2, Zenon DEF Injection, IsInjective
<1>3. IsFiniteSet(1..c) /\ Cardinality(1..c) = c
  BY <1>1, FS_Interval
<1>4. f \in Surjection(S, 1..c)
  <2> HIDE DEF f
  <2> QED BY <1>1, <1>2, <1>3, FS_Injection
<1>5. lo \in Nat /\ lo + PageSize = n * PageSize
  <2>1. \A m \in Nat \ {0} : \A p \in Nat : (m - 1) * p \in Nat /\ (m - 1) * p + p = m * p
    OBVIOUS
  <2>2. QED
    BY <1>1, <2>1
<1>6. lo + PageSize < c
  <2>1. Place(t, S) \in 1..c
    BY PlaceInside
  <2>2. QED
    <3> HIDE DEF lo
    <3> QED BY <2>1, <1>1, <1>5
<1>7. \A u \in S : u \in rows <=> Place(u, S) \in (lo + 1)..(lo + PageSize)
  <2> SUFFICES ASSUME NEW u \in S PROVE u \in rows <=> Place(u, S) \in (lo + 1)..(lo + PageSize)
    OBVIOUS
  <2> DEFINE p == Place(u, S) - 1
  <2>1. p \in Nat /\ Place(u, S) \in Nat
    <3>1. Place(u, S) \in 1..c
      BY PlaceInside
    <3>2. QED
      BY <3>1, <1>1
  <2>2. u \in rows <=> p \div PageSize = n - 1
    BY DEF PageOf
  <2>3. ASSUME p \div PageSize = n - 1 PROVE lo <= p /\ p < lo + PageSize
    <3>1. p % PageSize \in 0..(PageSize - 1) /\ p = PageSize * (n - 1) + (p % PageSize)
      <4> HIDE DEF p
      <4> QED BY <2>1, <2>3, <1>1, Division
    <3>2. PageSize * (n - 1) = lo
      BY <1>1
    <3>3. QED
      <4> HIDE DEF p, lo
      <4> QED BY <3>1, <3>2, <1>1, <1>5, <2>1
  <2>4. ASSUME lo <= p, p < lo + PageSize PROVE p \div PageSize = n - 1
    <3>1. PageSize * (n - 1) = lo /\ PageSize * ((n - 1) + 1) = lo + PageSize /\ n - 1 \in Nat
      BY <1>1, <1>5
    <3>2. QED
      <4> HIDE DEF p, lo
      <4> QED BY <2>1, <2>4, <1>1, <3>1, Quotient
  <2>5. QED
    <3> HIDE DEF lo, rows
    <3> QED BY <2>1, <2>2, <2>3, <2>4, <1>1, <1>5
<1>8. rows \subseteq S
  BY DEF PageOf
<1>9. g \in Bijection(rows, (lo + 1)..(lo + PageSize))
  <2>1. g \in [rows -> (lo + 1)..(lo + PageSize)]
    <3> HIDE DEF rows, lo
    <3> QED BY <1>7, <1>8
  <2>2. \A x, y \in rows : g[x] = g[y] => x = y
    <3> HIDE DEF rows
    <3> QED BY <1>8, PlaceApart
  <2>3. ASSUME NEW k \in (lo + 1)..(lo + PageSize) PROVE \E u \in rows : g[u] = k
    <3>1. k \in 1..c
      <4> HIDE DEF lo, c
      <4> QED BY <1>1, <1>5, <1>6
    <3>2. PICK u \in S : f[u] = k
      <4> HIDE DEF f, c
      <4> QED BY <3>1, <1>4 DEF Surjection
    <3>3. u \in rows
      <4> HIDE DEF rows, lo
      <4> QED BY <3>2, <1>7
    <3>4. QED
      <4> HIDE DEF rows
      <4> QED BY <3>2, <3>3
  <2>4. QED
    <3> HIDE DEF g, rows, lo
    <3> QED BY <2>1, <2>2, <2>3, Zenon DEF Bijection, Injection, Surjection, IsInjective
<1>10. IsFiniteSet((lo + 1)..(lo + PageSize)) /\ Cardinality((lo + 1)..(lo + PageSize)) = PageSize
  <2> DEFINE a == lo + 1
             b == lo + PageSize
  <2>1. a \in Int /\ b \in Int /\ b - a + 1 = PageSize /\ ~(a > b)
    <3> HIDE DEF lo
    <3> QED BY <1>1, <1>5
  <2>2. IsFiniteSet(a..b) /\ Cardinality(a..b) = PageSize
    <3> HIDE DEF a, b
    <3> QED BY <2>1, FS_Interval
  <2>3. QED
    BY <2>2
<1>11. IsFiniteSet(rows)
  BY <1>1, <1>8, FS_Subset
<1>12. QED
  <2>1. ExistsBijection(rows, (lo + 1)..(lo + PageSize))
    <3> HIDE DEF g, rows, lo
    <3> QED BY <1>9 DEF ExistsBijection
  <2>2. Cardinality(rows) = PageSize
    <3> HIDE DEF g, rows, lo
    <3> QED BY <1>10, <1>11, <2>1, FS_Bijection
  <2>3. QED
    BY <2>2

-----------------------------------------------------------------------------
(* The inductive invariant.                                                *)

\* A request took its first look on this day; what is older can no longer change.
Began(r) == IF job[r].late THEN day - 1 ELSE day
Reads(r) == job[r].stage = "reading"
ToFetch(r) == First(job[r].left)
Listing(r) == Within(made, First(job[r].pieces))

JobRecord ==
  [stage : {"idle", "reading"}, late : BOOLEAN, since : Nat, left : SUBSET Ranges,
   pages : Seq(SUBSET made), rows : SUBSET made, pieces : SUBSET Ranges]
JobType == job \in [Requests -> JobRecord]
CalendarOK ==
  /\ day \in HistoryStart..LastDay /\ day \in Nat \ {0}
  /\ made \subseteq Trades /\ \A t \in made : t.date \in 1..day
MarksType == \A range \in DOMAIN marks : range \in Ranges /\ range[1] <= range[2] /\ marks[range] \in HistoryStart..day

\* Who reads has a range to read; a request that is to store holdings reads, since it began.
WorkOK(r) ==
  /\ Reads(r) <=> job[r].left # {}
  /\ job[r].since # 0 => Reads(r) /\ job[r].since = Began(r)

\* The old trades of the range that is fetched have been read or are in a year still to be read.
RangeRead(r) ==
  Reads(r) => \A t \in Within(made, ToFetch(r)) :
                t.date < Began(r) => t \in job[r].rows \/ \E piece \in job[r].pieces : Holds(piece, t.date)

\* The pages read of a year were none of them its last one, by the count then and by any later
\* count; its old trades are on them or still behind them in the list.
PagesRead(r) ==
  Reads(r) /\ job[r].pieces # {} =>
    LET n == Len(job[r].pages) IN
    /\ \A k \in 1..n : job[r].pages[k] # {} /\ Cardinality(job[r].pages[k]) = PageSize
    /\ n # 0 => TotalOf(Listing(r)) = 0 \/ n < TotalOf(Listing(r))
    /\ \A t \in Listing(r) :
         t.date < Began(r) => \/ \E k \in 1..n : t \in job[r].pages[k]
                              \/ Place(t, Listing(r)) > n * PageSize

\* What the holdings are to count is stored or in a range still to be fetched.
HistoryRead(r) ==
  job[r].since # 0 =>
    \A t \in made : Usable(t) /\ t.date < job[r].since - RefreshDays =>
                      t \in tradeCache \/ \E range \in job[r].left : Holds(range, t.date)

StoresOK ==
  /\ tradeCache \subseteq {t \in made : Usable(t)}
  /\ holdingsCache \in [since : Nat, basis : SUBSET tradeCache] /\ holdingsCache.since <= day

IInv ==
  /\ CalendarOK /\ JobType /\ MarksType /\ StoresOK
  /\ MarkedIsStored /\ SettledTradesCounted
  /\ \A r \in Requests : WorkOK(r) /\ RangeRead(r) /\ PagesRead(r) /\ HistoryRead(r)

-----------------------------------------------------------------------------
(* Requests.                                                               *)

\* A request that turns to new ranges.
LEMMA ReadingIs ==
  ASSUME NEW j \in JobRecord, NEW ranges, ranges \subseteq Ranges, ranges # {}
  PROVE  /\ Reading(j, ranges) \in JobRecord
         /\ Reading(j, ranges).stage = "reading" /\ Reading(j, ranges).left = ranges
         /\ Reading(j, ranges).pieces = Years(First(ranges))
         /\ Reading(j, ranges).pages = <<>>
         /\ Reading(j, ranges).late = j.late /\ Reading(j, ranges).since = j.since
<1>1. First(ranges) \in Ranges
  BY FirstIn
<1>2. Years(First(ranges)) \subseteq Ranges
  BY <1>1, YearsInside
<1>3. <<>> \in Seq(SUBSET made)
  OBVIOUS
<1>4. QED
  BY <1>2, <1>3 DEF Reading, JobRecord

\* Every trade of a year stands behind no page at all.
LEMMA BehindNone ==
  ASSUME NEW S, S \subseteq Trades, NEW t \in S
  PROVE  Place(t, S) > 0 * PageSize
<1>1. Place(t, S) \in 1..Cardinality(S) /\ Cardinality(S) \in Nat
  BY PlaceInside, FiniteTrades
<1>2. QED
  BY <1>1, TradebookAssumption

\* Nothing is read then, and everything is to be read.
LEMMA ReadingStarts ==
  ASSUME NEW r \in Requests, NEW ranges, ranges \subseteq Ranges, ranges # {},
         job'[r].left = ranges, job'[r].pieces = Years(First(ranges)), job'[r].pages = <<>>, CalendarOK'
  PROVE  RangeRead(r)' /\ PagesRead(r)'
<1>1. First(ranges) \in Ranges
  BY FirstIn
<1>2. ASSUME NEW t \in Within(made', First(ranges))
      PROVE  \E piece \in Years(First(ranges)) : Holds(piece, t.date)
  <2>1. t.date \in First(ranges)[1]..First(ranges)[2] /\ t.date # 0
    BY DEF Within, CalendarOK
  <2>2. QED
    BY <1>1, <2>1, YearsCover
<1>3. RangeRead(r)'
  BY <1>2 DEF RangeRead, ToFetch
<1>4. ASSUME NEW t \in Listing(r)' PROVE Place(t, Listing(r)') > 0 * PageSize
  <2>1. Listing(r)' \subseteq Trades
    BY DEF Listing, Within, CalendarOK
  <2>2. QED
    BY <2>1, BehindNone
<1>5. Len(job'[r].pages) = 0
  OBVIOUS
<1>6. PagesRead(r)'
  BY <1>4, <1>5 DEF PagesRead
<1>7. QED
  BY <1>3, <1>6

\* A step of one request leaves the others where they are.
LEMMA OneRequestKeeps ==
  ASSUME IInv, NEW r \in Requests, NEW j \in JobRecord, job' = [job EXCEPT ![r] = j],
         UNCHANGED <<day, made, style>>, tradeCache \subseteq tradeCache',
         MarksType', StoresOK', MarkedIsStored', SettledTradesCounted',
         WorkOK(r)', RangeRead(r)', PagesRead(r)', HistoryRead(r)'
  PROVE  IInv'
<1>1. CalendarOK' /\ JobType'
  <2>1. JobRecord' = JobRecord
    BY DEF JobRecord
  <2>2. QED
    BY <2>1 DEF IInv, CalendarOK, JobType
<1>2. ASSUME NEW q \in Requests, q # r
      PROVE  (WorkOK(q) /\ RangeRead(q) /\ PagesRead(q) /\ HistoryRead(q))'
  <2>1. job'[q] = job[q]
    BY <1>2 DEF IInv, JobType
  <2>2. Listing(q)' = Listing(q) /\ Began(q)' = Began(q) /\ ToFetch(q)' = ToFetch(q) /\ (Reads(q)' <=> Reads(q))
    BY <2>1 DEF Listing, Began, ToFetch, Reads
  <2>3. TotalOf(Listing(q))' = TotalOf(Listing(q))
    BY <2>2 DEF TotalOf
  <2>4. WorkOK(q) /\ RangeRead(q) /\ PagesRead(q) /\ HistoryRead(q)
    BY DEF IInv
  <2>5. WorkOK(q)'
    BY <2>1, <2>2, <2>4 DEF WorkOK
  <2>6. RangeRead(q)'
    BY <2>1, <2>2, <2>4 DEF RangeRead
  <2>7. PagesRead(q)'
    BY <2>1, <2>2, <2>3, <2>4 DEF PagesRead
  <2>8. HistoryRead(q)'
    BY <2>1, <2>4 DEF HistoryRead
  <2>9. QED
    BY <2>5, <2>6, <2>7, <2>8
<1>3. QED
  BY <1>1, <1>2 DEF IInv

\* What is stored and marked is unchanged while a request reads.
LEMMA StoresKeep ==
  ASSUME IInv, UNCHANGED <<day, made, tradeCache, marks, holdingsCache>>
  PROVE  MarksType' /\ StoresOK' /\ MarkedIsStored' /\ SettledTradesCounted'
BY DEF IInv, MarksType, StoresOK, MarkedIsStored, SettledTradesCounted

\* A page is asked for.
LEMMA PageKeeps ==
  ASSUME IInv, NEW r \in Requests, NEW range \in PageRanges, NEW force \in BOOLEAN, Page(r, range, force)
  PROVE  IInv'
<1> DEFINE stored == Within(tradeCache, range) # {} /\ ~force
           ranges == StaleRanges(range, force \/ stored)
           j == Reading(Idle, ranges)
<1>1. ranges # {} /\ job' = [job EXCEPT ![r] = j] /\ UNCHANGED <<day, made, style, tradeCache, marks, holdingsCache>>
  BY DEF Page
<1>2. ranges \subseteq Ranges
  BY StaleInside, TradebookAssumption DEF Ranges
<1>3. Idle \in JobRecord /\ Idle.since = 0
  BY DEF Idle, JobRecord
<1>4. j \in JobRecord /\ j.stage = "reading" /\ j.left = ranges /\ j.pieces = Years(First(ranges)) /\ j.pages = <<>>
      /\ j.since = 0
  <2> HIDE DEF ranges
  <2> QED BY <1>1, <1>2, <1>3, ReadingIs
<1> HIDE DEF j, ranges
<1>5. job'[r] = j
  BY <1>1 DEF IInv, JobType
<1>6. RangeRead(r)' /\ PagesRead(r)'
  <2>1. CalendarOK'
    BY <1>1 DEF IInv, CalendarOK
  <2>2. QED
    BY <1>1, <1>2, <1>4, <1>5, <2>1, ReadingStarts
<1>7. WorkOK(r)' /\ HistoryRead(r)'
  BY <1>1, <1>4, <1>5 DEF WorkOK, HistoryRead, Reads
<1>8. MarksType' /\ StoresOK' /\ MarkedIsStored' /\ SettledTradesCounted'
  BY <1>1, StoresKeep
<1>9. QED
  BY <1>1, <1>4, <1>6, <1>7, <1>8, OneRequestKeeps

\* A read fails: its pages are forgotten, or the page fails.
LEMMA FaultKeeps ==
  ASSUME IInv, NEW r \in Requests, NEW transient \in BOOLEAN, Fault(r, transient)
  PROVE  IInv'
<1>1. UNCHANGED <<day, made, style, tradeCache, marks, holdingsCache>> /\ Reads(r)
  BY DEF Fault, Reads
<1>2. MarksType' /\ StoresOK' /\ MarkedIsStored' /\ SettledTradesCounted'
  BY <1>1, StoresKeep
<1>3. job[r] \in JobRecord /\ WorkOK(r) /\ RangeRead(r) /\ PagesRead(r) /\ HistoryRead(r) /\ CalendarOK
  BY DEF IInv, JobType
<1>4. CASE transient
  <2> DEFINE j == [job[r] EXCEPT !.pages = <<>>]
  <2>1. j \in JobRecord /\ j.stage = job[r].stage /\ j.left = job[r].left /\ j.pieces = job[r].pieces
        /\ j.pages = <<>> /\ j.late = job[r].late /\ j.since = job[r].since /\ j.rows = job[r].rows
    <3>1. <<>> \in Seq(SUBSET made)
      OBVIOUS
    <3>2. j \in JobRecord
      BY <1>3, <3>1 DEF JobRecord
    <3>3. QED
      BY <1>3, <3>2 DEF JobRecord
  <2>2. job' = [job EXCEPT ![r] = j]
    BY <1>4 DEF Fault
  <2> HIDE DEF j
  <2>3. job'[r] = j
    BY <2>2 DEF IInv, JobType
  <2>4. Listing(r)' = Listing(r) /\ Began(r)' = Began(r) /\ ToFetch(r)' = ToFetch(r) /\ Reads(r)'
    BY <1>1, <2>1, <2>3 DEF Listing, Began, ToFetch, Reads
  <2>5. WorkOK(r)' /\ RangeRead(r)' /\ HistoryRead(r)'
    BY <1>1, <1>3, <2>1, <2>3, <2>4 DEF WorkOK, RangeRead, HistoryRead
  <2>6. Len(j.pages) = 0 /\ \A t \in Listing(r) : Place(t, Listing(r)) > 0 * PageSize
    <3>1. Listing(r) \subseteq Trades
      BY <1>3 DEF Listing, Within, CalendarOK
    <3>2. QED
      BY <2>1, <3>1, BehindNone
  <2>7. PagesRead(r)'
    BY <2>1, <2>3, <2>4, <2>6 DEF PagesRead
  <2>8. QED
    BY <1>1, <1>2, <2>1, <2>2, <2>5, <2>7, OneRequestKeeps
<1>5. CASE ~transient
  <2>1. Idle \in JobRecord /\ Idle.since = 0 /\ Idle.stage = "idle" /\ Idle.left = {}
    BY DEF Idle, JobRecord
  <2>2. job' = [job EXCEPT ![r] = Idle]
    BY <1>5 DEF Fault
  <2>3. job'[r] = Idle
    BY <2>2 DEF IInv, JobType
  <2>4. (WorkOK(r) /\ RangeRead(r) /\ PagesRead(r) /\ HistoryRead(r))'
    BY <2>1, <2>3 DEF WorkOK, RangeRead, PagesRead, HistoryRead, Reads
  <2>5. QED
    BY <1>1, <1>2, <2>1, <2>2, <2>4, OneRequestKeeps
<1>6. QED
  BY <1>4, <1>5

\* The holdings ask for what their prices need: each day is in a week that is fresh, whose
\* old trades are stored, or in a range that is going to be fetched.
LEMMA HistoryNeeded ==
  ASSUME IInv, NEW t \in made, Usable(t), t.date < day - RefreshDays
  PROVE  t \in tradeCache \/ \E range \in HistoryRanges : Holds(range, t.date)
<1> DEFINE all == <<HistoryStart, day>>
<1>1. /\ day \in Nat \ {0} /\ HistoryStart \in Nat \ {0} /\ RefreshDays \in Nat
      /\ t \in Trades /\ t.date \in Nat /\ t.date > HistoryStart /\ t.date <= day
  BY TradebookAssumption DEF IInv, CalendarOK
<1>2. all \in Ranges /\ t.date \in all[1]..all[2]
  BY <1>1 DEF Ranges
<1>3. PICK week \in Weeks(all) : Holds(week, t.date)
  <2> HIDE DEF all
  <2> QED BY <1>2, WeeksCover
<1>4. ~CoversHistory
  <2>1. \A u \in tradeCache : u \in Trades /\ Usable(u)
    BY DEF IInv, StoresOK, CalendarOK
  <2>2. \A u \in tradeCache : u.date \in Nat /\ u.date > HistoryStart
    BY <2>1, TradebookAssumption
  <2>3. QED
    BY <1>1, <2>2 DEF CoversHistory
<1>5. CASE Fresh(week)
  <2>1. week \in DOMAIN marks /\ day - marks[week] < RefreshDays
    BY <1>5 DEF Fresh
  <2>2. marks[week] \in Nat
    BY <2>1, <1>1 DEF IInv, MarksType
  <2>3. t \in Within(made, week) /\ t.date < marks[week] - 1
    BY <1>1, <1>3, <2>1, <2>2 DEF Within, Holds
  <2>4. QED
    BY <2>1, <2>3 DEF IInv, MarkedIsStored
<1>6. CASE ~Fresh(week)
  <2>1. week \in Stale(all, FALSE)
    BY <1>3, <1>6 DEF Stale
  <2>2. PICK run \in StaleRanges(all, FALSE) : run[1] <= week[1] /\ week[2] <= run[2]
    <3> HIDE DEF all
    <3> QED BY <1>2, <2>1, StaleCovered
  <2>3. run \in Ranges /\ week \in Ranges
    <3> HIDE DEF all
    <3> QED BY <1>2, <1>3, <2>2, StaleInside, WeeksInside
  <2>4. Holds(run, t.date)
    BY <1>1, <1>3, <2>2, <2>3 DEF Holds, Ranges
  <2>5. QED
    BY <1>4, <2>2, <2>4 DEF HistoryRanges
<1>7. QED
  BY <1>5, <1>6

\* The holdings are read, and stored at once where nothing has to be fetched.
LEMMA HoldingsKeeps ==
  ASSUME IInv, NEW r \in Requests, Holdings(r)
  PROVE  IInv'
<1>1. UNCHANGED <<day, made, style, tradeCache, marks>> /\ job[r].stage = "idle" /\ day \in Nat \ {0}
  BY DEF Holdings, IInv, CalendarOK
<1>2. CASE HistoryRanges = {}
  <2>1. holdingsCache' = Enriched(day, tradeCache) /\ UNCHANGED job
    BY <1>2 DEF Holdings
  <2>2. SettledTradesCounted'
    BY <1>1, <1>2, <2>1, HistoryNeeded DEF SettledTradesCounted, Enriched
  <2>3. CalendarOK' /\ JobType' /\ MarksType' /\ MarkedIsStored' /\ StoresOK'
    BY <1>1, <2>1 DEF IInv, CalendarOK, JobType, JobRecord, MarksType, MarkedIsStored, StoresOK, Enriched
  <2>4. ASSUME NEW q \in Requests PROVE (WorkOK(q) /\ RangeRead(q) /\ PagesRead(q) /\ HistoryRead(q))'
    <3>1. WorkOK(q) /\ RangeRead(q) /\ PagesRead(q) /\ HistoryRead(q)
      BY DEF IInv
    <3>2. WorkOK(q)' /\ RangeRead(q)' /\ HistoryRead(q)'
      BY <1>1, <2>1, <3>1 DEF WorkOK, RangeRead, HistoryRead, Reads, Began, ToFetch
    <3>3. PagesRead(q)'
      BY <1>1, <2>1, <3>1 DEF PagesRead, Reads, Began, Listing, TotalOf
    <3>4. QED
      BY <3>2, <3>3
  <2>5. QED
    BY <2>2, <2>3, <2>4 DEF IInv
<1>3. CASE HistoryRanges # {}
  <2> DEFINE begun == [Idle EXCEPT !.since = day]
             j == Reading(begun, HistoryRanges)
  <2>1. job' = [job EXCEPT ![r] = j] /\ UNCHANGED holdingsCache
    BY <1>3 DEF Holdings
  <2>2. HistoryRanges \subseteq Ranges
    <3>1. <<HistoryStart, day>> \in Ranges
      BY <1>1, TradebookAssumption DEF Ranges
    <3>2. QED
      BY <3>1, StaleInside DEF HistoryRanges
  <2>3. begun \in JobRecord /\ begun.since = day /\ begun.late = FALSE
    <3>1. Idle \in JobRecord /\ Idle.late = FALSE
      BY DEF Idle, JobRecord
    <3>2. day \in Nat
      BY <1>1
    <3>3. begun \in JobRecord
      BY <3>1, <3>2 DEF JobRecord
    <3>4. QED
      BY <3>1, <3>3 DEF JobRecord
  <2>4. j \in JobRecord /\ j.stage = "reading" /\ j.left = HistoryRanges /\ j.pieces = Years(First(HistoryRanges))
        /\ j.pages = <<>> /\ j.since = day /\ j.late = FALSE
    <3> HIDE DEF begun
    <3> QED BY <1>3, <2>2, <2>3, ReadingIs
  <2> HIDE DEF j
  <2>5. job'[r] = j
    BY <2>1 DEF IInv, JobType
  <2>6. RangeRead(r)' /\ PagesRead(r)'
    <3>1. CalendarOK'
      BY <1>1 DEF IInv, CalendarOK
    <3>2. QED
      BY <1>3, <2>2, <2>4, <2>5, <3>1, ReadingStarts
  <2>7. WorkOK(r)'
    BY <1>1, <1>3, <2>4, <2>5 DEF WorkOK, Reads, Began
  <2>8. HistoryRead(r)'
    BY <1>1, <2>4, <2>5, HistoryNeeded DEF HistoryRead
  <2>9. MarksType' /\ StoresOK' /\ MarkedIsStored' /\ SettledTradesCounted'
    BY <1>1, <2>1, StoresKeep
  <2>10. QED
    BY <1>1, <2>1, <2>4, <2>6, <2>7, <2>8, <2>9, OneRequestKeeps
<1>4. QED
  BY <1>2, <1>3

-----------------------------------------------------------------------------
(* Pages of a year.                                                        *)

\* Quotients grow with what is divided.
LEMMA QuotientGrows ==
  ASSUME NEW p \in Nat \ {0}, NEW x \in Nat, NEW y \in Nat, NEW m \in Nat, p * x <= p * y + m, m < p
  PROVE  x <= y
<1>1. SUFFICES ASSUME ~(x <= y) PROVE FALSE
  OBVIOUS
<1>2. p * x >= p * (y + 1)
  BY <1>1
<1>3. p * (y + 1) = p * y + p /\ p * x \in Nat /\ p * y \in Nat
  OBVIOUS
<1>4. QED
  BY <1>2, <1>3

\* The count of pages, and that it is more than any page with a trade behind it.
LEMMA TotalCounts ==
  ASSUME NEW S, S \subseteq Trades
  PROVE  /\ TotalOf(S) \in Nat
         /\ \A n \in Nat : n * PageSize < Cardinality(S) => TotalOf(S) = 0 \/ n < TotalOf(S)
<1> DEFINE a == Cardinality(S) + PageSize - 1
<1>1. Cardinality(S) \in Nat /\ PageSize \in Nat /\ PageSize > 0
  BY FiniteTrades, TradebookAssumption
<1>2. a \in Nat
  BY <1>1
<1>3. a \div PageSize \in Nat /\ a % PageSize \in 0..(PageSize - 1) /\ a = PageSize * (a \div PageSize) + (a % PageSize)
  <2> HIDE DEF a
  <2> QED BY <1>1, <1>2, Division
<1>4. TotalOf(S) \in Nat
  BY <1>3 DEF TotalOf
<1>5. ASSUME NEW n \in Nat, n * PageSize < Cardinality(S), TotalOf(S) # 0 PROVE n < TotalOf(S)
  <2>1. S # {}
    BY <1>5, <1>1, FS_EmptySet
  <2>2. TotalOf(S) = a \div PageSize
    BY <1>5, <2>1 DEF TotalOf
  <2>3. PageSize * (n + 1) = n * PageSize + PageSize /\ n * PageSize \in Nat
    BY <1>1
  <2>4. PageSize * (n + 1) <= a
    BY <1>1, <1>5, <2>3
  <2>5. n + 1 <= a \div PageSize
    <3>1. PageSize \in Nat \ {0} /\ n + 1 \in Nat /\ a % PageSize \in Nat /\ a % PageSize < PageSize
      BY <1>1, <1>3
    <3>2. PageSize * (n + 1) <= PageSize * (a \div PageSize) + (a % PageSize)
      <4> HIDE DEF a
      <4> QED BY <2>4, <1>3
    <3>3. QED
      <4> HIDE DEF a
      <4> QED BY <3>1, <3>2, <1>3, QuotientGrows
  <2>6. QED
    <3> HIDE DEF a
    <3> QED BY <2>2, <2>5, <1>3
<1>6. QED
  BY <1>4, <1>5

LEMMA TotalPositive ==
  ASSUME NEW S, S \subseteq Trades, style = "totals"
  PROVE  TotalOf(S) > 0
<1>1. CASE S = {}
  BY <1>1 DEF TotalOf
<1>2. CASE S # {}
  <2>1. Cardinality(S) \in Nat /\ Cardinality(S) # 0
    BY <1>2, FiniteTrades, FS_EmptySet
  <2>2. PageSize \in Nat \ {0} /\ 0 * PageSize = 0
    BY TradebookAssumption
  <2>3. TotalOf(S) # 0 => 0 < TotalOf(S)
    BY <2>1, <2>2, TotalCounts
  <2>4. TotalOf(S) = (Cardinality(S) + PageSize - 1) \div PageSize
    BY <1>2 DEF TotalOf
  <2>5. ASSUME NEW c \in Nat, NEW p \in Nat, c # 0, p # 0 PROVE (c + p - 1) \div p # 0
    <3>1. c + p - 1 \in Nat /\ c + p - 1 = p + (c - 1)
      BY <2>5
    <3> DEFINE a == c + p - 1
    <3>2. a \div p \in Nat /\ a % p \in 0..(p - 1) /\ a = p * (a \div p) + (a % p)
      <4> HIDE DEF a
      <4> QED BY <2>5, <3>1, Division DEF a
    <3>3. SUFFICES ASSUME a \div p = 0 PROVE FALSE
      OBVIOUS
    <3>4. a % p \in Nat /\ a % p < p
      <4> HIDE DEF a
      <4> QED BY <2>5, <3>2
    <3>5. a = a % p
      <4>1. p * 0 = 0
        BY <2>5
      <4>2. QED
        <5> HIDE DEF a
        <5> QED BY <3>2, <3>3, <3>4, <4>1
    <3>6. QED
      <4>1. a >= p
        BY <2>5
      <4>2. QED
        <5> HIDE DEF a
        <5> QED BY <3>4, <3>5, <4>1, <2>5
  <2>6. QED
    BY <2>1, <2>2, <2>3, <2>4, <2>5
<1>3. QED
  BY <1>1, <1>2

LEMMA TotalGrows ==
  ASSUME NEW S, NEW T, S \subseteq T, T \subseteq Trades
  PROVE  TotalOf(S) <= TotalOf(T)
<1> DEFINE a == Cardinality(S) + PageSize - 1
           b == Cardinality(T) + PageSize - 1
<1>1. /\ Cardinality(S) \in Nat /\ Cardinality(T) \in Nat /\ IsFiniteSet(T)
      /\ PageSize \in Nat \ {0}
  BY FiniteTrades, TradebookAssumption
<1>2. Cardinality(S) <= Cardinality(T)
  BY <1>1, FS_Subset
<1>3. a \in Nat /\ b \in Nat /\ a <= b
  BY <1>1, <1>2
<1>4. /\ a \div PageSize \in Nat /\ a % PageSize \in 0..(PageSize - 1) /\ a = PageSize * (a \div PageSize) + (a % PageSize)
      /\ b \div PageSize \in Nat /\ b % PageSize \in 0..(PageSize - 1) /\ b = PageSize * (b \div PageSize) + (b % PageSize)
  <2> HIDE DEF a, b
  <2> QED BY <1>1, <1>3, Division
<1>5. a \div PageSize <= b \div PageSize
  <2>1. PageSize * (a \div PageSize) <= PageSize * (b \div PageSize) + (b % PageSize)
    <3>1. PageSize * (a \div PageSize) <= a
      <4>1. \A p, q, m \in Nat : p * q <= p * q + m
        OBVIOUS
      <4>2. a % PageSize \in Nat
        <5> HIDE DEF a
        <5> QED BY <1>1, <1>4
      <4>3. QED
        <5> HIDE DEF a
        <5> QED BY <1>1, <1>4, <4>1, <4>2
    <3>2. \A x, y, z \in Int : x <= y /\ y <= z => x <= z
      OBVIOUS
    <3>3. PageSize * (a \div PageSize) \in Int
      <4> HIDE DEF a
      <4> QED BY <1>1, <1>4
    <3>4. QED
      <4> HIDE DEF a, b
      <4> QED BY <3>1, <3>2, <3>3, <1>3, <1>4
  <2>2. b % PageSize \in Nat /\ b % PageSize < PageSize
    <3> HIDE DEF b
    <3> QED BY <1>1, <1>4
  <2>3. QED
    <3> HIDE DEF a, b
    <3> QED BY <1>1, <1>4, <2>1, <2>2, QuotientGrows
<1>6. CASE style # "totals"
  BY <1>6 DEF TotalOf
<1>7. CASE style = "totals" /\ S # {}
  <2>1. T # {}
    BY <1>7
  <2>2. QED
    BY <1>5, <1>7, <2>1 DEF TotalOf
<1>8. CASE style = "totals" /\ S = {} /\ T # {}
  <2>1. TotalOf(S) = 1 /\ TotalOf(T) = b \div PageSize
    BY <1>8 DEF TotalOf
  <2>2. Cardinality(T) > 0
    BY <1>1, <1>8, FS_EmptySet
  <2>3. PageSize * 1 <= PageSize * (b \div PageSize) + (b % PageSize)
    <3>1. PageSize <= b
      BY <1>1, <2>2
    <3>2. QED
      <4> HIDE DEF b
      <4> QED BY <3>1, <1>1, <1>4
  <2>4. b % PageSize \in Nat /\ b % PageSize < PageSize
    <3> HIDE DEF b
    <3> QED BY <1>1, <1>4
  <2>5. 1 <= b \div PageSize
    <3> HIDE DEF b
    <3> QED BY <1>1, <1>4, <2>3, <2>4, QuotientGrows
  <2>6. QED
    BY <2>1, <2>5
<1>9. CASE style = "totals" /\ S = {} /\ T = {}
  BY <1>9 DEF TotalOf
<1>10. QED
  BY <1>6, <1>7, <1>8, <1>9

\* What a request holds after it asked for one more page.
PagesWith(r) == Append(job[r].pages, PageOf(Listing(r), Len(job[r].pages) + 1))

LEMMA PagesType ==
  ASSUME IInv, NEW r \in Requests
  PROVE  LET n == Len(job[r].pages) IN
         /\ n \in Nat /\ PagesWith(r) \in Seq(SUBSET made) /\ Len(PagesWith(r)) = n + 1
         /\ \A k \in 1..n : PagesWith(r)[k] = job[r].pages[k]
         /\ PagesWith(r)[n + 1] = PageOf(Listing(r), n + 1)
         /\ Listing(r) \subseteq made /\ Listing(r) \subseteq Trades /\ PageOf(Listing(r), n + 1) \subseteq Listing(r)
<1>1. job[r].pages \in Seq(SUBSET made)
  BY DEF IInv, JobType, JobRecord
<1>2. Listing(r) \subseteq made /\ Listing(r) \subseteq Trades
  BY DEF IInv, CalendarOK, Listing, Within
<1>3. \A n : PageOf(Listing(r), n) \subseteq Listing(r)
  BY DEF PageOf
<1>4. QED
  BY <1>1, <1>2, <1>3 DEF PagesWith

\* Each old trade is on a page by then or behind that page; the page is full where one is behind it,
\* and nothing makes it the last.
LEMMA PageFound ==
  ASSUME IInv, NEW r \in Requests, Reads(r), job[r].pieces # {},
         NEW t \in Listing(r), t.date < Began(r),
         \A k \in 1..(Len(job[r].pages) + 1) : t \notin PagesWith(r)[k]
  PROVE  LET n == Len(job[r].pages) + 1 IN
         /\ Place(t, Listing(r)) > n * PageSize
         /\ n # MaxPages /\ ~IsLast(PageOf(Listing(r), n), n, TotalOf(Listing(r)))
<1> DEFINE S == Listing(r)
           m == Len(job[r].pages)
           n == m + 1
           rows == PageOf(S, n)
           p == Place(t, S)
<1>1. /\ m \in Nat /\ \A k \in 1..m : PagesWith(r)[k] = job[r].pages[k]
      /\ PagesWith(r)[n] = rows /\ S \subseteq Trades
  BY PagesType
<1>2. t \notin rows /\ \A k \in 1..m : t \notin job[r].pages[k]
  BY <1>1
<1>3. p > m * PageSize
  BY <1>2 DEF IInv, PagesRead
<1>4. style # "all"
  BY <1>2 DEF PageOf
<1>5. p \in Nat /\ p <= Cardinality(S) /\ Cardinality(S) \in Nat /\ Cardinality(S) < MaxPages * PageSize
      /\ PageSize \in Nat /\ PageSize > 0 /\ MaxPages \in Nat
  <2>1. p \in 1..Cardinality(S)
    BY <1>1, PlaceInside
  <2>2. QED
    BY <1>1, <2>1, FiniteTrades, TradebookAssumption
<1>6. p > n * PageSize
  <2>1. SUFFICES ASSUME p <= n * PageSize PROVE FALSE
    BY <1>1, <1>5
  <2>2. PageSize * m = m * PageSize /\ PageSize * (m + 1) = n * PageSize /\ m * PageSize \in Nat /\ n * PageSize \in Nat
    BY <1>1, <1>5
  <2>3. p - 1 \in Nat /\ PageSize * m <= p - 1 /\ p - 1 < PageSize * (m + 1)
    <3> HIDE DEF p, m
    <3> QED BY <2>1, <2>2, <1>3, <1>5
  <2>4. (p - 1) \div PageSize = m
    <3> HIDE DEF p, m
    <3> QED BY <2>3, <1>1, <1>5, Quotient
  <2>5. m = n - 1
    <3> HIDE DEF m
    <3> QED BY <1>1
  <2>6. QED
    BY <2>4, <2>5, <1>2 DEF PageOf
<1>7. n \in Nat \ {0} /\ n * PageSize \in Nat /\ n * PageSize < Cardinality(S)
  <2>1. n \in Nat \ {0}
    BY <1>1
  <2>2. n * PageSize \in Nat
    <3> HIDE DEF n
    <3> QED BY <2>1, <1>5
  <2>3. QED
    <3> HIDE DEF n, p, S
    <3> QED BY <2>1, <2>2, <1>5, <1>6
<1>8. Cardinality(rows) = PageSize
  <2>1. t \in S /\ Place(t, S) > n * PageSize
    BY <1>6
  <2>2. Cardinality(PageOf(S, n)) = PageSize
    <3> HIDE DEF n, S
    <3> QED BY <1>1, <1>4, <1>7, <2>1, FullPage
  <2>3. QED
    BY <2>2
<1>9. rows # {}
  <2>1. PageSize # 0 /\ Cardinality({}) = 0
    BY <1>5, FS_EmptySet
  <2>2. QED
    <3> HIDE DEF rows
    <3> QED BY <1>8, <2>1
<1>10. TotalOf(S) \in Nat /\ (TotalOf(S) = 0 \/ n < TotalOf(S))
  <2> HIDE DEF n, S
  <2> QED BY <1>1, <1>7, TotalCounts
<1>11. n # MaxPages
  <2> HIDE DEF n, S
  <2> QED BY <1>5, <1>7
<1>12. ~IsLast(rows, n, TotalOf(S))
  <2> HIDE DEF n, S, rows
  <2> QED BY <1>7, <1>8, <1>9, <1>10 DEF IsLast
<1>13. QED
  BY <1>6, <1>11, <1>12

\* A page is read: it is the last of its year, or one of those before.
LEMMA ReadPageKeeps ==
  ASSUME IInv, NEW r \in Requests, ReadPage(r)
  PROVE  IInv'
<1> DEFINE S == Listing(r)
           n == Len(job[r].pages) + 1
           total == TotalOf(S)
           pages == PagesWith(r)
           last == IsLast(PageOf(S, n), n, total) \/ n = MaxPages
<1>1. /\ UNCHANGED <<day, made, style, tradeCache, marks, holdingsCache>> /\ Reads(r) /\ job[r].pieces # {}
  BY DEF ReadPage, Reads
<1>2. MarksType' /\ StoresOK' /\ MarkedIsStored' /\ SettledTradesCounted'
  BY <1>1, StoresKeep
<1>3. job[r] \in JobRecord /\ WorkOK(r) /\ RangeRead(r) /\ PagesRead(r) /\ HistoryRead(r) /\ CalendarOK
  BY DEF IInv, JobType
<1>4. /\ n \in Nat \ {0} /\ pages \in Seq(SUBSET made) /\ Len(pages) = n
      /\ \A k \in 1..(n - 1) : pages[k] = job[r].pages[k]
      /\ pages[n] = PageOf(S, n) /\ S \subseteq made /\ S \subseteq Trades
  <2>1. Len(job[r].pages) \in Nat /\ n - 1 = Len(job[r].pages)
    BY PagesType
  <2>2. QED
    BY <2>1, PagesType
<1>5. total \in Nat
  BY <1>4, TotalCounts
<1>6. \A k \in 1..(n - 1) : pages[k] # {} /\ Cardinality(pages[k]) = PageSize /\ (total = 0 \/ k < total)
  <2>1. n - 1 = Len(job[r].pages) /\ Len(job[r].pages) \in Nat
    BY PagesType
  <2>2. \A k \in 1..(n - 1) : total = 0 \/ n - 1 < total
    BY <1>1, <1>3, <2>1 DEF PagesRead
  <2>3. \A k \in 1..(n - 1) : pages[k] # {} /\ Cardinality(pages[k]) = PageSize
    BY <1>1, <1>3, <1>4, <2>1 DEF PagesRead
  <2>4. QED
    <3> HIDE DEF n, total, pages
    <3> QED BY <2>2, <2>3, <1>4, <1>5
<1>7. CASE last
  <2> DEFINE rows == job[r].rows \cup MergedPages(pages, total)
             pieces == job[r].pieces \ {First(job[r].pieces)}
             j == [job[r] EXCEPT !.rows = rows, !.pages = <<>>, !.pieces = pieces]
  <2>1. job' = [job EXCEPT ![r] = j]
    BY <1>7 DEF ReadPage, PagesWith, Listing
  <2>2. MergedPages(pages, total) \subseteq made
    <3>1. \A k \in DOMAIN pages : pages[k] \subseteq made
      <4> HIDE DEF pages
      <4> QED BY <1>4
    <3>2. QED
      BY <3>1 DEF MergedPages
  <2>3. rows \in SUBSET made /\ pieces \in SUBSET Ranges /\ <<>> \in Seq(SUBSET made)
    BY <2>2, <1>3 DEF JobRecord
  <2>4. j \in JobRecord
    <3> HIDE DEF rows, pieces
    <3> QED BY <2>3, <1>3 DEF JobRecord
  <2>5. /\ j.stage = job[r].stage /\ j.left = job[r].left /\ j.pieces = pieces
        /\ j.pages = <<>> /\ j.late = job[r].late /\ j.since = job[r].since /\ j.rows = rows
    <3> HIDE DEF rows, pieces
    <3> QED BY <1>3 DEF JobRecord
  <2> HIDE DEF j
  <2>6. job'[r] = j
    BY <2>1 DEF IInv, JobType
  <2>7. Began(r)' = Began(r) /\ ToFetch(r)' = ToFetch(r) /\ Reads(r)'
    BY <1>1, <2>5, <2>6 DEF Began, ToFetch, Reads
  <2>8. WorkOK(r)' /\ HistoryRead(r)'
    BY <1>1, <1>3, <2>5, <2>6, <2>7 DEF WorkOK, HistoryRead
  <2>9. ASSUME NEW t \in S, t.date < Began(r) PROVE t \in rows
    <3>1. PICK k \in 1..n : t \in pages[k]
      BY <1>1, <1>7, <2>9, PageFound
    <3>2. \A i \in 1..(k - 1) : ~IsLast(pages[i], i, total)
      <4> HIDE DEF n, total, pages
      <4> QED BY <1>4, <1>5, <1>6 DEF IsLast
    <3>3. k \in DOMAIN pages
      <4> HIDE DEF n, pages
      <4> QED BY <1>4
    <3>4. QED
      BY <3>1, <3>2, <3>3 DEF MergedPages
  <2>10. RangeRead(r)'
    <3>1. ASSUME NEW t \in Within(made, ToFetch(r)), t.date < Began(r)
          PROVE  t \in rows \/ \E piece \in pieces : Holds(piece, t.date)
      <4>1. t \in job[r].rows \/ \E piece \in job[r].pieces : Holds(piece, t.date)
        BY <1>1, <1>3, <3>1 DEF RangeRead
      <4>2. t \in made
        BY DEF Within
      <4>3. CASE Holds(First(job[r].pieces), t.date)
        BY <4>2, <4>3, <2>9, <3>1 DEF Listing, Within, Holds
      <4>4. QED
        BY <4>1, <4>3
    <3>2. Within(made', ToFetch(r)') = Within(made, ToFetch(r))
      BY <1>1, <2>7
    <3>3. QED
      <4> HIDE DEF rows, pieces
      <4> QED BY <2>5, <2>6, <2>7, <3>1, <3>2 DEF RangeRead
  <2>11. PagesRead(r)'
    <3>1. Listing(r)' \subseteq Trades
      BY <1>1, <1>3 DEF Listing, Within, CalendarOK
    <3>2. Len(j.pages) = 0 /\ \A t \in Listing(r)' : Place(t, Listing(r)') > 0 * PageSize
      BY <2>5, <3>1, BehindNone
    <3>3. QED
      BY <2>5, <2>6, <3>2 DEF PagesRead
  <2>12. QED
    BY <1>1, <1>2, <2>1, <2>4, <2>8, <2>10, <2>11, OneRequestKeeps
<1>8. CASE ~last
  <2> DEFINE j == [job[r] EXCEPT !.pages = pages]
  <2>1. job' = [job EXCEPT ![r] = j]
    BY <1>8 DEF ReadPage, PagesWith, Listing
  <2>2. j \in JobRecord
    <3> HIDE DEF pages
    <3> QED BY <1>3, <1>4 DEF JobRecord
  <2>3. /\ j.stage = job[r].stage /\ j.left = job[r].left /\ j.pieces = job[r].pieces
        /\ j.pages = pages /\ j.late = job[r].late /\ j.since = job[r].since /\ j.rows = job[r].rows
    <3> HIDE DEF pages
    <3> QED BY <1>3 DEF JobRecord
  <2> HIDE DEF j
  <2>4. job'[r] = j
    BY <2>1 DEF IInv, JobType
  <2>5. Listing(r)' = S /\ Began(r)' = Began(r) /\ ToFetch(r)' = ToFetch(r) /\ Reads(r)'
    BY <1>1, <2>3, <2>4 DEF Listing, Began, ToFetch, Reads
  <2>6. WorkOK(r)' /\ RangeRead(r)' /\ HistoryRead(r)'
    BY <1>1, <1>3, <2>3, <2>4, <2>5 DEF WorkOK, RangeRead, HistoryRead
  <2>7. TotalOf(Listing(r))' = total
    BY <1>1, <2>5 DEF TotalOf
  <2>8. pages[n] # {} /\ Cardinality(pages[n]) = PageSize /\ (total = 0 \/ n < total)
    <3> HIDE DEF n, total, S, pages
    <3> QED BY <1>4, <1>5, <1>8 DEF IsLast
  <2>9. \A t \in S : t.date < Began(r) => (\E k \in 1..n : t \in pages[k]) \/ Place(t, S) > n * PageSize
    BY <1>1, PageFound
  <2>10. \A k \in 1..n : pages[k] # {} /\ Cardinality(pages[k]) = PageSize
    <3> HIDE DEF n, total, S, pages
    <3> QED BY <1>4, <1>6, <2>8
  <2>11. PagesRead(r)'
    <3>1. Len(job'[r].pages) = n /\ job'[r].pages = pages
      <4> HIDE DEF n, pages
      <4> QED BY <1>4, <2>3, <2>4
    <3>2. QED
      <4> HIDE DEF n, total, S, pages
      <4> QED BY <2>5, <2>7, <2>8, <2>9, <2>10, <3>1 DEF PagesRead
  <2>12. QED
    BY <1>1, <1>2, <2>1, <2>2, <2>6, <2>11, OneRequestKeeps
<1>9. QED
  BY <1>7, <1>8

-----------------------------------------------------------------------------
(* What is read is stored.                                                 *)

\* A range that has been read is stored with its marks.
LEMMA StoredKeeps ==
  ASSUME IInv, NEW r \in Requests, Stored(r)
  PROVE  IInv'
<1> DEFINE range == ToFetch(r)
           left == job[r].left \ {range}
           j == IF left # {} THEN Reading(job[r], left) ELSE Idle
<1>1. /\ UNCHANGED <<day, made, style>> /\ Reads(r) /\ job[r].pieces = {}
      /\ tradeCache' = tradeCache \cup Storable(job[r].rows) /\ marks' = Marked(range)
      /\ job' = [job EXCEPT ![r] = j]
      /\ holdingsCache' = IF left = {} THEN Saved(job[r].since, tradeCache') ELSE holdingsCache
  BY DEF Stored, Reads, ToFetch
<1>2. job[r] \in JobRecord /\ WorkOK(r) /\ RangeRead(r) /\ HistoryRead(r) /\ CalendarOK
  BY DEF IInv, JobType
<1>3. range \in Ranges /\ job[r].left # {} /\ job[r].left \subseteq Ranges
  <2>1. job[r].left # {} /\ job[r].left \subseteq Ranges
    BY <1>1, <1>2 DEF WorkOK, JobRecord
  <2>2. QED
    BY <2>1, FirstIn DEF ToFetch
<1>4. day \in Nat \ {0} /\ HistoryStart \in Nat /\ HistoryStart <= day /\ RefreshDays \in Nat
      /\ \A t \in made : t.date \in Nat /\ t \in Trades
  BY <1>2, TradebookAssumption DEF CalendarOK
<1>5. Began(r) \in Int /\ day - 1 <= Began(r) /\ Began(r) <= day /\ job[r].since \in Nat
  BY <1>2, <1>4 DEF Began, JobRecord
<1>6. ASSUME NEW t \in made, Usable(t), Holds(range, t.date), t.date < Began(r)
      PROVE  t \in tradeCache'
  <2>1. t \in Within(made, ToFetch(r))
    BY <1>6 DEF Within, Holds
  <2>2. t \in job[r].rows
    BY <1>1, <1>2, <1>6, <2>1 DEF RangeRead
  <2>3. QED
    BY <1>1, <1>6, <2>2 DEF Storable
<1>7. tradeCache \subseteq tradeCache' /\ tradeCache' \subseteq {t \in made' : Usable(t)}
  BY <1>1, <1>2 DEF IInv, StoresOK, Storable, JobRecord
<1>8. MarksType'
  <2>1. SUFFICES ASSUME NEW w \in DOMAIN marks'
                 PROVE  w \in Ranges /\ w[1] <= w[2] /\ marks'[w] \in HistoryStart..day
    BY <1>1 DEF MarksType
  <2>2. CASE w \in Weeks(range)
    <3>1. marks'[w] = day
      BY <1>1, <2>2 DEF Marked
    <3>2. QED
      <4> HIDE DEF range
      <4> QED BY <1>3, <1>4, <2>2, <3>1, WeeksInside
  <2>3. CASE w \notin Weeks(range)
    <3>1. w \in DOMAIN marks /\ marks'[w] = marks[w]
      BY <1>1, <2>1, <2>3 DEF Marked
    <3>2. QED
      BY <3>1 DEF IInv, MarksType
  <2>4. QED
    BY <2>2, <2>3
<1>9. MarkedIsStored'
  <2>1. SUFFICES ASSUME NEW w \in DOMAIN marks', NEW t \in Within(made, w), Usable(t), t.date < marks'[w] - 1
                 PROVE  t \in tradeCache'
    BY <1>1 DEF MarkedIsStored
  <2>2. CASE w \in Weeks(range)
    <3>1. marks'[w] = day
      BY <1>1, <2>2 DEF Marked
    <3>2. w \in Ranges /\ range[1] <= w[1] /\ w[2] <= range[2]
      <4> HIDE DEF range
      <4> QED BY <1>3, <2>2, WeeksInside
    <3>3. t \in made /\ t.date \in w[1]..w[2]
      BY DEF Within
    <3>4. Holds(range, t.date) /\ t.date < Began(r)
      <4> HIDE DEF range
      <4> QED BY <1>3, <1>4, <1>5, <2>1, <3>1, <3>2, <3>3 DEF Holds, Ranges
    <3>5. QED
      BY <1>6, <2>1, <3>3, <3>4
  <2>3. CASE w \notin Weeks(range)
    <3>1. w \in DOMAIN marks /\ marks'[w] = marks[w]
      BY <1>1, <2>1, <2>3 DEF Marked
    <3>2. QED
      BY <1>7, <2>1, <3>1 DEF IInv, MarkedIsStored
  <2>4. QED
    BY <2>2, <2>3
<1>10. ASSUME job[r].since # 0, NEW t \in made, Usable(t), t.date < job[r].since - RefreshDays
       PROVE  t \in tradeCache' \/ \E q \in left : Holds(q, t.date)
  <2>1. t \in tradeCache \/ \E q \in job[r].left : Holds(q, t.date)
    BY <1>2, <1>10 DEF HistoryRead
  <2>2. job[r].since = Began(r)
    BY <1>2, <1>10 DEF WorkOK
  <2>3. t.date < Began(r)
    BY <1>4, <1>5, <1>10, <2>2
  <2>4. CASE Holds(range, t.date)
    BY <1>6, <1>10, <2>3, <2>4
  <2>5. QED
    BY <1>7, <2>1, <2>4
<1>11. StoresOK' /\ SettledTradesCounted'
  <2>1. CASE left = {} /\ job[r].since # 0
    <3>1. holdingsCache' = [since |-> job[r].since, basis |-> tradeCache']
      BY <1>1, <2>1 DEF Saved, Enriched
    <3>2. job[r].since <= day
      BY <1>2, <1>5, <2>1 DEF WorkOK
    <3>3. StoresOK'
      BY <1>1, <1>5, <1>7, <3>1, <3>2 DEF StoresOK
    <3>4. SettledTradesCounted'
      <4>1. holdingsCache'.since = job[r].since /\ holdingsCache'.basis = tradeCache'
        <5> HIDE DEF left, j
        <5> QED BY <3>1
      <4>2. \A t \in made : Usable(t) /\ t.date < job[r].since - RefreshDays => t \in tradeCache'
        <5> HIDE DEF left
        <5> QED BY <1>10, <2>1
      <4>3. made' = made
        BY <1>1
      <4>4. QED
        <5> HIDE DEF left
        <5> QED BY <4>1, <4>2, <4>3 DEF SettledTradesCounted
    <3>5. QED
      BY <3>3, <3>4
  <2>2. CASE ~(left = {} /\ job[r].since # 0)
    <3>1. holdingsCache' = holdingsCache
      BY <1>1, <2>2 DEF Saved
    <3>2. QED
      BY <1>1, <1>7, <3>1 DEF IInv, StoresOK, SettledTradesCounted
  <2>3. QED
    BY <2>1, <2>2
<1>12. CASE left # {}
  <2>1. left \subseteq Ranges
    BY <1>3
  <2>2. /\ j \in JobRecord /\ j.stage = "reading" /\ j.left = left /\ j.pieces = Years(First(left)) /\ j.pages = <<>>
        /\ j.since = job[r].since /\ j.late = job[r].late
    <3> HIDE DEF left
    <3> QED BY <1>2, <1>12, <2>1, ReadingIs
  <2> HIDE DEF j, left
  <2>3. job'[r] = j
    BY <1>1 DEF IInv, JobType
  <2>4. CalendarOK' /\ JobRecord' = JobRecord
    BY <1>1, <1>2 DEF CalendarOK, JobRecord
  <2>5. RangeRead(r)' /\ PagesRead(r)'
    BY <1>12, <2>1, <2>2, <2>3, <2>4, ReadingStarts
  <2>6. WorkOK(r)'
    BY <1>1, <1>2, <1>12, <2>2, <2>3 DEF WorkOK, Reads, Began
  <2>7. HistoryRead(r)'
    BY <1>1, <1>10, <2>2, <2>3 DEF HistoryRead
  <2>8. QED
    BY <1>1, <1>7, <1>8, <1>9, <1>11, <2>2, <2>5, <2>6, <2>7, OneRequestKeeps
<1>13. CASE left = {}
  <2>1. Idle \in JobRecord /\ Idle.since = 0 /\ Idle.stage = "idle" /\ Idle.left = {}
    BY DEF Idle, JobRecord
  <2>2. j = Idle
    BY <1>13
  <2> HIDE DEF j, left
  <2>3. job' = [job EXCEPT ![r] = Idle]
    BY <1>1, <2>2
  <2>4. job'[r] = Idle
    BY <2>3 DEF IInv, JobType
  <2>5. (WorkOK(r) /\ RangeRead(r) /\ PagesRead(r) /\ HistoryRead(r))'
    BY <2>1, <2>4 DEF WorkOK, RangeRead, PagesRead, HistoryRead, Reads
  <2>6. QED
    BY <1>1, <1>7, <1>8, <1>9, <1>11, <2>1, <2>3, <2>5, OneRequestKeeps
<1>14. QED
  BY <1>12, <1>13

-----------------------------------------------------------------------------
(* The exchange and the calendar.                                          *)

\* What is traded today is too new for anything that is claimed.
LEMMA TradeKeeps ==
  ASSUME IInv, NEW t \in Trades, Trade(t)
  PROVE  IInv'
<1>1. /\ made' = made \cup {t} /\ t.date = day
      /\ UNCHANGED <<day, style, tradeCache, marks, holdingsCache, job>>
  BY DEF Trade
<1>2. day \in Nat \ {0} /\ \A range \in DOMAIN marks : marks[range] \in Nat /\ marks[range] <= day
  BY TradebookAssumption DEF IInv, CalendarOK, MarksType
<1>3. CalendarOK'
  BY <1>1, <1>2 DEF IInv, CalendarOK
<1>4. JobType'
  <2>1. SUBSET made \subseteq SUBSET (made')
    BY <1>1
  <2>2. Seq(SUBSET made) \subseteq Seq(SUBSET (made'))
    <3> SUFFICES ASSUME NEW x \in Seq(SUBSET made) PROVE x \in Seq(SUBSET (made'))
      OBVIOUS
    <3>1. x \in [1..Len(x) -> SUBSET made] /\ Len(x) \in Nat
      OBVIOUS
    <3>2. x \in [1..Len(x) -> SUBSET (made')]
      BY <2>1, <3>1
    <3>3. QED
      BY <3>1, <3>2
  <2>3. JobRecord \subseteq JobRecord'
    <3> SUFFICES ASSUME NEW x \in JobRecord PROVE x \in JobRecord'
      OBVIOUS
    <3> QED
      BY <2>1, <2>2 DEF JobRecord
  <2>4. QED
    BY <1>1, <2>3 DEF IInv, JobType
<1>5. MarksType' /\ StoresOK'
  BY <1>1 DEF IInv, MarksType, StoresOK
<1>6. MarkedIsStored'
  BY <1>1, <1>2 DEF IInv, MarkedIsStored, Within
<1>7. SettledTradesCounted'
  BY <1>1, <1>2, TradebookAssumption DEF IInv, SettledTradesCounted, StoresOK
<1>8. ASSUME NEW r \in Requests PROVE (WorkOK(r) /\ RangeRead(r) /\ PagesRead(r) /\ HistoryRead(r))'
  <2>1. WorkOK(r) /\ RangeRead(r) /\ PagesRead(r) /\ HistoryRead(r) /\ job[r] \in JobRecord
    BY DEF IInv, JobType
  <2>2. Began(r)' = Began(r) /\ ToFetch(r)' = ToFetch(r) /\ (Reads(r)' <=> Reads(r))
    BY <1>1 DEF Began, ToFetch, Reads
  <2>3. ~(t.date < Began(r))
    BY <1>1, <1>2 DEF Began
  <2>4. WorkOK(r)' /\ RangeRead(r)'
    BY <1>1, <2>1, <2>2, <2>3 DEF WorkOK, RangeRead, Within
  <2>5. HistoryRead(r)'
    <3>1. job[r].since # 0 => ~(t.date < job[r].since - RefreshDays)
      BY <1>1, <1>2, <2>1, TradebookAssumption DEF WorkOK, Began
    <3>2. QED
      BY <1>1, <2>1, <3>1 DEF HistoryRead
  <2>6. PagesRead(r)'
    <3> DEFINE n == Len(job[r].pages)
               S == Listing(r)
               T == Listing(r)'
    <3>1. S \subseteq T /\ T \subseteq S \cup {t} /\ T \subseteq Trades
      BY <1>1, <1>3 DEF Listing, Within, CalendarOK
    <3>2. n \in Nat /\ PageSize \in Nat
      BY <2>1, TradebookAssumption DEF JobRecord
    <3>3. TotalOf(S) \in Nat /\ TotalOf(T) \in Nat /\ TotalOf(S) <= TotalOf(T) /\ (TotalOf(S) = 0 => TotalOf(T) = 0)
      <4>1. S \subseteq Trades
        BY <3>1
      <4>2. TotalOf(S) = 0 => TotalOf(T) = 0
        <5> HIDE DEF S, T
        <5> QED BY <4>1, TotalPositive DEF TotalOf
      <4>3. QED
        <5> HIDE DEF S, T
        <5> QED BY <3>1, <4>1, <4>2, TotalCounts, TotalGrows
    <3>4. TotalOf(Listing(r))' = TotalOf(T)
      BY <1>1 DEF TotalOf
    <3>5. \A u \in S : Place(u, S) \in Nat /\ Place(u, T) \in Nat /\ Place(u, S) <= Place(u, T)
      <4>1. S \subseteq Trades
        BY <3>1
      <4>2. ASSUME NEW u \in S PROVE Place(u, S) \in 1..Cardinality(S) /\ Place(u, T) \in 1..Cardinality(T)
        <5>1. u \in T
          BY <3>1
        <5>2. QED
          <6> HIDE DEF S, T
          <6> QED BY <3>1, <4>1, <4>2, <5>1, PlaceInside
      <4>3. Cardinality(S) \in Nat /\ Cardinality(T) \in Nat
        <5> HIDE DEF S, T
        <5> QED BY <3>1, <4>1, FiniteTrades
      <4>4. QED
        <5> HIDE DEF S, T
        <5> QED BY <3>1, <4>2, <4>3, PlaceGrows
    <3>6. n * PageSize \in Nat
      <4> HIDE DEF n
      <4> QED BY <3>2
    <3>7. Reads(r) /\ job[r].pieces # {} =>
            \A u \in T : u.date < Began(r) => (\E k \in 1..n : u \in job[r].pages[k]) \/ Place(u, T) > n * PageSize
      <4>1. Reads(r) /\ job[r].pieces # {} =>
              \A u \in S : u.date < Began(r) => (\E k \in 1..n : u \in job[r].pages[k]) \/ Place(u, S) > n * PageSize
        BY <2>1 DEF PagesRead
      <4>2. \A u \in T : u.date < Began(r) => u \in S
        BY <2>3, <3>1
      <4>3. QED
        <5> HIDE DEF n, S, T
        <5> QED BY <3>5, <3>6, <4>1, <4>2
    <3>8. Reads(r) /\ job[r].pieces # {} => (n # 0 => TotalOf(T) = 0 \/ n < TotalOf(T))
      <4>1. Reads(r) /\ job[r].pieces # {} => (n # 0 => TotalOf(S) = 0 \/ n < TotalOf(S))
        BY <2>1 DEF PagesRead
      <4>2. QED
        <5> HIDE DEF n, S, T
        <5> QED BY <3>2, <3>3, <4>1
    <3>9. QED
      BY <1>1, <2>1, <2>2, <3>4, <3>7, <3>8 DEF PagesRead
  <2>7. QED
    BY <2>4, <2>5, <2>6
<1>9. QED
  BY <1>3, <1>4, <1>5, <1>6, <1>7, <1>8 DEF IInv

\* At midnight no request is of yesterday: its first day stays the day it began.
LEMMA MidnightKeeps ==
  ASSUME IInv, Midnight
  PROVE  IInv'
<1>1. /\ day' = day + 1 /\ day < LastDay
      /\ job' = [r \in Requests |-> [job[r] EXCEPT !.late = job[r].stage = "reading"]]
      /\ UNCHANGED <<made, style, tradeCache, marks, holdingsCache>>
      /\ \A r \in Requests : job[r].stage = "reading" => ~job[r].late
  BY DEF Midnight
<1>2. /\ day \in HistoryStart..LastDay /\ day \in Nat \ {0} /\ HistoryStart \in Nat /\ LastDay \in Nat
      /\ made \subseteq Trades /\ \A t \in made : t.date \in 1..day
  BY TradebookAssumption DEF IInv, CalendarOK
<1>3. CalendarOK'
  BY <1>1, <1>2 DEF CalendarOK
<1>4. MarksType' /\ MarkedIsStored'
  BY <1>1, <1>2 DEF IInv, MarksType, MarkedIsStored, Within
<1>5. StoresOK' /\ SettledTradesCounted'
  BY <1>1, <1>2 DEF IInv, StoresOK, SettledTradesCounted
<1>6. ASSUME NEW r \in Requests
      PROVE  /\ job[r] \in JobRecord /\ job'[r] \in JobRecord
             /\ job'[r].stage = job[r].stage /\ job'[r].left = job[r].left /\ job'[r].pieces = job[r].pieces
             /\ job'[r].pages = job[r].pages /\ job'[r].rows = job[r].rows /\ job'[r].since = job[r].since
             /\ job'[r].late = (job[r].stage = "reading")
  <2>1. job[r] \in JobRecord
    BY DEF IInv, JobType
  <2> DEFINE b == (job[r].stage = "reading")
  <2>2. b \in BOOLEAN
    OBVIOUS
  <2>3. job'[r] = [job[r] EXCEPT !.late = b]
    BY <1>1
  <2>4. QED
    <3> HIDE DEF b
    <3>1. /\ job'[r] \in JobRecord
          /\ job'[r].stage = job[r].stage /\ job'[r].left = job[r].left /\ job'[r].pieces = job[r].pieces
          /\ job'[r].pages = job[r].pages /\ job'[r].rows = job[r].rows /\ job'[r].since = job[r].since
          /\ job'[r].late = b
      BY <2>1, <2>2, <2>3 DEF JobRecord
    <3>2. QED
      BY <2>1, <3>1 DEF b
<1>7. JobType'
  <2>1. JobRecord' = JobRecord
    BY <1>1 DEF JobRecord
  <2>2. job' = [r \in Requests |-> job'[r]]
    BY <1>1
  <2>3. QED
    BY <1>6, <2>1, <2>2 DEF JobType
<1>8. ASSUME NEW r \in Requests PROVE (WorkOK(r) /\ RangeRead(r) /\ PagesRead(r) /\ HistoryRead(r))'
  <2>1. WorkOK(r) /\ RangeRead(r) /\ PagesRead(r) /\ HistoryRead(r)
    BY DEF IInv
  <2>2. ToFetch(r)' = ToFetch(r) /\ (Reads(r)' <=> Reads(r))
    BY <1>6 DEF ToFetch, Reads
  <2>3. ASSUME Reads(r) PROVE Began(r)' = Began(r)
    <3>1. ~job[r].late /\ job'[r].late
      BY <1>1, <1>6, <2>3 DEF Reads
    <3>2. Began(r) = day /\ Began(r)' = day' - 1
      BY <3>1 DEF Began
    <3>3. QED
      BY <1>1, <1>2, <3>2
  <2>4. WorkOK(r)' /\ HistoryRead(r)'
    BY <1>1, <1>6, <2>1, <2>2, <2>3 DEF WorkOK, HistoryRead
  <2>5. RangeRead(r)'
    BY <1>1, <1>6, <2>1, <2>2, <2>3 DEF RangeRead, Within
  <2>6. Listing(r)' = Listing(r) /\ TotalOf(Listing(r))' = TotalOf(Listing(r))
    BY <1>1, <1>6 DEF Listing, Within, TotalOf
  <2>7. PagesRead(r)'
    BY <1>6, <2>1, <2>2, <2>3, <2>6 DEF PagesRead
  <2>8. QED
    BY <2>4, <2>5, <2>7
<1>9. QED
  BY <1>3, <1>4, <1>5, <1>7, <1>8 DEF IInv

-----------------------------------------------------------------------------
(* The theorems.                                                           *)

\* At the start nothing is stored or fetched.
LEMMA BookInductiveInit ==
  ASSUME BookInit
  PROVE  IInv
<1>1. HistoryStart \in Nat \ {0} /\ LastDay \in Nat /\ HistoryStart < LastDay /\ RefreshDays \in Nat
      /\ \A t \in Trades : t.date \in Nat
  BY TradebookAssumption
<1>2. CalendarOK
  BY <1>1 DEF BookInit, CalendarOK
<1>3. JobType /\ \A r \in Requests : job[r] = Idle
  BY DEF BookInit, JobType, Idle, JobRecord
<1>4. DOMAIN marks = {}
  BY DEF BookInit
<1>5. MarksType /\ MarkedIsStored
  BY <1>4 DEF MarksType, MarkedIsStored
<1>6. holdingsCache.since = 0 /\ holdingsCache.basis = {} /\ tradeCache = {}
  BY DEF BookInit
<1>7. StoresOK
  BY <1>1 DEF BookInit, StoresOK
<1>8. SettledTradesCounted
  <2>1. \A t \in made : t.date \in Nat
    BY <1>1 DEF BookInit
  <2>2. QED
    BY <1>1, <1>6, <2>1 DEF SettledTradesCounted
<1>9. ASSUME NEW r \in Requests PROVE WorkOK(r) /\ RangeRead(r) /\ PagesRead(r) /\ HistoryRead(r)
  <2>1. job[r].stage = "idle" /\ job[r].left = {} /\ job[r].since = 0
    BY <1>3 DEF Idle
  <2>2. QED
    BY <2>1 DEF WorkOK, RangeRead, PagesRead, HistoryRead, Reads
<1>10. QED
  BY <1>2, <1>3, <1>5, <1>7, <1>8, <1>9 DEF IInv

\* Every step keeps the inductive invariant.
LEMMA BookInductiveStep ==
  ASSUME IInv, [BookNext]_bookVars
  PROVE  IInv'
<1>1. ASSUME NEW r \in Requests, NEW range \in PageRanges, NEW force \in BOOLEAN, Page(r, range, force) PROVE IInv'
  BY <1>1, PageKeeps
<1>2. ASSUME NEW r \in Requests, NEW b \in BOOLEAN, Fault(r, b) PROVE IInv'
  BY <1>2, FaultKeeps
<1>3. ASSUME NEW r \in Requests, Holdings(r) PROVE IInv'
  BY <1>3, HoldingsKeeps
<1>4. ASSUME NEW r \in Requests, ReadPage(r) PROVE IInv'
  BY <1>4, ReadPageKeeps
<1>5. ASSUME NEW r \in Requests, Stored(r) PROVE IInv'
  BY <1>5, StoredKeeps
<1>6. ASSUME NEW t \in Trades, Trade(t) PROVE IInv'
  BY <1>6, TradeKeeps
<1>7. CASE Midnight
  BY <1>7, MidnightKeeps
<1>8. CASE UNCHANGED bookVars
  <2>1. UNCHANGED <<day, made, style, tradeCache, marks, holdingsCache, job>>
    BY <1>8 DEF bookVars
  <2>2. CalendarOK' /\ JobType' /\ MarksType' /\ StoresOK' /\ MarkedIsStored' /\ SettledTradesCounted'
    BY <2>1 DEF IInv, CalendarOK, JobType, JobRecord, MarksType, StoresOK, MarkedIsStored, SettledTradesCounted
  <2>3. ASSUME NEW r \in Requests PROVE (WorkOK(r) /\ RangeRead(r) /\ PagesRead(r) /\ HistoryRead(r))'
    <3>1. WorkOK(r) /\ RangeRead(r) /\ PagesRead(r) /\ HistoryRead(r)
      BY DEF IInv
    <3>2. ToFetch(r)' = ToFetch(r) /\ Listing(r)' = Listing(r) /\ Began(r)' = Began(r) /\ (Reads(r)' <=> Reads(r))
          /\ TotalOf(Listing(r))' = TotalOf(Listing(r))
      BY <2>1 DEF ToFetch, Listing, Began, Reads, TotalOf, Within
    <3>3. QED
      BY <2>1, <3>1, <3>2 DEF WorkOK, RangeRead, PagesRead, HistoryRead, Within
  <2>4. QED
    BY <2>2, <2>3 DEF IInv
<1>9. QED
  BY <1>1, <1>2, <1>3, <1>4, <1>5, <1>6, <1>7, <1>8 DEF BookNext

\* The inductive invariant of the trade history.
THEOREM BookInvariant == BookSpec => []IInv
<1>1. BookInit => IInv
  BY BookInductiveInit
<1>2. IInv /\ [BookNext]_bookVars => IInv'
  BY BookInductiveStep
<1>3. QED
  BY <1>1, <1>2, PTL DEF BookSpec

\* Type correctness: only usable trades that were made are stored or answered.
THEOREM BookTypeCorrect == BookSpec => []BookTypeOK
<1>1. IInv => BookTypeOK
  BY DEF IInv, CalendarOK, MarksType, StoresOK, WorkOK, Reads, BookTypeOK
<1>2. QED
  BY <1>1, BookInvariant, PTL

\* A week marked as fetched on a day has every usable trade of the days that were over when its
\* fetch began (_cache_trade_rows), for any calendar, pages, faults and concurrent requests.
THEOREM MarkedEver == BookSpec => []MarkedIsStored
<1>1. IInv => MarkedIsStored
  BY DEF IInv
<1>2. QED
  BY <1>1, BookInvariant, PTL

\* The stored prices of the holdings count every trade that was older than the refresh interval
\* when their request began (/dp_holdings), whatever was fetched before by other pages.
THEOREM SettledEver == BookSpec => []SettledTradesCounted
<1>1. IInv => SettledTradesCounted
  BY DEF IInv
<1>2. QED
  BY <1>1, BookInvariant, PTL

-----------------------------------------------------------------------------
(* Folds and sums over finite sets.                                        *)

\* A fold over the subsets of D: what is picked of a set, and what it makes of the rest.
Folds(g, D, first, pick, op) ==
  \A s \in SUBSET D : g[s] = IF s = {} THEN first ELSE op[<<pick[s], g[s \ {pick[s]}]>>]

\* Less than the whole of a finite set is smaller.
LEMMA Without ==
  ASSUME NEW s, IsFiniteSet(s), NEW x \in s
  PROVE  /\ IsFiniteSet(s \ {x}) /\ Cardinality(s) \in Nat /\ Cardinality(s \ {x}) \in Nat
         /\ Cardinality(s \ {x}) = Cardinality(s) - 1 /\ Cardinality(s) > 0
<1>1. IsFiniteSet(s \ {x}) /\ Cardinality(s \ {x}) = Cardinality(s) - 1
  BY FS_RemoveElement
<1>2. Cardinality(s) \in Nat /\ Cardinality(s \ {x}) \in Nat
  BY <1>1, FS_CardinalityType
<1>3. QED
  BY <1>1, <1>2

\* There is such a fold over a finite set.
LEMMA FoldExists ==
  ASSUME NEW D, IsFiniteSet(D), NEW V, NEW first \in V, NEW pick, NEW op,
         \A s \in SUBSET D : s # {} => pick[s] \in s,
         \A s \in SUBSET D, v \in V : s # {} => op[<<pick[s], v>>] \in V
  PROVE  \E g \in [SUBSET D -> V] : Folds(g, D, first, pick, op)
<1> DEFINE Step(g, s) == IF s = {} THEN first ELSE op[<<pick[s], g[s \ {pick[s]}]>>]
           UpTo(g, n) == \A s \in SUBSET D : Cardinality(s) <= n => g[s] = Step(g, s)
           Bad == {n \in Nat : ~ \E g \in [SUBSET D -> V] : UpTo(g, n)}
<1>1. \A s \in SUBSET D : IsFiniteSet(s) /\ Cardinality(s) \in Nat /\ Cardinality(s) <= Cardinality(D)
  BY FS_Subset, FS_CardinalityType
<1>2. ASSUME NEW g \in [SUBSET D -> V] PROVE [s \in SUBSET D |-> Step(g, s)] \in [SUBSET D -> V]
  <2>1. ASSUME NEW s \in SUBSET D PROVE Step(g, s) \in V
    <3>1. CASE s = {}
      BY <3>1
    <3>2. CASE s # {}
      <4>1. g[s \ {pick[s]}] \in V
        OBVIOUS
      <4>2. QED BY <3>2, <4>1
    <3>3. QED BY <3>1, <3>2
  <2>2. QED
    <3> HIDE DEF Step
    <3> QED BY <2>1
<1>3. Bad = {}
  <2>1. SUFFICES ASSUME Bad # {} PROVE FALSE
    OBVIOUS
  <2>2. Bad \subseteq Nat
    OBVIOUS
  <2>3. PICK m \in Bad : \A n \in Bad : m <= n
    <3> HIDE DEF Bad
    <3> QED BY <2>1, <2>2, LeastExists
  <2>4. m \in Nat
    BY <2>2
  <2>5. CASE m = 0
    <3> DEFINE g == [s \in SUBSET D |-> first]
    <3>1. g \in [SUBSET D -> V]
      OBVIOUS
    <3>2. ASSUME NEW s \in SUBSET D, Cardinality(s) <= 0 PROVE g[s] = Step(g, s)
      <4>1. s = {}
        BY <1>1, <3>2, FS_EmptySet
      <4>2. QED BY <4>1
    <3>3. UpTo(g, m)
      <4> HIDE DEF g, Step
      <4> QED BY <3>2, <2>5
    <3>4. QED
      <4> HIDE DEF g, UpTo
      <4> QED BY <3>1, <3>3
  <2>6. CASE m # 0
    <3>1. m - 1 \in Nat /\ m - 1 \notin Bad
      <4> HIDE DEF Bad
      <4> QED BY <2>3, <2>4, <2>6, <2>2
    <3>2. PICK h \in [SUBSET D -> V] : UpTo(h, m - 1)
      <4> HIDE DEF UpTo
      <4> QED BY <3>1
    <3> DEFINE g == [s \in SUBSET D |-> Step(h, s)]
    <3>3. g \in [SUBSET D -> V]
      BY <1>2
    <3>4. ASSUME NEW s \in SUBSET D, Cardinality(s) <= m PROVE g[s] = Step(g, s)
      <4>1. CASE s = {}
        BY <4>1
      <4>2. CASE s # {}
        <5> DEFINE r == s \ {pick[s]}
        <5>1. pick[s] \in s /\ r \in SUBSET D
          BY <4>2
        <5>2. Cardinality(r) <= m - 1
          BY <5>1, <1>1, <3>4, <2>4, Without
        <5>3. g[r] = Step(h, r)
          BY <5>1
        <5>4. h[r] = Step(h, r)
          <6> HIDE DEF r, Step, g
          <6> QED BY <3>2, <5>1, <5>2
        <5>5. g[s] = Step(h, s)
          OBVIOUS
        <5>6. QED
          <6> HIDE DEF g
          <6>1. g[r] = h[r]
            BY <5>3, <5>4
          <6>2. QED BY <6>1, <5>5, <4>2
      <4>3. QED BY <4>1, <4>2
    <3>5. UpTo(g, m)
      <4> HIDE DEF g, Step
      <4> QED BY <3>4
    <3>6. QED
      <4> HIDE DEF g, UpTo
      <4> QED BY <3>3, <3>5
  <2>7. QED BY <2>5, <2>6
<1>4. PICK g \in [SUBSET D -> V] : UpTo(g, Cardinality(D))
  <2>1. Cardinality(D) \in Nat
    BY <1>1
  <2> HIDE DEF UpTo
  <2> QED BY <1>3, <2>1
<1>5. QED
  BY <1>1, <1>4 DEF Folds

\* Induction over the subsets of a finite set: what passes from the smaller ones to the larger
\* holds of all.
LEMMA SetInduction ==
  ASSUME NEW D, IsFiniteSet(D), NEW P, {} \in P,
         \A s \in SUBSET D : s # {} /\ (\A x \in s : s \ {x} \in P) => s \in P
  PROVE  \A s \in SUBSET D : s \in P
<1> DEFINE Sizes == {Cardinality(s) : s \in {t \in SUBSET D : t \notin P}}
<1>1. \A s \in SUBSET D : IsFiniteSet(s) /\ Cardinality(s) \in Nat
  BY FS_Subset, FS_CardinalityType
<1>2. SUFFICES ASSUME NEW bad \in SUBSET D, bad \notin P PROVE FALSE
  OBVIOUS
<1>3. Sizes \subseteq Nat /\ Sizes # {}
  BY <1>1, <1>2
<1>4. PICK m \in Sizes : \A n \in Sizes : m <= n
  <2> HIDE DEF Sizes
  <2> QED BY <1>3, LeastExists
<1>5. PICK s \in SUBSET D : s \notin P /\ Cardinality(s) = m
  OBVIOUS
<1>6. s # {}
  BY <1>5
<1>7. ASSUME NEW x \in s PROVE s \ {x} \in P
  <2>1. Cardinality(s \ {x}) < Cardinality(s) /\ Cardinality(s \ {x}) \in Nat /\ Cardinality(s) \in Nat
    BY <1>1, Without
  <2>2. s \ {x} \notin P => Cardinality(s \ {x}) \in Sizes
    OBVIOUS
  <2> HIDE DEF Sizes
  <2> QED BY <2>1, <2>2, <1>4, <1>5
<1>8. QED
  BY <1>5, <1>6, <1>7

\* A sum over a set picks any number first, and adds it to the sum of the rest.
Picks(D) == [s \in SUBSET D |-> CHOOSE x \in s : TRUE]
Adds(f, D) == [p \in D \X Int |-> f[p[1]] + p[2]]
Sums(g, D, f) ==
  /\ \A E \in SUBSET D : SumFunctionOnSet(f, E) = g[E]
  /\ \A s \in SUBSET D : g[s] = IF s = {} THEN 0 ELSE f[Picks(D)[s]] + g[s \ {Picks(D)[s]}]

\* There is a function of the subsets that gives their sums.
LEMMA SumIsFold ==
  ASSUME NEW D, IsFiniteSet(D), NEW f, \A x \in D : f[x] \in Int
  PROVE  \E g \in [SUBSET D -> Int] : Sums(g, D, f)
<1> DEFINE pick == Picks(D)
           op == Adds(f, D)
<1>1. \A s \in SUBSET D : s # {} => pick[s] \in s
  BY DEF Picks
<1>2. \A x \in D, v \in Int : op[<<x, v>>] = f[x] + v /\ f[x] + v \in Int
  BY DEF Adds
<1>3. \A s \in SUBSET D : pick[s] = CHOOSE x \in s : TRUE
  BY DEF Picks
<1> HIDE DEF pick, op
<1>4. PICK g \in [SUBSET D -> Int] : Folds(g, D, 0, pick, op)
  <2>1. 0 \in Int
    OBVIOUS
  <2>2. \A s \in SUBSET D, v \in Int : s # {} => op[<<pick[s], v>>] \in Int
    BY <1>1, <1>2
  <2>3. QED
    BY <1>1, <2>1, <2>2, FoldExists
<1>5. ASSUME NEW s \in SUBSET D
      PROVE  g[s] = IF s = {} THEN 0 ELSE f[pick[s]] + g[s \ {pick[s]}]
  <2>1. CASE s = {}
    BY <1>4, <2>1 DEF Folds
  <2>2. CASE s # {}
    <3>1. g[s] = op[<<pick[s], g[s \ {pick[s]}]>>]
      BY <1>4, <2>2 DEF Folds
    <3>2. pick[s] \in D /\ g[s \ {pick[s]}] \in Int
      BY <1>1, <2>2
    <3>3. QED BY <3>1, <3>2, <1>2, <2>2
  <2>3. QED BY <2>1, <2>2
<1>6. ASSUME NEW E \in SUBSET D PROVE SumFunctionOnSet(f, E) = g[E]
  <2> DEFINE Step(h) == [s \in SUBSET E |-> IF s = {} THEN 0 ELSE f[CHOOSE x \in s : TRUE] + h[s \ {CHOOSE x \in s : TRUE}]]
             iter == CHOOSE h : h = Step(h)
             g0 == [s \in SUBSET E |-> g[s]]
  <2>1. SumFunctionOnSet(f, E) = iter[E]
    BY DEF SumFunctionOnSet, FoldFunctionOnSet, MapThenFoldSet
  <2>2. g0 = Step(g0)
    <3>1. ASSUME NEW s \in SUBSET E PROVE g0[s] = Step(g0)[s]
      <4>1. CASE s = {}
        BY <4>1, <1>5
      <4>2. CASE s # {}
        <5>1. g0[s] = f[pick[s]] + g[s \ {pick[s]}] /\ s \ {pick[s]} \in SUBSET E
          BY <4>2, <1>5
        <5>2. g0[s \ {pick[s]}] = g[s \ {pick[s]}]
          BY <5>1
        <5>3. Step(g0)[s] = f[CHOOSE x \in s : TRUE] + g0[s \ {CHOOSE x \in s : TRUE}]
          BY <4>2
        <5>4. pick[s] = CHOOSE x \in s : TRUE
          BY <1>3
        <5> HIDE DEF g0, Step
        <5>5. QED BY <5>1, <5>2, <5>3, <5>4
      <4>3. QED BY <4>1, <4>2
    <3>2. g0 = [s \in SUBSET E |-> g0[s]] /\ Step(g0) = [s \in SUBSET E |-> Step(g0)[s]]
      OBVIOUS
    <3> HIDE DEF g0, Step
    <3>3. QED BY <3>1, <3>2
  <2>3. iter = Step(iter)
    <3> HIDE DEF Step, g0
    <3> QED BY <2>2
  <2> HIDE DEF iter
  <2>4. ASSUME NEW s \in SUBSET E
        PROVE  iter[s] = IF s = {} THEN 0 ELSE f[pick[s]] + iter[s \ {pick[s]}]
    BY <2>3, <1>3
  <2> DEFINE P == {s \in SUBSET E : iter[s] = g[s]}
  <2>5. {} \in P
    BY <2>4, <1>5
  <2>6. ASSUME NEW s \in SUBSET E, s # {}, \A x \in s : s \ {x} \in P PROVE s \in P
    <3>1. iter[s \ {pick[s]}] = g[s \ {pick[s]}]
      BY <1>1, <2>6
    <3>2. iter[s] = g[s]
      <4> HIDE DEF P, Step
      <4> QED BY <3>1, <2>4, <2>6, <1>5
    <3>3. QED BY <3>2
  <2>7. E \in P
    <3>1. IsFiniteSet(E)
      BY FS_Subset
    <3> HIDE DEF P
    <3>2. \A s \in SUBSET E : s \in P
      BY <2>5, <2>6, <3>1, SetInduction
    <3>3. QED BY <3>2
  <2>8. QED
    BY <2>1, <2>7
<1>7. QED
  BY <1>4, <1>5, <1>6 DEF pick, Sums

\* The sum of no numbers, and its type.
LEMMA SumType ==
  ASSUME NEW D, IsFiniteSet(D), NEW f, \A x \in D : f[x] \in Int
  PROVE  SumFunctionOnSet(f, {}) = 0 /\ SumFunctionOnSet(f, D) \in Int
<1>1. PICK g \in [SUBSET D -> Int] : Sums(g, D, f)
  BY SumIsFold
<1>2. g[{}] = 0
  BY <1>1 DEF Sums
<1>3. {} \in SUBSET D /\ D \in SUBSET D
  OBVIOUS
<1>4. QED
  BY <1>1, <1>2, <1>3 DEF Sums

\* Any of the numbers can be taken out first.
LEMMA SumRemove ==
  ASSUME NEW D, IsFiniteSet(D), NEW f, \A x \in D : f[x] \in Int, NEW y \in D
  PROVE  SumFunctionOnSet(f, D) = f[y] + SumFunctionOnSet(f, D \ {y})
<1>1. PICK g \in [SUBSET D -> Int] : Sums(g, D, f)
  BY SumIsFold
<1> DEFINE P == {s \in SUBSET D : \A x \in s : g[s] = f[x] + g[s \ {x}]}
<1>2. {} \in P
  OBVIOUS
<1>3. ASSUME NEW s \in SUBSET D, s # {}, \A x \in s : s \ {x} \in P PROVE s \in P
  <2>1. SUFFICES ASSUME NEW x \in s PROVE g[s] = f[x] + g[s \ {x}]
    OBVIOUS
  <2> DEFINE p == Picks(D)[s]
  <2>2. p \in s
    BY <1>3 DEF Picks
  <2>3. g[s \ {p}] \in Int /\ g[s \ {x}] \in Int /\ g[(s \ {p}) \ {x}] \in Int /\ p \in D /\ x \in D
    BY <2>2
  <2>4. g[s] = f[p] + g[s \ {p}] /\ f[p] \in Int /\ f[x] \in Int
    BY <2>3, <1>1, <1>3 DEF Sums
  <2> HIDE DEF p
  <2>5. CASE p = x
    BY <2>4, <2>5
  <2>6. CASE p # x
    <3>1. g[s \ {p}] = f[x] + g[(s \ {p}) \ {x}]
      <4>1. s \ {p} \in P /\ x \in s \ {p}
        BY <1>3, <2>2, <2>6
      <4>2. QED BY <4>1
    <3>2. g[s \ {x}] = f[p] + g[(s \ {x}) \ {p}]
      <4>1. s \ {x} \in P /\ p \in s \ {x}
        BY <1>3, <2>2, <2>6
      <4>2. QED BY <4>1
    <3>3. (s \ {x}) \ {p} = (s \ {p}) \ {x}
      OBVIOUS
    <3>4. g[s] = f[p] + (f[x] + g[(s \ {p}) \ {x}]) /\ g[s \ {x}] = f[p] + g[(s \ {p}) \ {x}]
      BY <3>1, <3>2, <3>3, <2>4
    <3> HIDE DEF P
    <3>5. QED BY <3>4, <2>3, <2>4
  <2>7. QED BY <2>5, <2>6
<1>4. D \in P
  <2> HIDE DEF P
  <2>1. \A s \in SUBSET D : s \in P
    BY <1>2, <1>3, SetInduction
  <2>2. QED BY <2>1
<1>5. g[D] = f[y] + g[D \ {y}] /\ D \in SUBSET D /\ D \ {y} \in SUBSET D
  BY <1>4
<1>6. QED
  BY <1>1, <1>5 DEF Sums

\* The sum of sums.
LEMMA SumPlus ==
  ASSUME NEW D, IsFiniteSet(D), NEW f, NEW g, NEW h,
         \A x \in D : f[x] \in Int /\ g[x] \in Int /\ h[x] = f[x] + g[x]
  PROVE  SumFunctionOnSet(h, D) = SumFunctionOnSet(f, D) + SumFunctionOnSet(g, D)
<1> DEFINE P == {s \in SUBSET D : SumFunctionOnSet(h, s) = SumFunctionOnSet(f, s) + SumFunctionOnSet(g, s)}
<1>1. \A s \in SUBSET D : IsFiniteSet(s)
  BY FS_Subset
<1>2. \A x \in D : f[x] \in Int /\ g[x] \in Int /\ h[x] \in Int
  OBVIOUS
<1>3. {} \in P
  <2>1. SumFunctionOnSet(h, {}) = 0 /\ SumFunctionOnSet(f, {}) = 0 /\ SumFunctionOnSet(g, {}) = 0
    BY <1>2, SumType
  <2>2. QED BY <2>1
<1>4. ASSUME NEW s \in SUBSET D, s # {}, \A x \in s : s \ {x} \in P PROVE s \in P
  <2>1. PICK x \in s : TRUE
    BY <1>4
  <2>2. IsFiniteSet(s) /\ s \ {x} \in SUBSET D /\ IsFiniteSet(s \ {x})
    BY <1>1
  <2>3. SumFunctionOnSet(h, s) = h[x] + SumFunctionOnSet(h, s \ {x})
    BY <1>2, <2>2, SumRemove
  <2>4. SumFunctionOnSet(f, s) = f[x] + SumFunctionOnSet(f, s \ {x})
    BY <1>2, <2>2, SumRemove
  <2>5. SumFunctionOnSet(g, s) = g[x] + SumFunctionOnSet(g, s \ {x})
    BY <1>2, <2>2, SumRemove
  <2>6. SumFunctionOnSet(f, s \ {x}) \in Int /\ SumFunctionOnSet(g, s \ {x}) \in Int
    BY <1>2, <2>2, SumType
  <2>7. SumFunctionOnSet(h, s \ {x}) = SumFunctionOnSet(f, s \ {x}) + SumFunctionOnSet(g, s \ {x})
    BY <1>4
  <2>8. h[x] = f[x] + g[x] /\ f[x] \in Int /\ g[x] \in Int
    OBVIOUS
  <2>9. QED
    BY <2>3, <2>4, <2>5, <2>6, <2>7, <2>8
<1>5. D \in P
  <2> HIDE DEF P
  <2>1. \A s \in SUBSET D : s \in P
    BY <1>3, <1>4, SetInduction
  <2>2. QED BY <2>1
<1>6. QED
  BY <1>5

\* Numbers that are the same have the same sum, wherever they are kept.
LEMMA SumSame ==
  ASSUME NEW D, IsFiniteSet(D), NEW f, NEW h, \A x \in D : f[x] \in Int /\ h[x] = f[x]
  PROVE  SumFunctionOnSet(h, D) = SumFunctionOnSet(f, D)
<1> DEFINE zero == [x \in D |-> 0]
<1>1. \A x \in D : zero[x] = 0
  OBVIOUS
<1> HIDE DEF zero
<1>2. SumFunctionOnSet(zero, D) = SumFunctionOnSet(zero, D) + SumFunctionOnSet(zero, D) /\ SumFunctionOnSet(zero, D) \in Int
  <2>1. \A x \in D : zero[x] \in Int /\ zero[x] \in Int /\ zero[x] = zero[x] + zero[x]
    BY <1>1
  <2>2. QED BY <2>1, SumPlus, SumType
<1>3. SumFunctionOnSet(h, D) = SumFunctionOnSet(f, D) + SumFunctionOnSet(zero, D)
  <2>1. \A x \in D : f[x] \in Int /\ zero[x] \in Int /\ h[x] = f[x] + zero[x]
    BY <1>1
  <2>2. QED BY <2>1, SumPlus
<1>4. SumFunctionOnSet(f, D) \in Int
  BY SumType
<1>5. ASSUME NEW a \in Int, NEW z \in Int, z = z + z, NEW b, b = a + z PROVE b = a
  BY <1>5
<1>6. QED
  BY <1>2, <1>3, <1>4, <1>5

\* What is not negative has no negative sum.
LEMMA SumNatural ==
  ASSUME NEW D, IsFiniteSet(D), NEW f, \A x \in D : f[x] \in Nat
  PROVE  SumFunctionOnSet(f, D) \in Nat
<1> DEFINE P == {s \in SUBSET D : SumFunctionOnSet(f, s) \in Nat}
<1>1. \A s \in SUBSET D : IsFiniteSet(s)
  BY FS_Subset
<1>2. \A x \in D : f[x] \in Int
  OBVIOUS
<1>3. {} \in P
  BY <1>2, SumType
<1>4. ASSUME NEW s \in SUBSET D, s # {}, \A x \in s : s \ {x} \in P PROVE s \in P
  <2>1. PICK x \in s : TRUE
    BY <1>4
  <2>2. SumFunctionOnSet(f, s) = f[x] + SumFunctionOnSet(f, s \ {x})
    BY <1>1, <1>2, SumRemove
  <2>3. SumFunctionOnSet(f, s \ {x}) \in Nat /\ f[x] \in Nat
    BY <1>4
  <2>4. QED
    BY <2>2, <2>3
<1>5. D \in P
  <2> HIDE DEF P
  <2>1. \A s \in SUBSET D : s \in P
    BY <1>3, <1>4, SetInduction
  <2>2. QED BY <2>1
<1>6. QED
  BY <1>5

\* Zeros do not count.
LEMMA SumWithoutZeros ==
  ASSUME NEW D, IsFiniteSet(D), NEW E \in SUBSET D, NEW f, \A x \in D : f[x] \in Int,
         \A x \in D \ E : f[x] = 0
  PROVE  SumFunctionOnSet(f, D) = SumFunctionOnSet(f, E)
<1> DEFINE P == {s \in SUBSET D : SumFunctionOnSet(f, s) = SumFunctionOnSet(f, s \cap E)}
<1>1. \A s \in SUBSET D : IsFiniteSet(s)
  BY FS_Subset
<1>2. {} \in P
  <2>1. {} \cap E = {}
    OBVIOUS
  <2>2. QED BY <2>1
<1>3. ASSUME NEW s \in SUBSET D, s # {}, \A x \in s : s \ {x} \in P PROVE s \in P
  <2>1. PICK x \in s : TRUE
    BY <1>3
  <2>2. SumFunctionOnSet(f, s) = f[x] + SumFunctionOnSet(f, s \ {x})
    BY <1>1, SumRemove
  <2>3. SumFunctionOnSet(f, s \ {x}) = SumFunctionOnSet(f, (s \ {x}) \cap E)
    BY <1>3
  <2>4. SumFunctionOnSet(f, s \cap E) \in Int /\ SumFunctionOnSet(f, s \ {x}) \in Int
    <3>1. s \cap E \in SUBSET D /\ s \ {x} \in SUBSET D
      OBVIOUS
    <3>2. IsFiniteSet(s \cap E) /\ IsFiniteSet(s \ {x})
      BY <1>1, <3>1
    <3>3. QED BY <3>1, <3>2, SumType
  <2>5. CASE x \in E
    <3>1. (s \ {x}) \cap E = (s \cap E) \ {x} /\ x \in s \cap E /\ s \cap E \in SUBSET D
      BY <2>5
    <3>2. SumFunctionOnSet(f, s \cap E) = f[x] + SumFunctionOnSet(f, (s \cap E) \ {x})
      <4>1. IsFiniteSet(s \cap E) /\ \A y \in s \cap E : f[y] \in Int
        BY <1>1, <3>1
      <4>2. QED BY <4>1, <3>1, SumRemove
    <3>3. QED BY <2>2, <2>3, <3>1, <3>2
  <2>6. CASE x \notin E
    <3>1. (s \ {x}) \cap E = s \cap E /\ f[x] = 0
      BY <2>6
    <3>2. SumFunctionOnSet(f, s) = 0 + SumFunctionOnSet(f, s \ {x})
      BY <2>2, <3>1
    <3>3. SumFunctionOnSet(f, s) = SumFunctionOnSet(f, s \cap E)
      <4>1. SumFunctionOnSet(f, (s \ {x}) \cap E) = SumFunctionOnSet(f, s \cap E)
        BY <3>1, Zenon
      <4>2. SumFunctionOnSet(f, s) = SumFunctionOnSet(f, s \ {x})
        BY <3>2, <2>4
      <4>3. QED BY <4>1, <4>2, <2>3, Zenon
    <3>4. QED BY <3>3
  <2>7. QED
    BY <2>5, <2>6
<1>4. D \in P
  <2> HIDE DEF P
  <2>1. \A s \in SUBSET D : s \in P
    BY <1>2, <1>3, SetInduction
  <2>2. QED BY <2>1
<1>5. D \cap E = E
  OBVIOUS
<1>6. QED
  BY <1>4, <1>5

\* A sum is that of a part and that of the rest.
LEMMA SumSplit ==
  ASSUME NEW D, IsFiniteSet(D), NEW E \in SUBSET D, NEW f, \A x \in D : f[x] \in Int
  PROVE  SumFunctionOnSet(f, D) = SumFunctionOnSet(f, E) + SumFunctionOnSet(f, D \ E)
<1> DEFINE g == [x \in D |-> IF x \in E THEN f[x] ELSE 0]
           h == [x \in D |-> IF x \in E THEN 0 ELSE f[x]]
<1>1. \A x \in D : /\ g[x] \in Int /\ h[x] \in Int /\ f[x] = g[x] + h[x]
                   /\ (x \in E => g[x] = f[x]) /\ (x \notin E => h[x] = f[x])
                   /\ (x \in E => h[x] = 0) /\ (x \notin E => g[x] = 0)
  OBVIOUS
<1>2. IsFiniteSet(E) /\ IsFiniteSet(D \ E) /\ D \ E \in SUBSET D
  BY FS_Subset
<1> HIDE DEF g, h
<1>3. SumFunctionOnSet(f, D) = SumFunctionOnSet(g, D) + SumFunctionOnSet(h, D)
  BY <1>1, SumPlus
<1>4. SumFunctionOnSet(g, D) = SumFunctionOnSet(g, E)
  BY <1>1, SumWithoutZeros
<1>5. SumFunctionOnSet(h, D) = SumFunctionOnSet(h, D \ E)
  BY <1>1, <1>2, SumWithoutZeros
<1>6. SumFunctionOnSet(g, E) = SumFunctionOnSet(f, E)
  <2>1. \A x \in E : f[x] \in Int /\ g[x] = f[x]
    BY <1>1
  <2>2. QED BY <2>1, <1>2, SumSame
<1>7. SumFunctionOnSet(h, D \ E) = SumFunctionOnSet(f, D \ E)
  <2>1. \A x \in D \ E : f[x] \in Int /\ h[x] = f[x]
    BY <1>1
  <2>2. QED BY <2>1, <1>2, SumSame
<1>8. QED
  BY <1>3, <1>4, <1>5, <1>6, <1>7

-----------------------------------------------------------------------------
(* Lots.                                                                   *)

\* The trades that are left are a set of which the latest is taken first.
LEMMA LatestIn ==
  ASSUME NEW S \in SUBSET Trades, S # {}
  PROVE  Latest(S) \in S /\ \A u \in S : u = Latest(S) \/ Before(u, Latest(S))
<1> DEFINE IsLatest(t, s) == \A u \in s : u = t \/ Before(u, t)
           P == {s \in SUBSET Trades : s # {} => \E t \in s : IsLatest(t, s)}
<1>1. IsFiniteSet(Trades)
  BY FiniteTrades
<1>2. {} \in P
  OBVIOUS
<1>3. ASSUME NEW s \in SUBSET Trades, s # {}, \A x \in s : s \ {x} \in P PROVE s \in P
  <2>1. PICK x \in s : TRUE
    BY <1>3
  <2>2. CASE s \ {x} = {}
    BY <2>2
  <2>3. CASE s \ {x} # {}
    <3>1. PICK t \in s \ {x} : IsLatest(t, s \ {x})
      BY <1>3, <2>3
    <3>2. CASE Before(x, t)
      BY <3>1, <3>2
    <3>3. CASE ~Before(x, t)
      <4>1. Before(t, x)
        BY <3>3, BrokerOrder
      <4>2. ASSUME NEW u \in s, u # x PROVE Before(u, x)
        <5>1. u = t \/ Before(u, t)
          BY <3>1, <4>2
        <5>2. u \in Trades /\ t \in Trades /\ x \in Trades
          OBVIOUS
        <5>3. QED BY <5>1, <5>2, <4>1, BrokerOrder
      <4>3. QED BY <4>2
    <3>4. QED BY <3>2, <3>3
  <2>4. QED BY <2>2, <2>3
<1>4. S \in P
  <2> HIDE DEF P
  <2> QED BY <1>1, <1>2, <1>3, SetInduction
<1>5. \E t \in S : IsLatest(t, S)
  BY <1>4
<1>6. QED
  BY <1>5 DEF Latest

\* Lots are natural numbers of units of some trades.
LotBooks == UNION {[d -> Nat] : d \in SUBSET Trades}

\* They are finite, and their sums are natural numbers.
LEMMA LotsType ==
  ASSUME NEW lots \in LotBooks
  PROVE  /\ DOMAIN lots \in SUBSET Trades /\ lots \in [DOMAIN lots -> Nat] /\ IsFiniteSet(DOMAIN lots)
         /\ \A S \in SUBSET DOMAIN lots : SumFunctionOnSet(lots, S) \in Nat
<1>1. PICK d \in SUBSET Trades : lots \in [d -> Nat]
  BY DEF LotBooks
<1>2. DOMAIN lots = d
  BY <1>1
<1>3. IsFiniteSet(d)
  BY FiniteTrades
<1>4. ASSUME NEW S \in SUBSET d PROVE SumFunctionOnSet(lots, S) \in Nat
  <2>1. IsFiniteSet(S) /\ \A x \in S : lots[x] \in Nat
    BY <1>1, <1>3, FiniteTrades
  <2>2. QED BY <2>1, SumNatural
<1>5. QED
  BY <1>1, <1>2, <1>3, <1>4

\* A sale takes no more of a lot than it has.
LEMMA TakenType ==
  ASSUME NEW lots \in LotBooks, NEW qty \in Nat
  PROVE  /\ DOMAIN Taken(lots, qty) = DOMAIN lots
         /\ \A t \in DOMAIN lots :
              /\ Taken(lots, qty)[t] = Clamp(qty - SumFunctionOnSet(lots, Older(lots, t)), lots[t])
              /\ Taken(lots, qty)[t] \in 0..lots[t] /\ lots[t] \in Nat
<1>1. ASSUME NEW t \in DOMAIN lots
      PROVE  /\ Taken(lots, qty)[t] = Clamp(qty - SumFunctionOnSet(lots, Older(lots, t)), lots[t])
             /\ Taken(lots, qty)[t] \in 0..lots[t] /\ lots[t] \in Nat
  <2>1. Older(lots, t) \in SUBSET DOMAIN lots
    BY DEF Older
  <2>2. SumFunctionOnSet(lots, Older(lots, t)) \in Nat /\ lots[t] \in Nat
    BY <2>1, LotsType
  <2>3. Taken(lots, qty)[t] = Clamp(qty - SumFunctionOnSet(lots, Older(lots, t)), lots[t])
    BY DEF Taken
  <2>4. QED
    BY <2>2, <2>3 DEF Clamp
<1>2. DOMAIN Taken(lots, qty) = DOMAIN lots
  BY DEF Taken
<1>3. QED
  BY <1>1, <1>2

\* Every trade leaves lots.
LEMMA AfterTradeType ==
  ASSUME NEW t \in Trades, NEW lots \in LotBooks
  PROVE  AfterTrade(t, lots) \in LotBooks
<1>1. DOMAIN lots \in SUBSET Trades /\ lots \in [DOMAIN lots -> Nat] /\ t.qty \in Nat
  BY LotsType, TradebookAssumption
<1>2. CASE t.side = "buy"
  <2> DEFINE d == DOMAIN lots \cup {t}
  <2>1. AfterTrade(t, lots) = [u \in d |-> IF u = t THEN t.qty ELSE lots[u]]
    BY <1>2 DEF AfterTrade
  <2>2. AfterTrade(t, lots) \in [d -> Nat] /\ d \in SUBSET Trades
    BY <2>1, <1>1
  <2>3. QED BY <2>2 DEF LotBooks
<1>3. CASE t.side # "buy"
  <2> DEFINE taken == Taken(lots, t.qty)
             d == {u \in DOMAIN lots : taken[u] < lots[u]}
  <2>1. AfterTrade(t, lots) = [u \in d |-> lots[u] - taken[u]]
    BY <1>3 DEF AfterTrade, Reduced
  <2>2. \A u \in d : taken[u] \in 0..lots[u] /\ lots[u] \in Nat
    BY <1>1, TakenType
  <2>3. \A u \in d : lots[u] - taken[u] \in Nat
    <3> HIDE DEF taken, d
    <3> QED BY <2>2
  <2>4. d \in SUBSET Trades
    BY <1>1
  <2>5. AfterTrade(t, lots) \in [d -> Nat]
    <3> HIDE DEF d, taken
    <3> QED BY <2>1, <2>3
  <2>6. QED BY <2>4, <2>5 DEF LotBooks
<1>4. QED
  BY <1>2, <1>3

\* The lots are those of the earlier trades after the latest trade.

\* The lots of a set of trades are those of the trades before the latest, and then the latest.
LEMMA OpenLotsIs ==
  /\ OpenLots({}) = NoLots
  /\ \A S \in SUBSET Trades : OpenLots(S) \in LotBooks
  /\ \A S \in SUBSET Trades : S # {} => OpenLots(S) = AfterTrade(Latest(S), OpenLots(S \ {Latest(S)}))
<1> DEFINE pick == [s \in SUBSET Trades |-> Latest(s)]
           op == [p \in Trades \X LotBooks |-> AfterTrade(p[1], p[2])]
<1>1. \A s \in SUBSET Trades : pick[s] = Latest(s)
  OBVIOUS
<1>2. \A t \in Trades, lots \in LotBooks : op[<<t, lots>>] = AfterTrade(t, lots)
  OBVIOUS
<1> HIDE DEF pick, op
<1>3. PICK g \in [SUBSET Trades -> LotBooks] : Folds(g, Trades, NoLots, pick, op)
  <2>1. IsFiniteSet(Trades)
    BY FiniteTrades
  <2>2. NoLots \in LotBooks
    <3>1. NoLots \in [{} -> Nat] /\ {} \in SUBSET Trades
      BY DEF NoLots
    <3>2. QED BY <3>1 DEF LotBooks
  <2>3. \A s \in SUBSET Trades : s # {} => pick[s] \in s
    BY <1>1, LatestIn
  <2>4. \A s \in SUBSET Trades, v \in LotBooks : s # {} => op[<<pick[s], v>>] \in LotBooks
    BY <2>3, <1>2, AfterTradeType
  <2>5. QED
    BY <2>1, <2>2, <2>3, <2>4, FoldExists
<1>4. ASSUME NEW s \in SUBSET Trades
      PROVE  g[s] = IF s = {} THEN NoLots ELSE AfterTrade(Latest(s), g[s \ {Latest(s)}])
  <2>1. CASE s = {}
    BY <1>3, <2>1 DEF Folds
  <2>2. CASE s # {}
    <3>1. Latest(s) \in s /\ g[s \ {Latest(s)}] \in LotBooks
      BY <2>2, LatestIn
    <3>2. g[s] = op[<<pick[s], g[s \ {pick[s]}]>>]
      BY <1>3, <2>2 DEF Folds
    <3>3. QED BY <3>1, <3>2, <1>1, <1>2, <2>2
  <2>3. QED BY <2>1, <2>2
<1>5. ASSUME NEW E \in SUBSET Trades PROVE OpenLots(E) = g[E]
  <2> DEFINE Step(h) == [s \in SUBSET E |-> IF s = {} THEN NoLots ELSE AfterTrade(Latest(s), h[s \ {Latest(s)}])]
             iter == CHOOSE h : h = Step(h)
             h0 == [s \in SUBSET E |-> g[s]]
  <2>1. OpenLots(E) = iter[E]
    BY DEF OpenLots, MapThenFoldSet
  <2>2. h0 = Step(h0)
    <3>1. ASSUME NEW s \in SUBSET E PROVE h0[s] = Step(h0)[s]
      <4>1. CASE s = {}
        BY <4>1, <1>4
      <4>2. CASE s # {}
        <5>1. h0[s] = AfterTrade(Latest(s), g[s \ {Latest(s)}])
          BY <4>2, <1>4
        <5>2. h0[s \ {Latest(s)}] = g[s \ {Latest(s)}]
          OBVIOUS
        <5>3. Step(h0)[s] = AfterTrade(Latest(s), h0[s \ {Latest(s)}])
          BY <4>2
        <5> HIDE DEF h0, Step
        <5>4. QED BY <5>1, <5>2, <5>3
      <4>3. QED BY <4>1, <4>2
    <3>2. DOMAIN h0 = SUBSET E /\ DOMAIN Step(h0) = SUBSET E
      OBVIOUS
    <3>3. h0 = [s \in SUBSET E |-> h0[s]] /\ Step(h0) = [s \in SUBSET E |-> Step(h0)[s]]
      OBVIOUS
    <3> HIDE DEF h0, Step
    <3>4. QED BY <3>1, <3>3
  <2>3. iter = Step(iter)
    <3> HIDE DEF Step, h0
    <3> QED BY <2>2
  <2> HIDE DEF iter
  <2>4. ASSUME NEW s \in SUBSET E
        PROVE  iter[s] = IF s = {} THEN NoLots ELSE AfterTrade(Latest(s), iter[s \ {Latest(s)}])
    BY <2>3
  <2> DEFINE P == {s \in SUBSET E : iter[s] = g[s]}
  <2>5. {} \in P
    BY <2>4, <1>4
  <2>6. ASSUME NEW s \in SUBSET E, s # {}, \A x \in s : s \ {x} \in P PROVE s \in P
    <3>1. Latest(s) \in s
      BY <2>6, LatestIn
    <3>2. iter[s \ {Latest(s)}] = g[s \ {Latest(s)}]
      BY <3>1, <2>6
    <3>3. iter[s] = g[s]
      <4> HIDE DEF P, Step
      <4> QED BY <3>2, <2>4, <2>6, <1>4
    <3>4. QED BY <3>3
  <2>7. E \in P
    <3>1. IsFiniteSet(E)
      BY FiniteTrades
    <3> HIDE DEF P
    <3>2. \A s \in SUBSET E : s \in P
      BY <2>5, <2>6, <3>1, SetInduction
    <3>3. QED BY <3>2
  <2>8. QED
    BY <2>1, <2>7
<1>6. OpenLots({}) = NoLots
  BY <1>4, <1>5
<1>7. ASSUME NEW S \in SUBSET Trades PROVE OpenLots(S) \in LotBooks
  BY <1>5
<1>8. ASSUME NEW S \in SUBSET Trades, S # {} PROVE OpenLots(S) = AfterTrade(Latest(S), OpenLots(S \ {Latest(S)}))
  <2>1. S \ {Latest(S)} \in SUBSET Trades
    OBVIOUS
  <2>2. OpenLots(S) = g[S] /\ OpenLots(S \ {Latest(S)}) = g[S \ {Latest(S)}]
    BY <1>5, <2>1
  <2>3. QED BY <2>2, <1>4, <1>8
<1>9. QED
  BY <1>6, <1>7, <1>8

\* What is bought or sold of a set of trades, counted trade by trade.
LEMMA SumOfIs ==
  ASSUME NEW S \in SUBSET Trades, NEW side
  PROVE  /\ SumOf(S, side) \in Nat /\ SumOf({}, side) = 0
         /\ \A t \in S : SumOf(S, side) = (IF t.side = side THEN t.qty ELSE 0) + SumOf(S \ {t}, side)
<1> DEFINE q == [t \in Trades |-> t.qty]
           Of(s) == {u \in s : u.side = side}
<1>1. \A t \in Trades : q[t] = t.qty /\ t.qty \in Nat
  BY TradebookAssumption
<1> HIDE DEF q
<1>2. ASSUME NEW s \in SUBSET Trades
      PROVE  /\ SumOf(s, side) = SumFunctionOnSet(q, Of(s))
             /\ Of(s) \in SUBSET Trades /\ IsFiniteSet(Of(s))
  <2> DEFINE d == Of(s)
             h == [t \in d |-> t.qty]
  <2>1. d \in SUBSET Trades
    OBVIOUS
  <2>2. IsFiniteSet(d)
    BY <2>1, FiniteTrades
  <2>3. SumOf(s, side) = SumFunctionOnSet(h, DOMAIN h)
    BY DEF SumOf, SumFunction
  <2>4. DOMAIN h = d /\ \A x \in d : h[x] = q[x] /\ q[x] \in Int
    BY <1>1
  <2>5. SumFunctionOnSet(h, d) = SumFunctionOnSet(q, d)
    <3> HIDE DEF h, d
    <3> QED BY <2>2, <2>4, SumSame
  <2>6. SumFunctionOnSet(h, DOMAIN h) = SumFunctionOnSet(h, d)
    BY <2>4, Zenon
  <2>7. QED
    BY <2>1, <2>2, <2>3, <2>5, <2>6
<1>3. SumOf({}, side) = 0
  <2>1. Of({}) = {} /\ {} \in SUBSET Trades
    OBVIOUS
  <2>2. SumFunctionOnSet(q, {}) = 0
    BY <1>1, FS_EmptySet, SumType
  <2>3. QED BY <1>2, <2>1, <2>2
<1>4. SumOf(S, side) \in Nat
  BY <1>1, <1>2, SumNatural
<1>5. ASSUME NEW t \in S
      PROVE  SumOf(S, side) = (IF t.side = side THEN t.qty ELSE 0) + SumOf(S \ {t}, side)
  <2>1. SumOf(S \ {t}, side) = SumFunctionOnSet(q, Of(S \ {t}))
    BY <1>2
  <2>2. CASE t.side = side
    <3>1. Of(S \ {t}) = Of(S) \ {t} /\ t \in Of(S)
      BY <2>2
    <3>2. SumFunctionOnSet(q, Of(S)) = q[t] + SumFunctionOnSet(q, Of(S) \ {t})
      <4>1. \A x \in Of(S) : q[x] \in Int
        BY <1>1
      <4> HIDE DEF Of
      <4> QED BY <4>1, <1>2, <3>1, SumRemove
    <3>3. QED BY <1>1, <1>2, <2>1, <2>2, <3>1, <3>2
  <2>3. CASE t.side # side
    <3>1. Of(S \ {t}) = Of(S)
      BY <2>3
    <3>2. QED BY <1>2, <1>4, <2>1, <2>3, <3>1
  <2>4. QED BY <2>2, <2>3
<1>6. QED
  BY <1>3, <1>4, <1>5

\* What is newer than a trade, without the latest trade.
LEMMA NewerIs ==
  ASSUME NEW S \in SUBSET Trades, S # {}
  PROVE  /\ Newer(Latest(S), S) = {Latest(S)}
         /\ \A u \in S \ {Latest(S)} : /\ Newer(u, S \ {Latest(S)}) = Newer(u, S) \ {Latest(S)}
                                        /\ Latest(S) \in Newer(u, S)
<1> DEFINE t == Latest(S)
<1>1. t \in S /\ \A u \in S : u = t \/ Before(u, t)
  BY LatestIn
<1> HIDE DEF t
<1>2. \A u \in S : ~Before(t, u)
  BY <1>1, BrokerOrder
<1>3. Newer(t, S) = {t}
  BY <1>1, <1>2 DEF Newer
<1>4. ASSUME NEW u \in S \ {t} PROVE Newer(u, S \ {t}) = Newer(u, S) \ {t} /\ t \in Newer(u, S)
  BY <1>1, <1>4 DEF Newer
<1>5. QED
  BY <1>3, <1>4 DEF t

PricedTrades == {t \in Trades : Priced(t)}

\* What every trade changes of the balances after it.
Change(t) == IF t.side = "buy" THEN t.qty ELSE 0 - t.qty
\* The balance of a set is that of its trades.
LEMMA BalanceIs ==
  ASSUME NEW S \in SUBSET PricedTrades
  PROVE  /\ Balance(S) \in Int /\ Balance({}) = 0
         /\ \A t \in S : Balance(S) = Change(t) + Balance(S \ {t})
<1>1. S \in SUBSET Trades /\ {} \in SUBSET Trades
  BY DEF PricedTrades
<1>2. SumOf(S, "buy") \in Nat /\ SumOf(S, "sell") \in Nat /\ SumOf({}, "buy") = 0 /\ SumOf({}, "sell") = 0
  BY <1>1, SumOfIs
<1>3. Balance(S) \in Int /\ Balance({}) = 0
  BY <1>2 DEF Balance
<1>4. ASSUME NEW t \in S PROVE Balance(S) = Change(t) + Balance(S \ {t})
  <2>1. SumOf(S, "buy") = (IF t.side = "buy" THEN t.qty ELSE 0) + SumOf(S \ {t}, "buy")
    BY <1>1, SumOfIs
  <2>2. SumOf(S, "sell") = (IF t.side = "sell" THEN t.qty ELSE 0) + SumOf(S \ {t}, "sell")
    BY <1>1, SumOfIs
  <2>3. SumOf(S \ {t}, "buy") \in Nat /\ SumOf(S \ {t}, "sell") \in Nat
    <3>1. S \ {t} \in SUBSET Trades
      BY <1>1
    <3>2. QED BY <3>1, SumOfIs
  <2>4. t.side \in {"buy", "sell"} /\ t.qty \in Nat
    BY <1>1, TradebookAssumption DEF PricedTrades, Priced, Usable
  <2>5. QED
    BY <2>1, <2>2, <2>3, <2>4 DEF Balance, Change
<1>5. QED
  BY <1>3, <1>4

\* A number is the open quantity when it is the largest of the balances.
Largest(n, S) ==
  /\ n \in Nat /\ (n = 0 \/ \E t \in S : n = Balance(Newer(t, S)))
  /\ \A t \in S : Balance(Newer(t, S)) <= n

\* There is one such number.
LEMMA LargestIs ==
  ASSUME NEW S \in SUBSET PricedTrades, NEW n, Largest(n, S)
  PROVE  OpenQuantity(S) = n
<1> DEFINE balances == {0} \cup {Balance(Newer(t, S)) : t \in S}
<1>1. n \in balances /\ \A m \in balances : m <= n
  BY DEF Largest
<1>2. ASSUME NEW t \in S PROVE Balance(Newer(t, S)) \in Int
  <2>1. Newer(t, S) \in SUBSET PricedTrades
    BY DEF Newer
  <2>2. QED BY <2>1, BalanceIs
<1>3. balances \subseteq Int
  BY <1>2
<1>4. \A m \in balances : (\A k \in balances : k <= m) => m = n
  <2> HIDE DEF balances
  <2> QED BY <1>1, <1>3
<1>5. OpenQuantity(S) = CHOOSE m \in balances : \A k \in balances : k <= m
  BY DEF OpenQuantity
<1> HIDE DEF balances
<1>6. QED
  BY <1>1, <1>4, <1>5

\* How the latest trade changes the largest balance.
Opened(n, t) == IF t.side = "buy" THEN n + t.qty ELSE IF n < t.qty THEN 0 ELSE n - t.qty
\* The largest balance goes on to be the largest.
LEMMA LargestGoesOn ==
  ASSUME NEW S \in SUBSET PricedTrades, S # {}, NEW n, Largest(n, S \ {Latest(S)})
  PROVE  Largest(Opened(n, Latest(S)), S)
<1> DEFINE t == Latest(S)
           r == S \ {t}
           k == Opened(n, t)
<1>1. t \in S /\ S \in SUBSET Trades
  BY LatestIn DEF PricedTrades
<1>2. t.side \in {"buy", "sell"} /\ t.qty \in Nat
  BY <1>1, TradebookAssumption DEF PricedTrades, Priced, Usable
<1>3. Balance(Newer(t, S)) = Change(t)
  <2>1. Newer(t, S) = {t} /\ {t} \in SUBSET PricedTrades /\ {t} \ {t} = {}
    BY <1>1, NewerIs
  <2>2. Balance({t}) = Change(t) + Balance({t} \ {t}) /\ Balance({}) = 0
    BY <2>1, BalanceIs
  <2>3. Change(t) \in Int
    BY <1>2 DEF Change
  <2> HIDE DEF t
  <2>4. Balance({t} \ {t}) = Balance({})
    BY <2>1, Zenon
  <2>5. Balance({t}) = Change(t)
    BY <2>2, <2>3, <2>4
  <2>6. QED
    BY <2>1, <2>5, Zenon
<1>4. ASSUME NEW u \in r PROVE Balance(Newer(u, S)) = Change(t) + Balance(Newer(u, r)) /\ Balance(Newer(u, r)) \in Int
  <2>1. Newer(u, r) = Newer(u, S) \ {t} /\ t \in Newer(u, S)
    BY <1>1, NewerIs
  <2>2. Newer(u, S) \in SUBSET PricedTrades /\ Newer(u, r) \in SUBSET PricedTrades
    BY DEF Newer
  <2> HIDE DEF t, r
  <2>3. QED BY <2>1, <2>2, BalanceIs
<1>5. n \in Nat /\ k \in Nat
  BY <1>2 DEF Largest, Opened
<1>6. ASSUME NEW u \in S PROVE Balance(Newer(u, S)) <= k
  <2>1. CASE u = t
    BY <2>1, <1>2, <1>3, <1>5 DEF Change, Opened
  <2>2. CASE u # t
    <3>1. u \in r
      BY <2>2
    <3>2. Balance(Newer(u, r)) <= n
      BY <3>1 DEF Largest
    <3> HIDE DEF r, t
    <3>3. QED BY <3>1, <3>2, <1>2, <1>4, <1>5 DEF Change, Opened, k
  <2>3. QED BY <2>1, <2>2
<1>7. k = 0 \/ \E u \in S : k = Balance(Newer(u, S))
  <2>1. CASE n = 0
    <3> HIDE DEF t
    <3> QED BY <2>1, <1>1, <1>2, <1>3 DEF Change, Opened
  <2>2. CASE n # 0
    <3>1. PICK u \in r : n = Balance(Newer(u, r))
      BY <2>2 DEF Largest
    <3>2. u \in S
      OBVIOUS
    <3>3. k = 0 \/ k = Balance(Newer(u, S))
      <4> HIDE DEF r, t
      <4> QED BY <3>1, <1>2, <1>4, <1>5 DEF Change, Opened, k
    <3>4. QED BY <3>2, <3>3
  <2>3. QED BY <2>1, <2>2
<1>8. QED
  <2> HIDE DEF k
  <2>1. Largest(k, S)
    BY <1>5, <1>6, <1>7 DEF Largest
  <2>2. QED BY <2>1 DEF k

\* The open quantity follows the trades: purchases add to it, sales take from it what is there.
LEMMA OpenQuantityIs ==
  /\ OpenQuantity({}) = 0
  /\ \A S \in SUBSET PricedTrades : OpenQuantity(S) \in Nat
  /\ \A S \in SUBSET PricedTrades :
       S # {} => OpenQuantity(S) = Opened(OpenQuantity(S \ {Latest(S)}), Latest(S))
<1> DEFINE P == {S \in SUBSET PricedTrades : Largest(OpenQuantity(S), S)}
<1>1. IsFiniteSet(PricedTrades) /\ PricedTrades \in SUBSET Trades
  BY FiniteTrades DEF PricedTrades
<1>2. Largest(0, {}) /\ {} \in SUBSET PricedTrades
  BY DEF Largest
<1>3. OpenQuantity({}) = 0
  BY <1>2, LargestIs
<1>4. ASSUME NEW S \in SUBSET PricedTrades, S # {}, Largest(OpenQuantity(S \ {Latest(S)}), S \ {Latest(S)})
      PROVE  /\ OpenQuantity(S) = Opened(OpenQuantity(S \ {Latest(S)}), Latest(S))
             /\ Largest(OpenQuantity(S), S)
  <2>1. Largest(Opened(OpenQuantity(S \ {Latest(S)}), Latest(S)), S)
    BY <1>4, LargestGoesOn
  <2>2. QED BY <2>1, LargestIs
<1>5. \A S \in SUBSET PricedTrades : S \in P
  <2>1. {} \in P
    BY <1>2, <1>3
  <2>2. ASSUME NEW S \in SUBSET PricedTrades, S # {}, \A x \in S : S \ {x} \in P PROVE S \in P
    <3>1. Latest(S) \in S
      BY <1>1, <2>2, LatestIn
    <3>2. Largest(OpenQuantity(S \ {Latest(S)}), S \ {Latest(S)})
      BY <3>1, <2>2
    <3>3. QED BY <3>2, <1>4, <2>2
  <2> HIDE DEF P
  <2>3. QED BY <1>1, <2>1, <2>2, SetInduction
<1>6. ASSUME NEW S \in SUBSET PricedTrades PROVE Largest(OpenQuantity(S), S)
  BY <1>5
<1>7. \A S \in SUBSET PricedTrades : OpenQuantity(S) \in Nat
  BY <1>6 DEF Largest
<1>8. ASSUME NEW S \in SUBSET PricedTrades, S # {}
      PROVE  OpenQuantity(S) = Opened(OpenQuantity(S \ {Latest(S)}), Latest(S))
  <2>1. S \ {Latest(S)} \in SUBSET PricedTrades
    OBVIOUS
  <2>2. QED BY <2>1, <1>4, <1>6, <1>8
<1>9. QED
  BY <1>3, <1>7, <1>8

\* The purchases of a set of trades, and what was bought after one of the trades.
Buys(S) == {u \in S : u.side = "buy"}
BoughtAfter(u, S) == SumOf(Newer(u, S) \ {u}, "buy")

\* It counts the purchases that are newer than the trade.
LEMMA BoughtAfterType ==
  ASSUME NEW S \in SUBSET Trades, NEW u \in S
  PROVE  /\ BoughtAfter(u, S) \in Nat
         /\ SumOf(Newer(u, S), "buy") = (IF u.side = "buy" THEN u.qty ELSE 0) + BoughtAfter(u, S)
<1>1. Newer(u, S) \in SUBSET Trades /\ Newer(u, S) \ {u} \in SUBSET Trades /\ u \in Newer(u, S)
  BY DEF Newer
<1>2. QED
  BY <1>1, SumOfIs DEF BoughtAfter

\* It is the same among the purchases, and among any trades that include what is newer.
LEMMA BoughtAfterWithin ==
  ASSUME NEW S \in SUBSET Trades, NEW X \in SUBSET S, \A v \in X : Newer(v, S) \subseteq X, NEW u \in Buys(X)
  PROVE  BoughtAfter(u, Buys(X)) = BoughtAfter(u, S)
<1>1. {v \in Newer(u, Buys(X)) \ {u} : v.side = "buy"} = {v \in Newer(u, S) \ {u} : v.side = "buy"}
  BY DEF Buys, Newer
<1>2. QED
  BY <1>1, Zenon DEF BoughtAfter, SumOf

\* How the latest trade changes what was bought after the others.
LEMMA BoughtAfterGoesOn ==
  ASSUME NEW S \in SUBSET Trades, S # {}
  PROVE  /\ BoughtAfter(Latest(S), S) = 0
         /\ \A u \in S \ {Latest(S)} :
              BoughtAfter(u, S) = (IF Latest(S).side = "buy" THEN Latest(S).qty ELSE 0) + BoughtAfter(u, S \ {Latest(S)})
<1> DEFINE t == Latest(S)
<1>1. t \in S
  BY LatestIn
<1>2. Newer(t, S) \ {t} = {}
  BY NewerIs
<1>3. BoughtAfter(t, S) = 0
  BY <1>2, SumOfIs DEF BoughtAfter
<1>4. ASSUME NEW u \in S \ {t}
      PROVE  BoughtAfter(u, S) = (IF t.side = "buy" THEN t.qty ELSE 0) + BoughtAfter(u, S \ {t})
  <2> DEFINE n == Newer(u, S) \ {u}
  <2>1. Newer(u, S \ {t}) = Newer(u, S) \ {t} /\ t \in Newer(u, S)
    BY NewerIs
  <2>2. n \in SUBSET Trades /\ t \in n /\ n \ {t} = Newer(u, S \ {t}) \ {u}
    BY <2>1 DEF Newer
  <2>3. SumOf(n, "buy") = (IF t.side = "buy" THEN t.qty ELSE 0) + SumOf(n \ {t}, "buy")
    <3> HIDE DEF n, t
    <3> QED BY <2>2, SumOfIs
  <2>4. SumOf(n \ {t}, "buy") = SumOf(Newer(u, S \ {t}) \ {u}, "buy")
    BY <2>2, Zenon
  <2>5. QED
    BY <2>3, <2>4 DEF BoughtAfter
<1>5. QED
  BY <1>3, <1>4

\* Of x units that are left of some purchases, these are of each when the oldest went first.
LastBought(x, B) == [u \in B |-> Clamp(x - BoughtAfter(u, B), u.qty)]
Least(a, b) == IF a < b THEN a ELSE b

\* A clamped number is within its bounds.
LEMMA ClampType ==
  ASSUME NEW n \in Int, NEW top \in Nat
  PROVE  Clamp(n, top) \in 0..top
BY DEF Clamp

\* Together they are the x units, or as many as were bought.
LEMMA LastBoughtSum ==
  ASSUME NEW B \in SUBSET Buys(Trades), NEW x \in Nat
  PROVE  SumFunctionOnSet(LastBought(x, B), B) = Least(x, SumOf(B, "buy"))
<1> DEFINE P == {S \in SUBSET Buys(Trades) :
                   \A n \in Nat : SumFunctionOnSet(LastBought(n, S), S) = Least(n, SumOf(S, "buy"))}
<1>1. Buys(Trades) \in SUBSET Trades /\ IsFiniteSet(Buys(Trades))
  BY FiniteTrades DEF Buys
<1>2. ASSUME NEW S \in SUBSET Buys(Trades), NEW n \in Nat, NEW u \in S
      PROVE  LastBought(n, S)[u] = Clamp(n - BoughtAfter(u, S), u.qty) /\ LastBought(n, S)[u] \in Nat
  <2>1. BoughtAfter(u, S) \in Nat
    BY <1>1, BoughtAfterType
  <2>2. u.qty \in Nat
    BY <1>1, TradebookAssumption
  <2>3. Clamp(n - BoughtAfter(u, S), u.qty) \in 0..u.qty
    <3>1. n - BoughtAfter(u, S) \in Int
      BY <2>1
    <3>2. QED BY <3>1, <2>2, ClampType
  <2>4. LastBought(n, S)[u] = Clamp(n - BoughtAfter(u, S), u.qty)
    BY DEF LastBought
  <2>5. QED
    BY <2>2, <2>3, <2>4
<1>3. {} \in P
  <2>1. SumOf({}, "buy") = 0
    BY SumOfIs
  <2>2. ASSUME NEW n \in Nat PROVE SumFunctionOnSet(LastBought(n, {}), {}) = Least(n, SumOf({}, "buy"))
    <3>1. SumFunctionOnSet(LastBought(n, {}), {}) = 0
      BY FS_EmptySet, SumType
    <3>2. QED BY <3>1, <2>1 DEF Least
  <2>3. QED BY <2>2
<1>4. ASSUME NEW S \in SUBSET Buys(Trades), S # {}, \A y \in S : S \ {y} \in P PROVE S \in P
  <2> DEFINE t == Latest(S)
             r == S \ {t}
  <2>1. t \in S /\ S \in SUBSET Trades /\ r \in SUBSET Buys(Trades) /\ IsFiniteSet(S) /\ IsFiniteSet(r)
    BY <1>1, <1>4, LatestIn, FS_Subset
  <2>2. t.side = "buy" /\ t.qty \in Nat
    BY <2>1, TradebookAssumption DEF Buys
  <2>3. ASSUME NEW n \in Nat PROVE SumFunctionOnSet(LastBought(n, S), S) = Least(n, SumOf(S, "buy"))
    <3> DEFINE m == IF n < t.qty THEN 0 ELSE n - t.qty
               f == LastBought(n, S)
               g == LastBought(m, r)
    <3>1. m \in Nat
      BY <2>2
    <3>2. ASSUME NEW u \in r PROVE f[u] = g[u] /\ g[u] \in Int
      <4>1. BoughtAfter(u, S) = t.qty + BoughtAfter(u, r)
        BY <2>1, <2>2, <1>4, BoughtAfterGoesOn
      <4>2. BoughtAfter(u, r) \in Nat /\ u.qty \in Nat
        <5>1. r \in SUBSET Trades
          BY <2>1
        <5>2. QED BY <5>1, BoughtAfterType, TradebookAssumption
      <4>3. u \in S /\ f[u] = Clamp(n - BoughtAfter(u, S), u.qty)
        BY <1>2
      <4>4. g[u] = Clamp(m - BoughtAfter(u, r), u.qty) /\ g[u] \in Int
        BY <1>2, <2>1, <3>1
      <4> HIDE DEF f, g, r, t
      <4>5. QED
        BY <4>1, <4>2, <4>3, <4>4, <2>2 DEF Clamp
    <3>3. f[t] = Least(n, t.qty)
      <4>1. f[t] = Clamp(n - BoughtAfter(t, S), t.qty) /\ BoughtAfter(t, S) = 0
        BY <2>1, <1>2, <1>4, BoughtAfterGoesOn
      <4> HIDE DEF t, f
      <4>2. QED BY <4>1, <2>2 DEF Clamp, Least
    <3>4. SumFunctionOnSet(f, S) = f[t] + SumFunctionOnSet(f, S \ {t})
      <4>1. \A u \in S : f[u] \in Int
        BY <1>2
      <4> HIDE DEF f, t
      <4>2. QED BY <4>1, <2>1, SumRemove
    <3>5. SumFunctionOnSet(f, r) = SumFunctionOnSet(g, r)
      <4> HIDE DEF f, g, r
      <4> QED BY <2>1, <3>2, SumSame
    <3>6. SumFunctionOnSet(g, r) = Least(m, SumOf(r, "buy"))
      <4>1. r \in P
        BY <1>4, <2>1
      <4> HIDE DEF m, r
      <4>2. QED BY <4>1, <3>1
    <3>7. SumOf(S, "buy") = t.qty + SumOf(r, "buy") /\ SumOf(r, "buy") \in Nat
      <4>1. r \in SUBSET Trades
        BY <2>1
      <4>2. QED BY <4>1, <2>1, <2>2, SumOfIs
    <3>8. SumFunctionOnSet(f, S) = Least(n, t.qty) + Least(m, SumOf(r, "buy"))
      <4> HIDE DEF f, g, m
      <4> QED BY <3>3, <3>4, <3>5, <3>6
    <3>9. QED
      <4> HIDE DEF t, r
      <4> QED BY <3>7, <3>8, <2>2 DEF Least
  <2>4. QED BY <2>3
<1>5. B \in P
  <2> HIDE DEF P
  <2> QED BY <1>1, <1>3, <1>4, SetInduction
<1>6. QED
  BY <1>5

\* What is still open of a trade is part of it.
LEMMA StillOpenType ==
  ASSUME NEW S \in SUBSET PricedTrades, NEW u \in S
  PROVE  /\ StillOpen(u, S) = Clamp(OpenQuantity(S) - BoughtAfter(u, S), u.qty)
         /\ StillOpen(u, S) \in 0..u.qty /\ u.qty \in Nat /\ u.qty > 0
<1>1. S \in SUBSET Trades
  BY DEF PricedTrades
<1>2. BoughtAfter(u, S) \in Nat /\ OpenQuantity(S) \in Nat
  BY <1>1, BoughtAfterType, OpenQuantityIs
<1>3. u.qty \in Nat /\ u.qty > 0
  BY <1>1, TradebookAssumption DEF PricedTrades, Priced, Usable
<1>4. StillOpen(u, S) = Clamp(OpenQuantity(S) - BoughtAfter(u, S), u.qty)
  BY DEF StillOpen, BoughtAfter
<1>5. OpenQuantity(S) - BoughtAfter(u, S) \in Int
  BY <1>2
<1>6. QED
  BY <1>3, <1>4, <1>5, ClampType

\* No more is open than was bought.
LEMMA OpenWasBought ==
  ASSUME NEW S \in SUBSET PricedTrades
  PROVE  OpenQuantity(S) <= SumOf(S, "buy")
<1> DEFINE P == {s \in SUBSET PricedTrades : OpenQuantity(s) <= SumOf(s, "buy")}
<1>1. PricedTrades \in SUBSET Trades /\ IsFiniteSet(PricedTrades)
  BY FiniteTrades DEF PricedTrades
<1>2. {} \in P
  BY OpenQuantityIs, SumOfIs
<1>3. ASSUME NEW s \in SUBSET PricedTrades, s # {}, \A x \in s : s \ {x} \in P PROVE s \in P
  <2> DEFINE t == Latest(s)
             r == s \ {t}
  <2>1. t \in s /\ s \in SUBSET Trades /\ r \in SUBSET PricedTrades
    BY <1>1, <1>3, LatestIn
  <2>2. OpenQuantity(s) = Opened(OpenQuantity(r), t) /\ OpenQuantity(r) \in Nat
    BY <1>3, <2>1, OpenQuantityIs
  <2>3. SumOf(s, "buy") = (IF t.side = "buy" THEN t.qty ELSE 0) + SumOf(r, "buy")
    BY <2>1, SumOfIs
  <2>4. SumOf(r, "buy") \in Nat /\ t.qty \in Nat
    BY <1>1, <2>1, SumOfIs, TradebookAssumption
  <2>5. OpenQuantity(r) <= SumOf(r, "buy")
    BY <1>3, <2>1
  <2>6. OpenQuantity(s) <= SumOf(s, "buy")
    <3> HIDE DEF P, t, r
    <3> QED BY <2>2, <2>3, <2>4, <2>5 DEF Opened
  <2>7. QED BY <2>6
<1>4. S \in P
  <2> HIDE DEF P
  <2> QED BY <1>1, <1>2, <1>3, SetInduction
<1>5. QED
  BY <1>4

\* What is still open of the purchases among the newest trades.
LEMMA StillOpenSum ==
  ASSUME NEW S \in SUBSET PricedTrades, NEW X \in SUBSET S, \A v \in X : Newer(v, S) \subseteq X,
         NEW f, \A u \in Buys(X) : f[u] = StillOpen(u, S)
  PROVE  SumFunctionOnSet(f, Buys(X)) = Least(OpenQuantity(S), SumOf(X, "buy"))
<1> DEFINE B == Buys(X)
           g == LastBought(OpenQuantity(S), B)
<1>1. S \in SUBSET Trades /\ X \in SUBSET Trades /\ B \in SUBSET Buys(Trades) /\ B \in SUBSET Trades /\ B \subseteq S
  BY DEF PricedTrades, Buys
<1>2. OpenQuantity(S) \in Nat /\ IsFiniteSet(B)
  BY <1>1, OpenQuantityIs, FiniteTrades
<1>3. ASSUME NEW u \in B PROVE g[u] = f[u] /\ f[u] \in Int
  <2>1. BoughtAfter(u, B) = BoughtAfter(u, S)
    BY <1>1, BoughtAfterWithin
  <2>2. f[u] = Clamp(OpenQuantity(S) - BoughtAfter(u, S), u.qty) /\ f[u] \in Int
    BY <1>1, StillOpenType
  <2>3. g[u] = Clamp(OpenQuantity(S) - BoughtAfter(u, B), u.qty)
    BY DEF LastBought
  <2>4. QED
    BY <2>1, <2>2, <2>3
<1>4. SumFunctionOnSet(g, B) = SumFunctionOnSet(f, B)
  <2> HIDE DEF g, B
  <2> QED BY <1>2, <1>3, SumSame
<1>5. SumFunctionOnSet(g, B) = Least(OpenQuantity(S), SumOf(B, "buy"))
  BY <1>1, <1>2, LastBoughtSum
<1>6. SumOf(B, "buy") = SumOf(X, "buy")
  <2>1. {u \in B : u.side = "buy"} = {u \in X : u.side = "buy"}
    BY DEF Buys
  <2>2. QED
    <3> HIDE DEF B
    <3> QED BY <2>1, Zenon DEF SumOf
<1>7. QED
  BY <1>4, <1>5, <1>6

\* The lots of a set of trades when the oldest go first.
FifoLots(S) == [u \in {v \in Buys(S) : StillOpen(v, S) > 0} |-> StillOpen(u, S)]

\* Their sum over the newest trades: all of them, or from some trade on.
LEMMA FifoLotsSum ==
  ASSUME NEW S \in SUBSET PricedTrades
  PROVE  /\ DOMAIN FifoLots(S) = {v \in Buys(S) : StillOpen(v, S) > 0}
         /\ \A u \in DOMAIN FifoLots(S) : FifoLots(S)[u] = StillOpen(u, S)
         /\ FifoLots(S) \in LotBooks
         /\ Total(FifoLots(S)) = OpenQuantity(S)
         /\ \A u \in DOMAIN FifoLots(S) :
              SumFunctionOnSet(FifoLots(S), Older(FifoLots(S), u))
                = OpenQuantity(S) - Least(OpenQuantity(S), u.qty + BoughtAfter(u, S))
<1> DEFINE L == FifoLots(S)
           d == {v \in Buys(S) : StillOpen(v, S) > 0}
           k == [u \in S |-> StillOpen(u, S)]
<1>1. S \in SUBSET Trades /\ d \in SUBSET S /\ d \in SUBSET Trades /\ IsFiniteSet(d) /\ IsFiniteSet(S)
  BY FiniteTrades DEF PricedTrades, Buys
<1>2. DOMAIN L = d /\ \A u \in d : L[u] = StillOpen(u, S)
  BY DEF FifoLots
<1>3. \A u \in S : k[u] = StillOpen(u, S) /\ StillOpen(u, S) \in Nat
  BY StillOpenType
<1>4. L \in LotBooks
  <2>1. L = [u \in d |-> StillOpen(u, S)] /\ \A u \in d : StillOpen(u, S) \in Nat
    BY <1>1, <1>3 DEF FifoLots
  <2>2. L \in [d -> Nat]
    <3> HIDE DEF d, L
    <3> QED BY <2>1
  <2> HIDE DEF d, L
  <2>3. QED BY <2>2, <1>1 DEF LotBooks
<1> HIDE DEF L, k
<1>5. ASSUME NEW X \in SUBSET S, \A v \in X : Newer(v, S) \subseteq X
      PROVE  SumFunctionOnSet(L, d \cap X) = Least(OpenQuantity(S), SumOf(X, "buy"))
  <2>1. d \cap X \in SUBSET Buys(X) /\ Buys(X) \in SUBSET S
    BY DEF Buys
  <2>2. IsFiniteSet(Buys(X)) /\ IsFiniteSet(d \cap X)
    BY <1>1, <2>1, FS_Subset
  <2>3. \A u \in Buys(X) : k[u] \in Int /\ k[u] = StillOpen(u, S)
    BY <1>3, <2>1
  <2>4. \A u \in Buys(X) \ (d \cap X) : k[u] = 0
    <3>1. ASSUME NEW u \in Buys(X), u \notin d PROVE k[u] = 0
      <4>1. u \in Buys(S)
        BY DEF Buys
      <4>2. ~(StillOpen(u, S) > 0)
        BY <4>1, <3>1
      <4>3. QED BY <4>2, <1>3, <2>1
    <3>2. Buys(X) \subseteq X
      BY DEF Buys
    <3>3. QED BY <3>1, <3>2
  <2>5. SumFunctionOnSet(k, Buys(X)) = SumFunctionOnSet(k, d \cap X)
    <3> HIDE DEF d
    <3> QED BY <2>1, <2>2, <2>3, <2>4, SumWithoutZeros
  <2>6. SumFunctionOnSet(L, d \cap X) = SumFunctionOnSet(k, d \cap X)
    <3>1. \A u \in d \cap X : k[u] \in Int /\ L[u] = k[u]
      BY <1>1, <1>2, <1>3
    <3> HIDE DEF d
    <3>2. QED BY <2>2, <3>1, SumSame
  <2>7. SumFunctionOnSet(k, Buys(X)) = Least(OpenQuantity(S), SumOf(X, "buy"))
    BY <1>5, <2>3, StillOpenSum
  <2>8. QED BY <2>5, <2>6, <2>7
<1>6. SumFunctionOnSet(L, d) = OpenQuantity(S) /\ OpenQuantity(S) \in Nat
  <2>1. d \cap S = d /\ \A v \in S : Newer(v, S) \subseteq S
    BY <1>1 DEF Newer
  <2>2. SumFunctionOnSet(L, d) = Least(OpenQuantity(S), SumOf(S, "buy"))
    BY <1>5, <2>1
  <2>3. OpenQuantity(S) <= SumOf(S, "buy") /\ OpenQuantity(S) \in Nat /\ SumOf(S, "buy") \in Nat
    BY <1>1, OpenWasBought, OpenQuantityIs, SumOfIs
  <2>4. QED BY <2>2, <2>3 DEF Least
<1>7. Total(L) = OpenQuantity(S)
  BY <1>2, <1>6, Zenon DEF Total, SumFunction
<1>8. ASSUME NEW u \in d
      PROVE  SumFunctionOnSet(L, Older(L, u)) = OpenQuantity(S) - Least(OpenQuantity(S), u.qty + BoughtAfter(u, S))
  <2> DEFINE X == Newer(u, S)
  <2>1. X \in SUBSET S /\ u \in S /\ u.side = "buy" /\ u \in Trades
    BY <1>1 DEF Newer, Buys
  <2>2. \A v \in X : Newer(v, S) \subseteq X
    <3>1. ASSUME NEW v \in X, NEW w \in Newer(v, S) PROVE w \in X
      <4>1. v \in Trades /\ w \in Trades /\ w \in S /\ (v = u \/ Before(u, v)) /\ (w = v \/ Before(v, w))
        BY <1>1 DEF Newer
      <4>2. w = u \/ Before(u, w)
        BY <2>1, <4>1, BrokerOrder
      <4>3. QED BY <4>1, <4>2 DEF Newer
    <3>2. QED BY <3>1
  <2>3. SumOf(X, "buy") = u.qty + BoughtAfter(u, S)
    BY <1>1, <2>1, BoughtAfterType
  <2>4. d \ (d \cap X) = Older(L, u)
    <3>1. ASSUME NEW v \in d PROVE v \notin X <=> Before(v, u)
      <4>1. v \in S /\ v \in Trades
        BY <1>1
      <4>2. QED BY <2>1, <4>1, BrokerOrder DEF Newer
    <3> HIDE DEF d, X
    <3>2. QED BY <3>1, <1>2 DEF Older
  <2>5. SumFunctionOnSet(L, d) = SumFunctionOnSet(L, d \cap X) + SumFunctionOnSet(L, d \ (d \cap X))
    <3>1. \A v \in d : L[v] \in Int
      BY <1>1, <1>2, <1>3
    <3>2. d \cap X \in SUBSET d
      OBVIOUS
    <3> HIDE DEF d, X
    <3>3. QED BY <3>1, <3>2, <1>1, SumSplit
  <2>6. SumFunctionOnSet(L, d \cap X) = Least(OpenQuantity(S), u.qty + BoughtAfter(u, S))
    <3> HIDE DEF d, X
    <3> QED BY <1>5, <2>1, <2>2, <2>3
  <2>7. SumFunctionOnSet(L, Older(L, u)) \in Nat /\ Least(OpenQuantity(S), u.qty + BoughtAfter(u, S)) \in Nat
    <3>1. Older(L, u) \in SUBSET DOMAIN L
      BY DEF Older
    <3>2. u.qty \in Nat /\ BoughtAfter(u, S) \in Nat
      BY <1>1, <2>1, BoughtAfterType, TradebookAssumption
    <3> HIDE DEF d
    <3>3. QED BY <3>1, <3>2, <1>4, <1>6, LotsType DEF Least
  <2> HIDE DEF d, X
  <2>8. SumFunctionOnSet(L, d \ (d \cap X)) = SumFunctionOnSet(L, Older(L, u))
    BY <2>4, Zenon
  <2>9. QED BY <2>5, <2>6, <2>7, <2>8, <1>6
<1>9. QED
  BY <1>2, <1>4, <1>7, <1>8 DEF L

\* A sale of q units, of n that are open, on a lot of b units with a units bought after it.
LEMMA SaleOnLot ==
  ASSUME NEW n \in Nat, NEW a \in Nat, NEW b \in Nat, NEW q \in Nat,
         NEW lot, lot = Clamp(n - a, b),
         NEW taken, taken = Clamp(q - (n - Least(n, b + a)), lot),
         NEW left, left = Clamp((IF n < q THEN 0 ELSE n - q) - a, b)
  PROVE  /\ lot - taken = left /\ (taken < lot <=> left > 0) /\ (lot = 0 => left = 0)
BY DEF Clamp, Least

\* However purchases and sales follow each other, the lots are those that were bought last.
LEMMA LotsAreLast ==
  ASSUME NEW S \in SUBSET PricedTrades
  PROVE  OpenLots(S) = FifoLots(S)
<1> DEFINE P == {s \in SUBSET PricedTrades : OpenLots(s) = FifoLots(s)}
<1>1. PricedTrades \in SUBSET Trades /\ IsFiniteSet(PricedTrades)
  BY FiniteTrades DEF PricedTrades
<1>2. {} \in P
  <2>1. FifoLots({}) = NoLots
    BY DEF FifoLots, NoLots, Buys
  <2>2. QED BY <2>1, OpenLotsIs
<1>3. ASSUME NEW s \in SUBSET PricedTrades, s # {}, \A x \in s : s \ {x} \in P PROVE s \in P
  <2> DEFINE t == Latest(s)
             r == s \ {t}
             L == FifoLots(r)
             d == {v \in Buys(s) : StillOpen(v, s) > 0}
  <2>1. t \in s /\ s \in SUBSET Trades /\ r \in SUBSET PricedTrades /\ r \in SUBSET Trades
    BY <1>1, <1>3, LatestIn
  <2>2. OpenLots(s) = AfterTrade(t, L)
    <3>1. r \in P
      BY <1>3, <2>1
    <3>2. OpenLots(s) = AfterTrade(Latest(s), OpenLots(s \ {Latest(s)}))
      BY <1>3, <2>1, OpenLotsIs
    <3>3. QED BY <3>1, <3>2
  <2>3. /\ OpenQuantity(s) = Opened(OpenQuantity(r), t)
        /\ OpenQuantity(r) \in Nat /\ OpenQuantity(s) \in Nat
    BY <1>3, <2>1, OpenQuantityIs
  <2>4. t.qty \in Nat /\ t.qty > 0 /\ t.side \in {"buy", "sell"}
    BY <2>1, <1>1, TradebookAssumption DEF PricedTrades, Priced, Usable
  <2>5. /\ DOMAIN L = {v \in Buys(r) : StillOpen(v, r) > 0}
        /\ \A u \in DOMAIN L : L[u] = StillOpen(u, r)
        /\ L \in LotBooks
        /\ \A u \in DOMAIN L :
             SumFunctionOnSet(L, Older(L, u)) = OpenQuantity(r) - Least(OpenQuantity(r), u.qty + BoughtAfter(u, r))
    BY <2>1, FifoLotsSum
  <2>6. ASSUME NEW u \in r
        PROVE  /\ u \in s /\ BoughtAfter(u, r) \in Nat /\ u.qty \in Nat
               /\ BoughtAfter(u, s) = (IF t.side = "buy" THEN t.qty ELSE 0) + BoughtAfter(u, r)
               /\ StillOpen(u, s) = Clamp(OpenQuantity(s) - BoughtAfter(u, s), u.qty)
               /\ StillOpen(u, r) = Clamp(OpenQuantity(r) - BoughtAfter(u, r), u.qty)
               /\ StillOpen(u, r) \in Nat
    <3>1. u \in s
      OBVIOUS
    <3>2. BoughtAfter(u, r) \in Nat
      BY <2>1, BoughtAfterType
    <3>3. BoughtAfter(u, s) = (IF t.side = "buy" THEN t.qty ELSE 0) + BoughtAfter(u, r)
      BY <2>1, <1>3, BoughtAfterGoesOn
    <3>4. StillOpen(u, s) = Clamp(OpenQuantity(s) - BoughtAfter(u, s), u.qty) /\ u.qty \in Nat
      BY <3>1, StillOpenType
    <3>5. StillOpen(u, r) = Clamp(OpenQuantity(r) - BoughtAfter(u, r), u.qty) /\ StillOpen(u, r) \in Nat
      BY <2>1, StillOpenType
    <3>6. QED BY <3>1, <3>2, <3>3, <3>4, <3>5
  <2>7. FifoLots(s) = [u \in d |-> StillOpen(u, s)]
    BY DEF FifoLots
  <2>8. CASE t.side = "buy"
    <3>1. ASSUME NEW u \in r PROVE StillOpen(u, s) = StillOpen(u, r)
      <4>1. OpenQuantity(s) = OpenQuantity(r) + t.qty
        BY <2>3, <2>8 DEF Opened
      <4>2. OpenQuantity(s) - BoughtAfter(u, s) = OpenQuantity(r) - BoughtAfter(u, r)
        <5>1. BoughtAfter(u, s) = t.qty + BoughtAfter(u, r) /\ BoughtAfter(u, r) \in Nat
          BY <2>6, <2>8
        <5> HIDE DEF t, r
        <5>2. QED BY <5>1, <4>1, <2>3, <2>4
      <4>3. StillOpen(u, s) = Clamp(OpenQuantity(s) - BoughtAfter(u, s), u.qty)
        BY <2>6
      <4>4. StillOpen(u, r) = Clamp(OpenQuantity(r) - BoughtAfter(u, r), u.qty)
        BY <2>6
      <4> HIDE DEF t, r
      <4>5. QED BY <4>2, <4>3, <4>4, Zenon
    <3>2. StillOpen(t, s) = t.qty
      <4>1. BoughtAfter(t, s) = 0
        BY <2>1, <1>3, BoughtAfterGoesOn
      <4>2. OpenQuantity(s) = OpenQuantity(r) + t.qty
        BY <2>3, <2>8 DEF Opened
      <4>3. StillOpen(t, s) = Clamp(OpenQuantity(s) - BoughtAfter(t, s), t.qty)
        BY <2>1, StillOpenType
      <4> HIDE DEF t, r
      <4>4. QED BY <4>1, <4>2, <4>3, <2>3, <2>4 DEF Clamp
    <3>3. Buys(s) = Buys(r) \cup {t}
      BY <2>1, <2>8 DEF Buys
    <3>4. d = DOMAIN L \cup {t}
      <4>1. Buys(r) \subseteq r
        BY DEF Buys
      <4>2. \A v \in Buys(r) : StillOpen(v, s) = StillOpen(v, r)
        BY <4>1, <3>1
      <4>3. StillOpen(t, s) > 0
        BY <3>2, <2>4
      <4> HIDE DEF t, r, L
      <4>4. QED BY <2>5, <3>3, <4>2, <4>3
    <3>5. AfterTrade(t, L) = [u \in d |-> IF u = t THEN t.qty ELSE L[u]]
      <4> HIDE DEF t, L, d
      <4> QED BY <2>8, <3>4 DEF AfterTrade
    <3>6. ASSUME NEW u \in d PROVE (IF u = t THEN t.qty ELSE L[u]) = StillOpen(u, s)
      <4>1. CASE u = t
        BY <4>1, <3>2
      <4>2. CASE u # t
        <5>1. u \in DOMAIN L
          BY <4>2, <3>4
        <5>2. u \in r /\ L[u] = StillOpen(u, r)
          BY <5>1, <2>5 DEF Buys
        <5>3. QED BY <5>2, <3>1, <4>2
      <4>3. QED BY <4>1, <4>2
    <3> HIDE DEF d, t, L
    <3>7. AfterTrade(t, L) = FifoLots(s)
      BY <3>5, <3>6, <2>7
    <3>8. QED BY <3>7, <2>2, <1>3
  <2>9. CASE t.side # "buy"
    <3> DEFINE taken == Taken(L, t.qty)
    <3>1. OpenQuantity(s) = IF OpenQuantity(r) < t.qty THEN 0 ELSE OpenQuantity(r) - t.qty
      BY <2>3, <2>9 DEF Opened
    <3>2. ASSUME NEW u \in Buys(r)
          PROVE  /\ u \in DOMAIN L => /\ StillOpen(u, r) - taken[u] = StillOpen(u, s)
                                      /\ taken[u] < StillOpen(u, r) <=> StillOpen(u, s) > 0
                 /\ u \notin DOMAIN L => StillOpen(u, s) = 0
      <4> DEFINE n == OpenQuantity(r)
                 a == BoughtAfter(u, r)
                 b == u.qty
                 q == t.qty
      <4>1. u \in r
        BY DEF Buys
      <4>2. n \in Nat /\ a \in Nat /\ b \in Nat /\ q \in Nat
        BY <4>1, <2>3, <2>4, <2>6
      <4>3. StillOpen(u, r) = Clamp(n - a, b)
        BY <4>1, <2>6
      <4>4. StillOpen(u, s) = Clamp((IF n < q THEN 0 ELSE n - q) - a, b)
        <5>1. BoughtAfter(u, s) = 0 + a
          BY <4>1, <2>6, <2>9
        <5>2. BoughtAfter(u, s) = a
          <6> HIDE DEF a, r, t
          <6> QED BY <5>1, <4>2
        <5>3. StillOpen(u, s) = Clamp(OpenQuantity(s) - BoughtAfter(u, s), b)
          BY <4>1, <2>6
        <5>4. QED BY <5>2, <5>3, <3>1
      <4>5. CASE u \in DOMAIN L
        <5>1. taken[u] = Clamp(q - SumFunctionOnSet(L, Older(L, u)), L[u]) /\ L[u] = StillOpen(u, r)
          BY <4>5, <2>4, <2>5, TakenType
        <5>2. SumFunctionOnSet(L, Older(L, u)) = n - Least(n, b + a)
          BY <4>5, <2>5
        <5>3. taken[u] = Clamp(q - (n - Least(n, b + a)), StillOpen(u, r))
          BY <5>1, <5>2, Zenon
        <5> HIDE DEF taken, L, n, a, b, q, r, t
        <5>4. StillOpen(u, r) - taken[u] = StillOpen(u, s) /\ (taken[u] < StillOpen(u, r) <=> StillOpen(u, s) > 0)
          BY <4>2, <4>3, <4>4, <5>3, SaleOnLot
        <5>5. QED BY <5>4, <4>5
      <4>6. CASE u \notin DOMAIN L
        <5>1. StillOpen(u, r) = 0
          <6>1. ~(StillOpen(u, r) > 0) /\ StillOpen(u, r) \in Nat
            BY <4>1, <4>6, <2>5, <2>6
          <6> HIDE DEF r, t
          <6>2. QED BY <6>1
        <5> HIDE DEF taken, L, n, a, b, q, r, t
        <5>2. StillOpen(u, s) = 0
          BY <5>1, <4>2, <4>3, <4>4 DEF Clamp
        <5>3. QED BY <5>2, <4>6
      <4>7. QED BY <4>5, <4>6
    <3>3. Buys(s) = Buys(r)
      BY <2>1, <2>9 DEF Buys
    <3>4. d = {u \in DOMAIN L : taken[u] < L[u]}
      <4>1. ASSUME NEW u \in Buys(r)
            PROVE  StillOpen(u, s) > 0 <=> (u \in DOMAIN L /\ taken[u] < L[u])
        <5>1. CASE u \in DOMAIN L
          BY <5>1, <3>2, <2>5
        <5>2. CASE u \notin DOMAIN L
          <6>1. StillOpen(u, s) = 0
            BY <5>2, <3>2
          <6>2. QED BY <6>1, <5>2
        <5>3. QED BY <5>1, <5>2
      <4>2. DOMAIN L \subseteq Buys(r)
        BY <2>5
      <4> HIDE DEF L, taken, r, t
      <4>3. QED BY <4>1, <4>2, <3>3
    <3>5. AfterTrade(t, L) = [u \in {v \in DOMAIN L : taken[v] < L[v]} |-> L[u] - taken[u]]
      BY <2>9 DEF AfterTrade, Reduced
    <3>6. ASSUME NEW u \in d PROVE L[u] - taken[u] = StillOpen(u, s)
      <4>1. u \in DOMAIN L /\ u \in Buys(r)
        BY <3>4, <2>5
      <4>2. QED BY <4>1, <3>2, <2>5
    <3> HIDE DEF d, t, L, taken
    <3>7. AfterTrade(t, L) = FifoLots(s)
      BY <3>4, <3>5, <3>6, <2>7
    <3>8. QED BY <3>7, <2>2, <1>3
  <2>10. QED BY <2>8, <2>9
<1>4. S \in P
  <2> HIDE DEF P
  <2> QED BY <1>1, <1>2, <1>3, SetInduction
<1>5. QED
  BY <1>4

\* What a sale takes is what is no longer open.
LEMMA SaleTakes ==
  ASSUME NEW S \in SUBSET PricedTrades, S # {}, Latest(S).side # "buy"
  PROVE  Total(Taken(OpenLots(S \ {Latest(S)}), Latest(S).qty)) = OpenQuantity(S \ {Latest(S)}) - OpenQuantity(S)
<1> DEFINE t == Latest(S)
           r == S \ {t}
           L == OpenLots(r)
           taken == Taken(L, t.qty)
           d == DOMAIN L
           kept == {u \in d : taken[u] < L[u]}
           after == OpenLots(S)
           left == [u \in d |-> L[u] - taken[u]]
<1>1. PricedTrades \in SUBSET Trades
  BY DEF PricedTrades
<1>2. t \in S /\ S \in SUBSET Trades /\ r \in SUBSET PricedTrades /\ r \in SUBSET Trades /\ t.qty \in Nat
  BY <1>1, LatestIn, TradebookAssumption
<1>3. Total(L) = OpenQuantity(r) /\ Total(after) = OpenQuantity(S) /\ L \in LotBooks
  BY <1>2, LotsAreLast, FifoLotsSum
<1>4. after = [u \in kept |-> L[u] - taken[u]]
  <2>1. after = AfterTrade(t, L)
    BY <1>2, OpenLotsIs
  <2>2. QED BY <2>1 DEF AfterTrade, Reduced
<1>5. DOMAIN taken = d /\ \A u \in d : taken[u] \in 0..L[u] /\ L[u] \in Nat
  BY <1>2, <1>3, TakenType
<1>6. IsFiniteSet(d) /\ kept \in SUBSET d /\ IsFiniteSet(kept)
  BY <1>3, LotsType, FS_Subset
<1>7. DOMAIN after = kept /\ \A u \in kept : after[u] = left[u]
  BY <1>4
<1>8. \A u \in d : left[u] = L[u] - taken[u]
  OBVIOUS
<1> HIDE DEF t, r, L, taken, d, after, left
<1>9. Total(L) = SumFunctionOnSet(L, d) /\ Total(taken) = SumFunctionOnSet(taken, d) /\ Total(after) = SumFunctionOnSet(after, kept)
  BY <1>5, <1>7 DEF Total, SumFunction, d
<1>10. \A u \in d : /\ taken[u] \in Int /\ left[u] \in Int /\ L[u] \in Int /\ L[u] = taken[u] + left[u]
                    /\ (u \notin kept => left[u] = 0)
  BY <1>5, <1>8
<1> HIDE DEF kept
<1>11. SumFunctionOnSet(L, d) = SumFunctionOnSet(taken, d) + SumFunctionOnSet(left, d)
  BY <1>6, <1>10, SumPlus
<1>12. SumFunctionOnSet(left, d) = SumFunctionOnSet(left, kept)
  BY <1>6, <1>10, SumWithoutZeros
<1>13. SumFunctionOnSet(after, kept) = SumFunctionOnSet(left, kept)
  <2>1. \A u \in kept : left[u] \in Int /\ after[u] = left[u]
    BY <1>6, <1>7, <1>10
  <2>2. QED BY <2>1, <1>6, SumSame
<1>14. SumFunctionOnSet(taken, d) \in Int /\ SumFunctionOnSet(left, d) \in Int
  BY <1>6, <1>10, SumType
<1>15. Total(taken) = OpenQuantity(r) - OpenQuantity(S)
  BY <1>3, <1>9, <1>11, <1>12, <1>13, <1>14
<1>16. QED
  BY <1>15 DEF t, r, L, taken

\* The quantities of the closed positions.
ClosedQuantity(S) == SumFunction([t \in DOMAIN Closed(S) |-> Total(Closed(S)[t])])

\* Every unit that was bought is open or closed.
LEMMA OpenOrClosed ==
  ASSUME NEW S \in SUBSET PricedTrades
  PROVE  OpenQuantity(S) + ClosedQuantity(S) = SumOf(S, "buy")
<1> DEFINE Sells(s) == {u \in s : u.side = "sell"}
           By(u, s) == Total(Taken(OpenLots({v \in s : Before(v, u)}), u.qty))
           Each(s) == [u \in Sells(s) |-> By(u, s)]
           P == {s \in SUBSET PricedTrades : OpenQuantity(s) + ClosedQuantity(s) = SumOf(s, "buy")}
<1>1. PricedTrades \in SUBSET Trades /\ IsFiniteSet(PricedTrades)
  BY FiniteTrades DEF PricedTrades
<1>2. ASSUME NEW s \in SUBSET PricedTrades
      PROVE  ClosedQuantity(s) = SumFunctionOnSet(Each(s), Sells(s))
  <2>1. DOMAIN Closed(s) = Sells(s) /\ \A u \in Sells(s) : Total(Closed(s)[u]) = By(u, s)
    BY DEF Closed
  <2>2. [u \in DOMAIN Closed(s) |-> Total(Closed(s)[u])] = Each(s)
    <3> HIDE DEF By, Sells
    <3> QED BY <2>1
  <2>3. DOMAIN Each(s) = Sells(s)
    OBVIOUS
  <2> HIDE DEF Each, Sells
  <2>4. QED BY <2>2, <2>3 DEF ClosedQuantity, SumFunction
<1>3. ASSUME NEW s \in SUBSET PricedTrades, NEW u \in s PROVE By(u, s) \in Nat
  <2>1. {v \in s : Before(v, u)} \in SUBSET Trades /\ u.qty \in Nat
    BY <1>1, TradebookAssumption
  <2> DEFINE L == OpenLots({v \in s : Before(v, u)})
  <2>2. L \in LotBooks
    BY <2>1, OpenLotsIs
  <2> HIDE DEF L
  <2>3. DOMAIN Taken(L, u.qty) = DOMAIN L /\ \A v \in DOMAIN L : Taken(L, u.qty)[v] \in Nat
    BY <2>1, <2>2, TakenType
  <2>4. SumFunctionOnSet(Taken(L, u.qty), DOMAIN L) \in Nat
    BY <2>2, <2>3, LotsType, SumNatural
  <2>5. Total(Taken(L, u.qty)) \in Nat
    BY <2>3, <2>4 DEF Total, SumFunction
  <2>6. QED BY <2>5 DEF L
<1>4. {} \in P
  <2>1. Sells({}) = {}
    OBVIOUS
  <2>2. SumFunctionOnSet(Each({}), {}) = 0
    <3> HIDE DEF Each
    <3> QED BY FS_EmptySet, SumType
  <2>3. ClosedQuantity({}) = 0
    BY <1>2, <2>1, <2>2
  <2>4. OpenQuantity({}) = 0 /\ SumOf({}, "buy") = 0
    BY OpenQuantityIs, SumOfIs
  <2>5. OpenQuantity({}) + ClosedQuantity({}) = SumOf({}, "buy")
    BY <2>3, <2>4
  <2>6. QED BY <2>5
<1>5. ASSUME NEW s \in SUBSET PricedTrades, s # {}, \A x \in s : s \ {x} \in P PROVE s \in P
  <2> DEFINE t == Latest(s)
             r == s \ {t}
  <2>1. t \in s /\ s \in SUBSET Trades /\ r \in SUBSET PricedTrades /\ r \in SUBSET Trades /\ \A u \in s : u = t \/ Before(u, t)
    BY <1>1, <1>5, LatestIn
  <2>2. t.qty \in Nat /\ t.side \in {"buy", "sell"}
    BY <2>1, <1>1, TradebookAssumption DEF PricedTrades, Priced, Usable
  <2>3. ASSUME NEW u \in r PROVE By(u, s) = By(u, r)
    <3>1. ~Before(t, u)
      BY <2>1, BrokerOrder
    <3>2. {v \in s : Before(v, u)} = {v \in r : Before(v, u)}
      BY <3>1
    <3>3. QED BY <3>2, Zenon
  <2>4. {v \in s : Before(v, t)} = r
    BY <2>1, BrokerOrder
  <2>5. ClosedQuantity(s) = SumFunctionOnSet(Each(s), Sells(s)) /\ ClosedQuantity(r) = SumFunctionOnSet(Each(r), Sells(r))
    BY <1>2, <2>1
  <2>6. IsFiniteSet(Sells(s)) /\ IsFiniteSet(Sells(r)) /\ Sells(r) \subseteq r
    <3>1. Sells(s) \in SUBSET Trades /\ Sells(r) \in SUBSET Trades
      BY <2>1
    <3>2. IsFiniteSet(Sells(s)) /\ IsFiniteSet(Sells(r))
      BY <3>1, FiniteTrades
    <3>3. QED BY <3>2
  <2>7. \A u \in Sells(r) : Each(r)[u] \in Int /\ Each(s)[u] = Each(r)[u]
    <3>1. ASSUME NEW u \in Sells(r) PROVE Each(r)[u] \in Int /\ Each(s)[u] = Each(r)[u]
      <4>1. u \in r /\ u \in Sells(s)
        OBVIOUS
      <4>2. Each(r)[u] = By(u, r) /\ Each(s)[u] = By(u, s)
        <5> HIDE DEF By, Sells
        <5> QED BY <4>1
      <4>3. By(u, r) \in Nat
        BY <1>3, <2>1, <4>1
      <4> HIDE DEF By, Each, r
      <4>4. QED BY <4>1, <4>2, <4>3, <2>3
    <3>2. QED BY <3>1
  <2>8. SumFunctionOnSet(Each(s), Sells(r)) = SumFunctionOnSet(Each(r), Sells(r)) /\ SumFunctionOnSet(Each(r), Sells(r)) \in Int
    <3> HIDE DEF Each, Sells, r
    <3> QED BY <2>6, <2>7, SumSame, SumType
  <2>9. OpenQuantity(r) + ClosedQuantity(r) = SumOf(r, "buy")
    BY <1>5, <2>1
  <2>10. OpenQuantity(r) \in Nat /\ OpenQuantity(s) \in Nat /\ OpenQuantity(s) = Opened(OpenQuantity(r), t)
    BY <1>5, <2>1, OpenQuantityIs
  <2>11. SumOf(s, "buy") = (IF t.side = "buy" THEN t.qty ELSE 0) + SumOf(r, "buy") /\ SumOf(r, "buy") \in Nat
    BY <2>1, SumOfIs
  <2>12. CASE t.side = "buy"
    <3>1. Sells(s) = Sells(r)
      BY <2>12
    <3>2. ClosedQuantity(s) = ClosedQuantity(r) /\ ClosedQuantity(r) \in Int
      <4> HIDE DEF Each, Sells, r
      <4> QED BY <3>1, <2>5, <2>8
    <3>3. OpenQuantity(s) = OpenQuantity(r) + t.qty
      BY <2>10, <2>12 DEF Opened
    <3>4. OpenQuantity(s) + ClosedQuantity(s) = SumOf(s, "buy")
      <4> HIDE DEF t, r, P
      <4> QED BY <3>2, <3>3, <2>2, <2>9, <2>10, <2>11, <2>12
    <3>5. QED BY <3>4
  <2>13. CASE t.side # "buy"
    <3>1. t \in Sells(s) /\ Sells(s) \ {t} = Sells(r)
      BY <2>1, <2>2, <2>13
    <3>2. Each(s)[t] = OpenQuantity(r) - OpenQuantity(s)
      <4>1. Each(s)[t] = By(t, s)
        <5> HIDE DEF By, Sells, t
        <5> QED BY <3>1
      <4>2. By(t, s) = Total(Taken(OpenLots(r), t.qty))
        BY <2>4, Zenon
      <4>3. Total(Taken(OpenLots(r), t.qty)) = OpenQuantity(r) - OpenQuantity(s)
        BY <1>5, <2>13, SaleTakes
      <4>4. QED BY <4>1, <4>2, <4>3, Zenon
    <3>3. \A u \in Sells(s) : Each(s)[u] \in Int
      <4>1. ASSUME NEW u \in Sells(s) PROVE Each(s)[u] \in Int
        <5>1. CASE u = t
          <6> HIDE DEF t, r, Each
          <6> QED BY <5>1, <3>2, <2>10
        <5>2. CASE u # t
          <6>1. u \in Sells(r)
            BY <3>1, <5>2
          <6> HIDE DEF Each, Sells
          <6>2. QED BY <6>1, <2>7
        <5>3. QED BY <5>1, <5>2
      <4>2. QED BY <4>1
    <3>4. SumFunctionOnSet(Each(s), Sells(s)) = Each(s)[t] + SumFunctionOnSet(Each(s), Sells(s) \ {t})
      <4> HIDE DEF Each, Sells, t
      <4> QED BY <3>1, <3>3, <2>6, SumRemove
    <3>5. SumFunctionOnSet(Each(s), Sells(s) \ {t}) = SumFunctionOnSet(Each(s), Sells(r))
      BY <3>1, Zenon
    <3>6. ClosedQuantity(s) = (OpenQuantity(r) - OpenQuantity(s)) + ClosedQuantity(r) /\ ClosedQuantity(r) \in Int
      <4> HIDE DEF Each, Sells, t, r
      <4> QED BY <3>2, <3>4, <3>5, <2>5, <2>8
    <3>7. SumOf(s, "buy") = SumOf(r, "buy")
      <4> HIDE DEF t, r
      <4> QED BY <2>11, <2>13
    <3>8. OpenQuantity(s) + ClosedQuantity(s) = SumOf(s, "buy")
      <4> HIDE DEF t, r, P
      <4> QED BY <3>6, <3>7, <2>9, <2>10
    <3>9. QED BY <3>8
  <2>14. QED BY <2>12, <2>13
<1>6. S \in P
  <2> HIDE DEF P
  <2> QED BY <1>1, <1>4, <1>5, SetInduction
<1>7. QED
  BY <1>6

\* The cost of the open lots is that of the units that were bought last.
LEMMA CostIs ==
  ASSUME NEW S \in SUBSET PricedTrades
  PROVE  SumFunction([t \in DOMAIN OpenLots(S) |-> t.price * OpenLots(S)[t]])
           = SumFunction([t \in {u \in S : u.side = "buy"} |-> t.price * StillOpen(t, S)])
<1> DEFINE L == OpenLots(S)
           d == DOMAIN L
           b == {u \in S : u.side = "buy"}
           f == [t \in d |-> t.price * L[t]]
           g == [t \in b |-> t.price * StillOpen(t, S)]
<1>1. b \in SUBSET Trades /\ b \subseteq S
  BY DEF PricedTrades
<1>2. d = {v \in b : StillOpen(v, S) > 0} /\ \A u \in d : L[u] = StillOpen(u, S)
  BY LotsAreLast, FifoLotsSum DEF Buys
<1>3. IsFiniteSet(b) /\ IsFiniteSet(d) /\ d \in SUBSET b
  <2>1. d \in SUBSET b
    BY <1>2
  <2>2. QED BY <2>1, <1>1, FiniteTrades, FS_Subset
<1>4. \A u \in b : StillOpen(u, S) \in Nat /\ u.price \in Nat
  <2>1. ASSUME NEW u \in b PROVE StillOpen(u, S) \in Nat /\ u.price \in Nat
    <3>1. u \in S /\ u \in Trades
      BY <1>1
    <3>2. StillOpen(u, S) \in 0..u.qty /\ u.qty \in Nat
      BY <3>1, StillOpenType
    <3>3. u.price \in Nat
      BY <3>1, TradebookAssumption
    <3>4. QED BY <3>2, <3>3
  <2>2. QED BY <2>1
<1>5. \A u \in b : g[u] = u.price * StillOpen(u, S)
  OBVIOUS
<1>6. \A u \in d : f[u] = u.price * L[u]
  OBVIOUS
<1>7. DOMAIN f = d /\ DOMAIN g = b
  OBVIOUS
<1> HIDE DEF f, g, b, d, L
<1>8. \A u \in b : g[u] \in Int
  BY <1>4, <1>5
<1>9. \A u \in b \ d : g[u] = 0
  <2>1. ASSUME NEW u \in b \ d PROVE g[u] = 0
    <3>1. ~(StillOpen(u, S) > 0) /\ StillOpen(u, S) \in Nat /\ u.price \in Nat
      BY <1>2, <1>4
    <3>2. StillOpen(u, S) = 0
      BY <3>1
    <3>3. QED BY <3>1, <3>2, <1>5
  <2>2. QED BY <2>1
<1>10. \A u \in d : g[u] \in Int /\ f[u] = g[u]
  BY <1>2, <1>3, <1>5, <1>6, <1>8
<1>11. SumFunctionOnSet(g, b) = SumFunctionOnSet(g, d)
  BY <1>3, <1>8, <1>9, SumWithoutZeros
<1>12. SumFunctionOnSet(f, d) = SumFunctionOnSet(g, d)
  BY <1>3, <1>10, SumSame
<1>13. SumFunction(f) = SumFunction(g)
  BY <1>7, <1>11, <1>12 DEF SumFunction
<1>14. QED
  BY <1>13 DEF f, g, b, d, L

\* There is no lot exactly when nothing is open.
LEMMA NothingOpen ==
  ASSUME NEW S \in SUBSET PricedTrades
  PROVE  OpenLots(S) = NoLots <=> OpenQuantity(S) = 0
<1>1. OpenLots(S) = FifoLots(S) /\ Total(OpenLots(S)) = OpenQuantity(S)
  BY LotsAreLast, FifoLotsSum
<1>2. ASSUME OpenLots(S) = NoLots PROVE OpenQuantity(S) = 0
  <2>1. SumFunctionOnSet(NoLots, {}) = 0
    BY FS_EmptySet, SumType
  <2>2. DOMAIN NoLots = {}
    BY DEF NoLots
  <2>3. QED BY <1>1, <1>2, <2>1, <2>2 DEF Total, SumFunction
<1>3. ASSUME OpenQuantity(S) = 0 PROVE OpenLots(S) = NoLots
  <2>1. ASSUME NEW u \in S PROVE ~(StillOpen(u, S) > 0)
    <3>1. StillOpen(u, S) = Clamp(0 - BoughtAfter(u, S), u.qty) /\ u.qty \in Nat
      BY <1>3, StillOpenType
    <3>2. BoughtAfter(u, S) \in Nat
      <4>1. S \in SUBSET Trades
        BY DEF PricedTrades
      <4>2. QED BY <4>1, BoughtAfterType
    <3>3. QED BY <3>1, <3>2 DEF Clamp
  <2>2. {v \in Buys(S) : StillOpen(v, S) > 0} = {}
    BY <2>1 DEF Buys
  <2>3. QED BY <1>1, <2>2 DEF FifoLots, NoLots
<1>4. QED
  BY <1>2, <1>3

\* However many trades of however many shares are stored, in whatever order they were fetched:
\* the cost basis of a share is that of the units that were bought last, as many as are left
\* when sales without lots are dropped, and the closed positions are the other purchases.
THEOREM FifoEver == BookSpec => []LotsAreFifo
<1>1. BookTypeOK => LotsAreFifo
  <2> SUFFICES ASSUME BookTypeOK, NEW s \in SymbolsOf(tradeCache)
               PROVE  LET basis == CostBasis(tradeCache)
                          trades == PricedOf(tradeCache, s)
                          bought == {t \in trades : t.side = "buy"}
                          closed == Closed(trades)
                      IN /\ IF OpenQuantity(trades) = 0 THEN s \notin DOMAIN basis
                            ELSE /\ basis[s].quantity = OpenQuantity(trades)
                                 /\ basis[s].cost = SumFunction([t \in bought |-> t.price * StillOpen(t, trades)])
                         /\ OpenQuantity(trades) + SumFunction([t \in DOMAIN closed |-> Total(closed[t])]) = SumOf(trades, "buy")
    BY DEF LotsAreFifo
  <2> DEFINE S == PricedOf(tradeCache, s)
             basis == CostBasis(tradeCache)
  <2>1. S \in SUBSET PricedTrades
    BY DEF BookTypeOK, PricedOf, PricedTrades
  <2>2. OpenQuantity(S) + ClosedQuantity(S) = SumOf(S, "buy")
    BY <2>1, OpenOrClosed
  <2>3. s \in DOMAIN basis <=> OpenQuantity(S) # 0
    BY <2>1, NothingOpen DEF CostBasis
  <2>4. ASSUME s \in DOMAIN basis
        PROVE  /\ basis[s].quantity = Total(OpenLots(S))
               /\ basis[s].cost = SumFunction([t \in DOMAIN OpenLots(S) |-> t.price * OpenLots(S)[t]])
    BY <2>4 DEF CostBasis
  <2>5. Total(OpenLots(S)) = OpenQuantity(S)
    BY <2>1, LotsAreLast, FifoLotsSum
  <2>6. SumFunction([t \in DOMAIN OpenLots(S) |-> t.price * OpenLots(S)[t]])
          = SumFunction([t \in {u \in S : u.side = "buy"} |-> t.price * StillOpen(t, S)])
    BY <2>1, CostIs
  <2> HIDE DEF S, basis
  <2>7. QED
    BY <2>2, <2>3, <2>4, <2>5, <2>6 DEF ClosedQuantity, S, basis
<1>2. QED
  BY <1>1, BookTypeCorrect, PTL
=============================================================================
