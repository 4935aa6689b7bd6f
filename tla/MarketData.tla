----------------------------- MODULE MarketData -----------------------------
(***************************************************************************)
(* The market-data cache (utils/market_data): the scheduler's tick, the    *)
(* refresh job of the API and the warm-up task fill the table              *)
(* market_screener_cache.  Their code runs on one event loop, in steps     *)
(* that end at an await; scrapes and bulk writes run in worker threads,    *)
(* which the flag of executor.py lets run one at a time.                   *)
(* Data is a version number: the state of the outside pages it came from.  *)
(***************************************************************************)
EXTENDS Naturals, FiniteSets

CONSTANTS
  Symbols,      \* symbols of the market page
  MaxVersion,   \* bound: states of the outside pages
  MaxChanges    \* bound: changes of anything outside the jobs

ASSUME ConstantsAssumption == Symbols # {} /\ MaxVersion \in Nat \ {0} /\ MaxChanges \in Nat

\* The four tasks of a tick, the refresh job, the bootstrap task.
TickJobs == {"daily", "ensure", "merolagani", "nepse"}
Jobs == TickJobs \cup {"refresh", "bootstrap"}
NoJob == "none"

Versions == 0..MaxVersion         \* 0: no data
Row == [merolagani: Versions, nepse: Versions, shownMerolagani: Versions, shownNepse: Versions]
NoRow == [merolagani |-> 0, nepse |-> 0, shownMerolagani |-> 0, shownNepse |-> 0]

VARIABLES
  row,        \* market_screener_cache: merolagani_data, nepse_alpha_data, combined_data
  daily,      \* version of the latest daily snapshot
  saved,      \* today's snapshot exists
  world,      \* version of the outside pages
  answering,  \* the pages answer
  open,       \* is_market_hours_open()
  changes,    \* changes outside so far
  due,        \* per refresh type: the last 'ok' log is ten minutes old, or there is none
  current,    \* the last Merolagani log is not older than the last daily snapshot's
  active,     \* holder of _exclusive_market_job_active
  phase,      \* what each job awaits
  thread,     \* the worker thread of each job
  got,        \* per job: the version its thread or its fetches brought, per symbol
  base,       \* per job: the Merolagani records read before the Nepse Alpha fetches
  locked,     \* rows the enriching thread has written and not yet committed
  ticking     \* the scheduler: between ticks, in one, or cancelled

cache == <<row, daily, saved, due, current>>
outside == <<world, answering, open, changes>>
vars == <<cache, outside, active, phase, thread, got, base, locked, ticking>>

Phases == {"idle", "counting", "created", "snapshotting", "enriching", "bootstrapping", "scraping", "fetching"}
Awaiting == {"snapshotting", "enriching", "bootstrapping", "scraping"}
ThreadWork == {"snapshot", "scrape", "bootstrap", "seed", "enrich"}
Nothing == [s \in Symbols |-> 0]

Empty == \A s \in Symbols : row[s] = NoRow

\* The table is empty, or holds what an earlier run of the program left there.
Init ==
  /\ world = 1
  /\ \/ /\ row = [s \in Symbols |-> NoRow] /\ daily = 0 /\ saved = FALSE
        /\ due = [t \in {"merolagani", "nepse"} |-> TRUE] /\ current = FALSE
     \/ /\ row = [s \in Symbols |-> [n \in DOMAIN NoRow |-> 1]] /\ daily = 1 /\ saved \in BOOLEAN
        /\ due \in [{"merolagani", "nepse"} -> BOOLEAN] /\ current \in BOOLEAN
  /\ answering \in BOOLEAN /\ open \in BOOLEAN /\ changes = 0
  /\ active = NoJob
  /\ phase = [j \in Jobs |-> "idle"] /\ thread = [j \in Jobs |-> "none"]
  /\ got = [j \in Jobs |-> Nothing] /\ base = [j \in Jobs |-> Nothing]
  /\ locked = {} /\ ticking = "between"

-----------------------------------------------------------------------------
(* What the writers make of a row.                                         *)
(* (Operators named Mutant... are faulty variants of the definition that   *)
(* follows them.)                                                          *)

MutantCombined(r, m) ==
  [r EXCEPT !.merolagani = m, !.shownMerolagani = m, !.shownNepse = 0]
\* A Merolagani record m with the stored Nepse Alpha record.
Combined(r, m) ==
  [r EXCEPT !.merolagani = m, !.shownMerolagani = m, !.shownNepse = r.nepse]

\* merge_merolagani_records(daily, existing): the price of the cached record wins.
Merged(r) == IF r.merolagani # 0 THEN r.merolagani ELSE daily

\* bootstrap_cache_from_daily_snapshot: the daily snapshot, else the live page.
SeedVersion == IF daily # 0 THEN daily ELSE IF answering THEN world ELSE 0
Seeded(v) ==
  [s \in Symbols |-> [row[s] EXCEPT !.merolagani = v, !.shownMerolagani = v, !.shownNepse = 0]]
MutantBootstrapped == row
Bootstrapped == IF Empty /\ SeedVersion # 0 THEN Seeded(SeedVersion) ELSE row
BootstrapLogs == Empty /\ SeedVersion # 0

\* enrich_merolagani_from_daily_snapshot, in one step of the loop.
EnrichedOnLoop ==
  IF Empty THEN Bootstrapped
  ELSE IF daily = 0 THEN row
  ELSE [s \in Symbols |-> Combined(row[s], Merged(row[s]))]
EnrichLogs == daily # 0

\* The live branch of refresh_merolagani_cache after a scrape that brought g.
Scraped(g) ==
  [s \in Symbols |-> IF g[s] = 0 THEN row[s] ELSE Combined(row[s], g[s])]
AfterScrape(g) == IF g = Nothing THEN Bootstrapped ELSE Scraped(g)
ScrapeLogs(g) == g # Nothing \/ BootstrapLogs

\* The writes of refresh_nepse_alpha_cache: a failed fetch shows the row without its half.
NepseWritten(j) ==
  [s \in Symbols |->
     IF base[j][s] = 0 THEN row[s]
     ELSE [row[s] EXCEPT !.nepse = IF got[j][s] = 0 THEN @ ELSE got[j][s],
                         !.shownMerolagani = base[j][s], !.shownNepse = got[j][s]]]

LogIf(t, written) == due' = IF written THEN [due EXCEPT ![t] = FALSE] ELSE due
CurrentIf(written) == current' = (current \/ written)

-----------------------------------------------------------------------------
(* The exclusive flag (executor.py).                                       *)

MutantFree(j) == active = NoJob \/ j = "refresh"
Free(j) == active = NoJob

\* run_market_blocking(exclusive, skip_if_busy) takes the flag and starts the thread, or skips.
Start(j, work, next) ==
  /\ active' = j
  /\ thread' = [thread EXCEPT ![j] = work]
  /\ phase' = [phase EXCEPT ![j] = next]

\* The loop resumes a job whose thread has returned: the flag goes down in the same step.
Returned(j, p) == phase[j] = p /\ thread[j] = "returned"

\* refresh_nepse_alpha_cache up to its fetches: records read now, pages fetched later.
Prices(rows) == [s \in Symbols |-> rows[s].merolagani]
ToFetches(j, rows) ==
  IF Prices(rows) = Nothing
    THEN phase' = [phase EXCEPT ![j] = "idle"] /\ UNCHANGED base
    ELSE /\ phase' = [phase EXCEPT ![j] = "fetching"]
         /\ base' = [base EXCEPT ![j] = Prices(rows)]

-----------------------------------------------------------------------------
(* The scheduler's tick.  The first steps of its four tasks run one after  *)
(* the other, in this order, before any of them is resumed.                *)

\* _run_merolagani_refresh_if_needed, past the count of the cache.
MerolaganiDue == due["merolagani"] /\ (open \/ Empty \/ ~current)

Tick ==
  /\ ticking = "between" /\ locked = {}
  /\ ticking' = "running"
  /\ LET first == IF Free("daily") THEN "snapshotting" ELSE "idle"
         counts == IF Empty THEN "counting" ELSE "idle"
         onLoop == MerolaganiDue /\ ~open /\ ~Empty
         rows == IF onLoop THEN EnrichedOnLoop ELSE row
         fetches == open /\ due["nepse"] /\ ~Empty
     IN /\ active' = IF Free("daily") THEN "daily" ELSE active
        /\ thread' = IF Free("daily") THEN [thread EXCEPT !["daily"] = "snapshot"] ELSE thread
        \* in an open market the Merolagani task finds the flag taken and skips
        /\ phase' = [phase EXCEPT !["daily"] = first, !["ensure"] = counts,
                                  !["merolagani"] = counts,
                                  !["nepse"] = IF fetches THEN "fetching"
                                               ELSE IF open THEN counts ELSE "idle"]
        /\ base' = IF fetches THEN [base EXCEPT !["nepse"] = Prices(rows)] ELSE base
        /\ row' = rows
        /\ LogIf("merolagani", onLoop /\ EnrichLogs)
        /\ CurrentIf(onLoop /\ EnrichLogs)
  /\ UNCHANGED <<daily, saved, outside, got, locked>>

TickEnds ==
  /\ ticking = "running"
  /\ \A j \in TickJobs : phase[j] = "idle"
  /\ ticking' = "between"
  /\ UNCHANGED <<cache, outside, active, phase, thread, got, base, locked>>

\* _start_bootstrap_task: one task at a time, which begins in a later step.
KickedOff(p) == IF p["bootstrap"] = "idle" THEN [p EXCEPT !["bootstrap"] = "created"] ELSE p

\* kickoff_cache_bootstrap_if_empty of a page or of the start-up.
Probe ==
  /\ ticking # "gone" /\ Empty /\ phase["bootstrap"] = "idle"
  /\ phase' = KickedOff(phase)
  /\ UNCHANGED <<cache, outside, active, thread, got, base, locked, ticking>>

\* In the tick the count may have been taken before the cache was filled.
Counted(j) ==
  /\ phase[j] = "counting"
  /\ LET p == [phase EXCEPT ![j] = "idle"]
     IN phase' = KickedOff(p) \/ (~Empty /\ phase' = p)
  /\ UNCHANGED <<cache, outside, active, thread, got, base, locked, ticking>>

BootstrapBegins ==
  /\ phase["bootstrap"] = "created"
  /\ IF Free("bootstrap")
       THEN Start("bootstrap", "bootstrap", "bootstrapping")
       ELSE phase' = [phase EXCEPT !["bootstrap"] = "idle"] /\ UNCHANGED <<active, thread>>
  /\ UNCHANGED <<cache, outside, got, base, locked, ticking>>

\* ... in the Merolagani task, which goes on to its refresh in the same step.
CountedMerolagani ==
  /\ phase["merolagani"] = "counting" /\ locked = {}
  /\ LET scrapes == due["merolagani"] /\ open /\ Free("merolagani")
         onLoop == due["merolagani"] /\ ~open
         p == [phase EXCEPT !["merolagani"] = IF scrapes THEN "scraping" ELSE "idle"]
     IN /\ phase' = KickedOff(p) \/ (~Empty /\ phase' = p)
        /\ active' = IF scrapes THEN "merolagani" ELSE active
        /\ thread' = IF scrapes THEN [thread EXCEPT !["merolagani"] = "scrape"] ELSE thread
        /\ row' = IF onLoop THEN EnrichedOnLoop ELSE row
        /\ LogIf("merolagani", onLoop /\ (BootstrapLogs \/ EnrichLogs))
        /\ CurrentIf(onLoop /\ (BootstrapLogs \/ EnrichLogs))
  /\ UNCHANGED <<daily, saved, outside, got, base, locked, ticking>>

\* ... in the Nepse Alpha task, which bootstraps on the loop and fetches.
CountedNepse ==
  /\ phase["nepse"] = "counting" /\ locked = {}
  /\ IF due["nepse"] /\ open
       THEN /\ row' = Bootstrapped
            /\ LogIf("merolagani", BootstrapLogs) /\ CurrentIf(BootstrapLogs)
            /\ ToFetches("nepse", Bootstrapped)
       ELSE /\ phase' = [phase EXCEPT !["nepse"] = "idle"]
            /\ UNCHANGED <<row, due, current, base>>
  /\ UNCHANGED <<daily, saved, outside, active, thread, got, locked, ticking>>

-----------------------------------------------------------------------------
(* The worker threads.                                                     *)

\* run_daily_market_snapshot: skipped when today's exists; a failed fetch is logged.
SnapshotThread(j) ==
  /\ thread[j] = "snapshot"
  /\ \/ /\ ~saved /\ answering
        /\ daily' = world /\ saved' = TRUE /\ current' = FALSE
     \/ /\ saved \/ ~answering \/ ticking = "gone"   \* (its session was closed under it)
        /\ UNCHANGED <<daily, saved, current>>
  /\ thread' = [thread EXCEPT ![j] = "returned"]
  /\ UNCHANGED <<row, due, outside, active, phase, got, base, locked, ticking>>

ScrapeThread(j) ==
  /\ thread[j] = "scrape"
  /\ \E page \in SUBSET Symbols :      \* the symbols on the page; none: the scrape failed
       /\ page # {} <=> answering
       /\ got' = [got EXCEPT ![j] = [s \in Symbols |-> IF s \in page THEN world ELSE 0]]
  /\ thread' = [thread EXCEPT ![j] = "returned"]
  /\ UNCHANGED <<cache, outside, active, phase, base, locked, ticking>>

\* bootstrap_cache_from_daily_snapshot in the thread: rows are read, inserted later.
BootstrapReads ==
  /\ thread["bootstrap"] = "bootstrap"
  /\ IF Empty /\ SeedVersion # 0
       THEN /\ got' = [got EXCEPT !["bootstrap"] = [s \in Symbols |-> SeedVersion]]
            /\ thread' = [thread EXCEPT !["bootstrap"] = "seed"]
       ELSE thread' = [thread EXCEPT !["bootstrap"] = "returned"] /\ UNCHANGED got
  /\ UNCHANGED <<cache, outside, active, phase, base, locked, ticking>>

BootstrapWrites ==
  /\ thread["bootstrap"] = "seed" /\ locked = {}
  /\ \E v \in {got["bootstrap"][s] : s \in Symbols} : row' = Seeded(v)
  /\ LogIf("merolagani", TRUE) /\ CurrentIf(TRUE)
  /\ thread' = [thread EXCEPT !["bootstrap"] = "returned"]
  /\ got' = [got EXCEPT !["bootstrap"] = Nothing]
  /\ UNCHANGED <<daily, saved, outside, active, phase, base, locked, ticking>>

\* enrich_merolagani_from_daily_snapshot in the refresh job's thread reads a row, computes,
\* writes it (which locks it), and commits after the last one.
EnrichReads(s) ==
  /\ thread["refresh"] = "enrich" /\ daily # 0 /\ ~Empty
  /\ s \notin locked /\ \A u \in Symbols \ locked : got["refresh"][u] = 0
  /\ got' = [got EXCEPT !["refresh"][s] = Merged(row[s])]
  /\ base' = [base EXCEPT !["refresh"][s] = row[s].nepse]
  /\ UNCHANGED <<cache, outside, active, phase, thread, locked, ticking>>

EnrichWrites(s) ==
  /\ thread["refresh"] = "enrich"
  /\ s \notin locked /\ got["refresh"][s] # 0
  /\ locked' = locked \cup {s}
  /\ UNCHANGED <<cache, outside, active, phase, thread, got, base, ticking>>

EnrichCommits ==
  /\ thread["refresh"] = "enrich" /\ locked = Symbols
  /\ row' = [s \in Symbols |-> [row[s] EXCEPT !.merolagani = got["refresh"][s],
                                              !.shownMerolagani = got["refresh"][s],
                                              !.shownNepse = base["refresh"][s]]]
  /\ LogIf("merolagani", TRUE) /\ CurrentIf(TRUE)
  /\ locked' = {}
  /\ got' = [got EXCEPT !["refresh"] = Nothing] /\ base' = [base EXCEPT !["refresh"] = Nothing]
  /\ thread' = [thread EXCEPT !["refresh"] = "returned"]
  /\ UNCHANGED <<daily, saved, outside, active, phase, ticking>>

\* Nothing to enrich from, or an empty cache, which is bootstrapped instead.
EnrichSkips ==
  /\ thread["refresh"] = "enrich" /\ (daily = 0 \/ Empty) /\ got["refresh"] = Nothing
  /\ row' = IF daily = 0 THEN row ELSE Bootstrapped
  /\ LogIf("merolagani", Empty /\ daily # 0) /\ CurrentIf(Empty /\ daily # 0)
  /\ thread' = [thread EXCEPT !["refresh"] = "returned"]
  /\ UNCHANGED <<daily, saved, outside, active, phase, got, base, locked, ticking>>

-----------------------------------------------------------------------------
(* The loop resumes a job after its thread.                                *)

DailyResumes ==
  /\ Returned("daily", "snapshotting")
  /\ active' = NoJob
  /\ phase' = [phase EXCEPT !["daily"] = "idle"]
  /\ thread' = [thread EXCEPT !["daily"] = "none"]
  /\ UNCHANGED <<cache, outside, got, base, locked, ticking>>

BootstrapResumes ==
  /\ Returned("bootstrap", "bootstrapping")
  /\ active' = NoJob
  /\ phase' = [phase EXCEPT !["bootstrap"] = "idle"]
  /\ thread' = [thread EXCEPT !["bootstrap"] = "none"]
  /\ UNCHANGED <<cache, outside, got, base, locked, ticking>>

\* The rest of refresh_merolagani_cache, as far as the cache goes.
WriteScraped(j) ==
  /\ row' = AfterScrape(got[j])
  /\ LogIf("merolagani", ScrapeLogs(got[j])) /\ CurrentIf(ScrapeLogs(got[j]))
  /\ got' = [got EXCEPT ![j] = Nothing]

MerolaganiResumes ==
  /\ Returned("merolagani", "scraping") /\ locked = {}
  /\ active' = NoJob
  /\ WriteScraped("merolagani")
  /\ phase' = [phase EXCEPT !["merolagani"] = "idle"]
  /\ thread' = [thread EXCEPT !["merolagani"] = "none"]
  /\ UNCHANGED <<daily, saved, outside, base, locked, ticking>>

-----------------------------------------------------------------------------
(* The refresh job (refresh_job.py): snapshot, enrich, then                *)
(* refresh_screener_cache(require_market_open=False).                      *)

\* refresh_screener_cache from its bootstrap to the next await.
ScreenerPart(holder) ==
  /\ row' = Bootstrapped
  /\ LogIf("merolagani", BootstrapLogs) /\ CurrentIf(BootstrapLogs)
  /\ IF holder = NoJob
       THEN /\ active' = "refresh"
            /\ thread' = [thread EXCEPT !["refresh"] = "scrape"]
            /\ phase' = [phase EXCEPT !["refresh"] = "scraping"]
            /\ UNCHANGED base
       ELSE /\ active' = holder
            /\ thread' = [thread EXCEPT !["refresh"] = "none"]
            /\ ToFetches("refresh", Bootstrapped)

\* _run_market_refresh from the enrich attempt on, once the snapshot is over or skipped.
EnrichPart(holder) ==
  IF holder = NoJob
    THEN /\ active' = "refresh"
         /\ thread' = [thread EXCEPT !["refresh"] = "enrich"]
         /\ phase' = [phase EXCEPT !["refresh"] = "enriching"]
         /\ UNCHANGED <<row, due, current, base>>
    ELSE ScreenerPart(holder)

\* start_market_refresh_background: one job at a time.
RefreshStarts ==
  /\ ticking # "gone" /\ phase["refresh"] = "idle" /\ locked = {}
  /\ IF Free("refresh")
       THEN /\ Start("refresh", "snapshot", "snapshotting")
            /\ UNCHANGED <<row, due, current, base>>
       ELSE EnrichPart(active)
  /\ UNCHANGED <<daily, saved, outside, got, locked, ticking>>

RefreshSnapshotted ==
  /\ Returned("refresh", "snapshotting")
  /\ EnrichPart(NoJob)
  /\ UNCHANGED <<daily, saved, outside, got, locked, ticking>>

RefreshEnriched ==
  /\ Returned("refresh", "enriching")
  /\ ScreenerPart(NoJob)
  /\ UNCHANGED <<daily, saved, outside, got, locked, ticking>>

RefreshScraped ==
  /\ Returned("refresh", "scraping") /\ locked = {}
  /\ active' = NoJob
  /\ thread' = [thread EXCEPT !["refresh"] = "none"]
  /\ WriteScraped("refresh")
  /\ ToFetches("refresh", AfterScrape(got["refresh"]))
  /\ UNCHANGED <<daily, saved, outside, locked, ticking>>

\* The gathered fetches of a Nepse Alpha refresh: each answers or fails.
Fetched(j) ==
  /\ phase[j] = "fetching" /\ thread[j] # "fetched"
  /\ \E answered \in SUBSET Symbols :
       /\ answered # {} => answering
       /\ got' = [got EXCEPT ![j] = [s \in Symbols |-> IF s \in answered THEN world ELSE 0]]
  /\ thread' = [thread EXCEPT ![j] = "fetched"]
  /\ UNCHANGED <<cache, outside, active, phase, base, locked, ticking>>

NepseWrites(j) ==
  /\ phase[j] = "fetching" /\ thread[j] = "fetched" /\ locked = {}
  /\ row' = NepseWritten(j)
  /\ LogIf("nepse", TRUE)
  /\ got' = [got EXCEPT ![j] = Nothing] /\ base' = [base EXCEPT ![j] = Nothing]
  /\ thread' = [thread EXCEPT ![j] = "none"]
  /\ phase' = [phase EXCEPT ![j] = "idle"]
  /\ UNCHANGED <<daily, saved, current, outside, active, locked, ticking>>

-----------------------------------------------------------------------------
\* Shutdown, after the last request: it cancels the scheduler and its tick; the flag goes down
\* although a worker thread cannot be cancelled and runs on.
SchedulerCancelled ==
  /\ ticking # "gone"
  /\ ticking' = "gone"
  /\ phase' = [j \in Jobs |-> IF j \in TickJobs THEN "idle" ELSE phase[j]]
  /\ active' = IF active \in TickJobs THEN NoJob ELSE active
  /\ thread' = [j \in Jobs |-> IF j \in TickJobs /\ thread[j] \notin ThreadWork
                                 THEN "none" ELSE thread[j]]
  /\ base' = [j \in Jobs |-> IF j \in TickJobs THEN Nothing ELSE base[j]]
  /\ got' = [j \in Jobs |-> IF j \in TickJobs THEN Nothing ELSE got[j]]
  /\ UNCHANGED <<cache, outside, locked>>

PagesChange == world < MaxVersion /\ world' = world + 1 /\ UNCHANGED <<answering, open, saved, due>>
PagesFailOrAnswer == answering' = ~answering /\ UNCHANGED <<world, open, saved, due>>
MarketOpensOrCloses == open' = ~open /\ UNCHANGED <<world, answering, saved, due>>
NewDay == saved /\ saved' = FALSE /\ UNCHANGED <<world, answering, open, due>>
TenMinutesPass(t) ==
  ~due[t] /\ due' = [due EXCEPT ![t] = TRUE] /\ UNCHANGED <<world, answering, open, saved>>

Outside ==
  /\ changes < MaxChanges /\ changes' = changes + 1
  /\ \/ PagesChange \/ PagesFailOrAnswer \/ MarketOpensOrCloses \/ NewDay
     \/ \E t \in DOMAIN due : TenMinutesPass(t)
  /\ UNCHANGED <<row, daily, current, active, phase, thread, got, base, locked, ticking>>

BootstrapTask == BootstrapBegins \/ BootstrapReads \/ BootstrapWrites \/ BootstrapResumes

RefreshGoesOn ==
  \/ SnapshotThread("refresh") \/ RefreshSnapshotted
  \/ EnrichCommits \/ EnrichSkips \/ \E s \in Symbols : EnrichReads(s) \/ EnrichWrites(s)
  \/ RefreshEnriched \/ ScrapeThread("refresh") \/ RefreshScraped
  \/ Fetched("refresh") \/ NepseWrites("refresh")

Next ==
  \/ Tick \/ TickEnds \/ SchedulerCancelled
  \/ SnapshotThread("daily") \/ DailyResumes
  \/ Counted("ensure")
  \/ CountedMerolagani \/ ScrapeThread("merolagani") \/ MerolaganiResumes
  \/ CountedNepse \/ Fetched("nepse") \/ NepseWrites("nepse")
  \/ Probe \/ BootstrapTask
  \/ RefreshStarts \/ RefreshGoesOn
  \/ Outside

Spec == Init /\ [][Next]_vars

FairSpec ==
  /\ Spec
  /\ WF_vars(Tick) /\ WF_vars(TickEnds)
  /\ WF_vars(SnapshotThread("daily") \/ DailyResumes)
  /\ WF_vars(Counted("ensure"))
  /\ WF_vars(CountedMerolagani \/ ScrapeThread("merolagani") \/ MerolaganiResumes)
  /\ WF_vars(CountedNepse \/ Fetched("nepse") \/ NepseWrites("nepse"))
  /\ WF_vars(BootstrapTask)
  /\ WF_vars(RefreshGoesOn)

-----------------------------------------------------------------------------
(* Properties.                                                             *)

TypeOK ==
  /\ row \in [Symbols -> Row] /\ daily \in Versions /\ saved \in BOOLEAN
  /\ world \in Versions \ {0} /\ answering \in BOOLEAN /\ open \in BOOLEAN /\ changes \in 0..MaxChanges
  /\ due \in [{"merolagani", "nepse"} -> BOOLEAN] /\ current \in BOOLEAN
  /\ active \in Jobs \cup {NoJob}
  /\ phase \in [Jobs -> Phases]
  /\ thread \in [Jobs -> ThreadWork \cup {"none", "returned", "fetched"}]
  /\ got \in [Jobs -> [Symbols -> Versions]] /\ base \in [Jobs -> [Symbols -> Versions]]
  /\ active # NoJob => phase[active] \in Awaiting /\ thread[active] # "none"
  /\ locked \subseteq Symbols /\ ticking \in {"between", "running", "gone"}

\* executor.py: two exclusive jobs never run at once, as long as the scheduler is not
\* cancelled; a cancelled wait lets the flag down under a thread that runs on.
OneThread ==
  \/ ticking = "gone"
  \/ \A i, j \in Jobs : thread[i] \in ThreadWork /\ thread[j] \in ThreadWork => i = j

Agrees(r) == r.shownMerolagani = r.merolagani /\ r.shownNepse = r.nepse

\* A Nepse Alpha refresh writes over newer Merolagani records or a failed fetch, the enriching
\* thread over a newer Nepse Alpha record, or the warm-up inserts late.
Overlapped(s) ==
  \/ \E j \in {"nepse", "refresh"} :
       /\ phase[j] = "fetching" /\ phase'[j] = "idle"
       /\ base[j][s] # row[s].merolagani \/ got[j][s] = 0
  \/ locked # {} /\ base["refresh"][s] # row[s].nepse
  \/ thread["bootstrap"] = "seed" /\ row[s].nepse # 0

\* combined_data stops agreeing with the two records beside it only when two jobs overlap.
DisagreesOnlyByOverlap ==
  [][\A s \in Symbols : Agrees(row[s]) /\ ~Agrees(row'[s]) => Overlapped(s)]_vars

\* While the outside pages answer and the scheduler lives, an empty cache is filled,
\* although every warm-up may find another job running and skip.
EmptyIsFilled == <>[]answering => <>(~Empty \/ ticking = "gone")

\* scheduler.py: in market hours the mode of the Merolagani refresh is "live_scrape".
LiveModeScrapes ==
  ~<>[](ticking # "gone" /\ open /\ answering /\ ~Empty /\ due["merolagani"])
=============================================================================
