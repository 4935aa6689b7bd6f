----------------------- MODULE LiveQuoteSocket_proofs -----------------------
(***************************************************************************)
(* Proofs about LiveQuoteSocket, for any number of symbols, fetches, other *)
(* users and streams.                                                      *)
(***************************************************************************)
EXTENDS LiveQuoteSocket, TLAPS

\* What the operations of the manager can disturb.
Core ==
  /\ current \in [Symbols -> Streams \cup {NoStream}]
  /\ stream \in [Streams -> StreamState]
  /\ caller \in [Callers -> CallerState]
  /\ NoOrphan /\ CallersOK /\ AgesOK

\* The rest of the invariant.
Fetches ==
  /\ price \in [Fetchers -> Price]
  /\ misses \in [Symbols -> Nat] /\ cooling \in [Symbols -> BOOLEAN]
  /\ SocketPricesAreOwn

LEMMA Parts ==
  /\ IInv <=> (market \in BOOLEAN /\ Core /\ Fetches)
  /\ IInv' <=> (market' \in BOOLEAN /\ Core' /\ Fetches')
BY DEF IInv, TypeOK, Core, Fetches

\* At first no stream exists.
LEMMA InductiveInit ==
  Init => IInv
<1> SUFFICES ASSUME Init PROVE IInv
  OBVIOUS
<1>1. TypeOK
  BY ConstantsAssumption DEF Init, TypeOK, Blank, StreamState, CallerState, Price, Dead, Alive
<1>2. NoOrphan /\ AgesOK
  BY ConstantsAssumption DEF Init, NoOrphan, AgesOK, Blank, Alive
<1>3. CallersOK /\ SocketPricesAreOwn
  BY DEF Init, CallersOK, SocketPricesAreOwn
<1>4. QED
  BY <1>1, <1>2, <1>3 DEF IInv

-----------------------------------------------------------------------------
(* The task of a stream. *)

\* A task may go on, end, or stop being alive; it is never revived or cancelled by itself.
LEMMA TaskMoves ==
  ASSUME IInv, NEW s \in Streams, NEW r \in StreamState, Becomes(s, r),
         r.task \in Alive => stream[s].task \in Alive,
         r.task = "cancelling" => stream[s].task = "cancelling",
         r.age # "none" => r.quote = "own"
  PROVE  IInv'
<1>1. /\ stream' \in [Streams -> StreamState]
      /\ \A t \in Streams : stream'[t] = IF t = s THEN r ELSE stream[t]
      /\ UNCHANGED <<market, current, caller, price, misses, cooling>>
  BY DEF Becomes, fetchVars, IInv, TypeOK
<1>2. NoOrphan'
  BY <1>1 DEF IInv, NoOrphan
<1>3. AgesOK'
  BY <1>1 DEF IInv, AgesOK
<1>4. TypeOK' /\ CallersOK' /\ SocketPricesAreOwn'
  BY <1>1 DEF IInv, TypeOK, CallersOK, SocketPricesAreOwn
<1>5. QED
  BY <1>2, <1>3, <1>4 DEF IInv

LEMMA StreamSteps ==
  ASSUME IInv, NEW s \in Streams, StreamStep(s)
  PROVE  IInv'
<1> DEFINE r == stream[s]
<1>1. r \in StreamState /\ (r.age # "none" => r.quote = "own")
  BY DEF IInv, TypeOK, AgesOK
<1> USE <1>1 DEF Task, R, StreamState, Alive, Dead
<1>2. CASE Begin(s)
  BY <1>2, TaskMoves DEF Begin
<1>3. CASE Connect(s)
  BY <1>3, TaskMoves DEF Connect
<1>4. CASE Subscribe(s)
  BY <1>4, TaskMoves DEF Subscribe
<1>5. CASE Receive(s)
  BY <1>5, TaskMoves DEF Receive
<1>6. CASE MarketCloses(s)
  BY <1>6, TaskMoves DEF MarketCloses
<1>7. CASE Break(s)
  BY <1>7, TaskMoves DEF Break
<1>8. CASE Broken(s)
  BY <1>8, TaskMoves DEF Broken
<1>9. CASE Closed(s)
  BY <1>9, TaskMoves DEF Closed
<1>10. CASE Stopped(s)
  BY <1>10, TaskMoves DEF Stopped, Blank
<1>11. QED
  BY <1>2, <1>3, <1>4, <1>5, <1>6, <1>7, <1>8, <1>9, <1>10 DEF StreamStep, Proceeds

LEMMA AgesKeeps ==
  ASSUME IInv, NEW y \in Symbols, Ages(y)
  PROVE  IInv'
<1> DEFINE s == current[y]
           r == [stream[s] EXCEPT !.age = IF @ = "fresh" THEN "aged" ELSE "old"]
<1>1. s \in Streams
  BY DEF Ages, Popped, IInv, TypeOK
<1>2. stream[s].age # "none" /\ Becomes(s, r)
  BY DEF Ages, R
<1>3. stream[s] \in StreamState /\ stream[s].quote = "own"
  BY <1>1, <1>2 DEF IInv, TypeOK, AgesOK
<1>4. /\ r \in StreamState /\ r.task = stream[s].task
      /\ r.quote = stream[s].quote
  BY <1>3 DEF StreamState
<1>5. QED
  BY <1>1, <1>2, <1>3, <1>4, TaskMoves

-----------------------------------------------------------------------------
(* The operations of the manager. *)

\* Where a call of the manager may begin and end.
Places == {"idle", "calling", "waiting", "resting", "dropping", "polling", "hung"}

\* The caller goes on at once, or awaits what it has cancelled.
LEMMA GoMoves ==
  ASSUME IInv, NEW c \in Callers, NEW S \in SUBSET Streams, caller[c].awaits = {},
         NEW during \in {"calling", "dropping"}, NEW after \in Places \ {"resting"},
         Go(c, S, during, after)
  PROVE  /\ caller' \in [Callers -> CallerState]
         /\ CallersOK'
         /\ \A d \in Callers \ {c} : caller'[d] = caller[d]
         /\ (\A s \in S : stream[s].task = "done") \/ caller'[c].awaits = S
<1>1. caller \in [Callers -> CallerState] /\ CallersOK
  BY DEF IInv, TypeOK
<1>2. CASE \A s \in S : stream[s].task = "done"
  <2>1. caller' = [caller EXCEPT ![c] = [caller[c] EXCEPT !.at = after]]
    BY <1>2 DEF Go
  <2>2. QED
    BY <1>1, <1>2, <2>1 DEF CallerState, CallersOK, Places
<1>3. CASE ~ \A s \in S : stream[s].task = "done"
  <2>1. caller' = [caller EXCEPT ![c] = [caller[c] EXCEPT !.at = during, !.awaits = S]]
    BY <1>3 DEF Go
  <2>2. QED
    BY <1>1, <2>1 DEF CallerState, CallersOK, Places
<1>4. QED
  BY <1>2, <1>3

LEMMA CloseKeeps ==
  ASSUME IInv, NEW c \in Callers, caller[c].awaits = {}, NEW closing \in SUBSET Symbols,
         NEW during \in {"calling", "dropping"}, NEW after \in Places \ {"resting"},
         CloseSymbols(c, closing, during, after)
  PROVE  Core'
<1> DEFINE Ending == UNION {Popped(y) : y \in closing}
<1>1. Ending \subseteq Streams /\ \A s \in Streams : s \in Ending <=> \E y \in closing : current[y] = s
  BY ConstantsAssumption DEF Popped, IInv, TypeOK
<1>2. /\ \A y \in Symbols : current'[y] = IF y \in closing THEN NoStream ELSE current[y]
      /\ current' \in [Symbols -> Streams \cup {NoStream}]
  BY DEF CloseSymbols, IInv, TypeOK
<1>3. /\ \A s \in Streams : stream'[s] = IF s \in Ending THEN Cancelled(s) ELSE stream[s]
      /\ stream' \in [Streams -> StreamState]
  BY DEF CloseSymbols, IInv, TypeOK, Cancelled, Blank, StreamState, Alive, Dead
<1>4. Go(c, Ending, during, after)
  BY DEF CloseSymbols
<1> HIDE DEF Ending
<1>5. /\ caller' \in [Callers -> CallerState] /\ CallersOK'
      /\ \A d \in Callers \ {c} : caller'[d] = caller[d]
      /\ (\A s \in Ending : stream[s].task = "done") \/ caller'[c].awaits = Ending
  <2>1. caller[c].awaits = {} /\ Ending \in SUBSET Streams
    BY <1>1
  <2>2. QED
    BY <1>4, <2>1, GoMoves
<1>6. AgesOK'
  BY <1>3 DEF IInv, AgesOK, Cancelled, Blank
<1>7. NoOrphan'
  <2> SUFFICES ASSUME NEW s \in Streams
               PROVE  /\ stream'[s].task \in Alive => \E y \in Symbols : current'[y] = s
                      /\ \A y, z \in Symbols : current'[y] = s /\ current'[z] = s => y = z
                      /\ stream'[s].task = "cancelling" =>
                           /\ \A y \in Symbols : current'[y] # s
                           /\ \E d \in Callers : s \in caller'[d].awaits
    BY DEF NoOrphan
  <2>1. CASE s \in Ending
    BY <2>1, <1>1, <1>2, <1>3, <1>5, ConstantsAssumption
    DEF IInv, NoOrphan, Cancelled, Blank, Alive
  <2>2. CASE s \notin Ending
    BY <2>2, <1>1, <1>2, <1>3, <1>5, ConstantsAssumption DEF IInv, NoOrphan
  <2>3. QED
    BY <2>1, <2>2
<1>8. QED
  BY <1>2, <1>3, <1>5, <1>6, <1>7 DEF Core

LEMMA StartKeeps ==
  ASSUME IInv, NEW c \in Callers, caller[c].awaits = {}, NEW y \in Symbols,
         NEW allow \in BOOLEAN,
         NEW during \in {"calling", "dropping"}, NEW after \in Places \ {"resting"},
         StartStream(c, y, allow, during, after)
  PROVE  Core'
<1>1. PICK n \in Streams :
        /\ Free(n)
        /\ current' = [current EXCEPT ![y] = n]
        /\ stream' = [s \in Streams |-> IF s = n THEN NewRecord(y, allow)
                        ELSE IF s \in Popped(y) THEN Cancelled(s) ELSE stream[s]]
        /\ Go(c, Popped(y), during, after)
  BY DEF StartStream
<1> DEFINE S == Popped(y)
<1>2. S \subseteq Streams /\ \A s \in Streams : s \in S <=> current[y] = s
  BY ConstantsAssumption DEF Popped, IInv, TypeOK
<1>3. /\ \A z \in Symbols : current'[z] = IF z = y THEN n ELSE current[z]
      /\ current' \in [Symbols -> Streams \cup {NoStream}]
  BY <1>1 DEF IInv, TypeOK
<1>4. /\ NewRecord(y, allow) \in StreamState
      /\ NewRecord(y, allow).task = "created" /\ NewRecord(y, allow).age = "none"
  BY DEF NewRecord, Blank, StreamState, Alive, Dead
<1>5. /\ \A s \in Streams : stream'[s] = IF s = n THEN NewRecord(y, allow)
                                         ELSE IF s \in S THEN Cancelled(s) ELSE stream[s]
      /\ stream' \in [Streams -> StreamState]
  <2>1. \A s \in Streams : Cancelled(s) \in StreamState
    BY DEF Cancelled, Blank, StreamState, Alive, Dead
  <2>2. QED
    BY <1>1, <1>4, <2>1 DEF IInv, TypeOK
<1>6. /\ caller' \in [Callers -> CallerState] /\ CallersOK'
      /\ \A d \in Callers \ {c} : caller'[d] = caller[d]
      /\ (\A s \in S : stream[s].task = "done") \/ caller'[c].awaits = S
  BY <1>1, <1>2, GoMoves
<1>7. AgesOK'
  BY <1>4, <1>5 DEF IInv, AgesOK, Cancelled, Blank
<1>8. /\ \A z \in Symbols : current[z] # n
      /\ n \notin S
  BY <1>1, <1>2 DEF Free
<1>9. NoOrphan'
  <2> SUFFICES ASSUME NEW s \in Streams
               PROVE  /\ stream'[s].task \in Alive => \E z \in Symbols : current'[z] = s
                      /\ \A x, z \in Symbols : current'[x] = s /\ current'[z] = s => x = z
                      /\ stream'[s].task = "cancelling" =>
                           /\ \A z \in Symbols : current'[z] # s
                           /\ \E d \in Callers : s \in caller'[d].awaits
    BY DEF NoOrphan
  <2>1. CASE s = n
    BY <2>1, <1>3, <1>4, <1>5, <1>8
  <2>2. CASE s # n /\ s \in S
    BY <2>2, <1>2, <1>3, <1>5, <1>6 DEF IInv, NoOrphan, Cancelled, Blank, Alive
  <2>3. CASE s # n /\ s \notin S
    BY <2>3, <1>2, <1>3, <1>5, <1>6 DEF IInv, NoOrphan
  <2>4. QED
    BY <2>1, <2>2, <2>3
<1>10. QED
  BY <1>3, <1>5, <1>6, <1>7, <1>9 DEF Core

\* The streams stay as they are and nobody stops awaiting a cancelled one.
LEMMA CallersMove ==
  ASSUME IInv, UNCHANGED managerVars,
         caller' \in [Callers -> CallerState], CallersOK',
         \A c \in Callers, s \in Streams :
           s \in caller[c].awaits /\ stream[s].task # "done" => s \in caller'[c].awaits
  PROVE  Core'
<1>1. NoOrphan'
  BY DEF IInv, NoOrphan, managerVars
<1>2. QED
  BY <1>1 DEF IInv, TypeOK, Core, AgesOK, managerVars

LEMMA EnsureKeeps ==
  ASSUME IInv, NEW c \in Callers, caller[c].awaits = {}, NEW y \in Symbols,
         NEW force \in BOOLEAN, NEW allow \in BOOLEAN,
         NEW during \in {"calling", "dropping"}, NEW after \in Places \ {"resting"},
         EnsureStream(c, y, force, allow, during, after)
  PROVE  Core'
<1>1. CASE CloseSymbols(c, {y}, during, after)
  BY <1>1, CloseKeeps
<1>2. CASE StartStream(c, y, allow, during, after)
  BY <1>2, StartKeeps
<1>3. CASE Go(c, {}, during, after) /\ UNCHANGED managerVars
  <2>1. caller' \in [Callers -> CallerState] /\ CallersOK'
        /\ \A d \in Callers \ {c} : caller'[d] = caller[d]
    BY <1>3, GoMoves
  <2>2. QED
    BY <1>3, <2>1, CallersMove
<1>4. QED
  BY <1>1, <1>2, <1>3 DEF EnsureStream

-----------------------------------------------------------------------------
(* Fetches and the other users. *)

\* A coroutine whose streams have ended moves to another place.
LEMMA GoesKeeps ==
  ASSUME IInv, NEW c \in Callers, NEW place \in Places, Returned(c), Goes(c, place),
         UNCHANGED managerVars,
         place = "resting" => caller[c].tries < MaxAttempts - 1
  PROVE  Core'
<1>1. caller \in [Callers -> CallerState] /\ CallersOK
  BY DEF IInv, TypeOK
<1>2. /\ caller' \in [Callers -> CallerState]
      /\ \A d \in Callers : caller'[d] = IF d = c THEN [caller[c] EXCEPT !.at = place, !.awaits = {}]
                                                  ELSE caller[d]
  BY <1>1 DEF Goes, CallerState, Places
<1>3. CallersOK'
  BY <1>1, <1>2 DEF CallersOK, CallerState
<1>4. \A d \in Callers, s \in Streams :
        s \in caller[d].awaits /\ stream[s].task # "done" => s \in caller'[d].awaits
  BY <1>2 DEF Returned
<1>5. QED
  BY <1>2, <1>3, <1>4, CallersMove

\* A coroutine that is in no call awaits nothing.
LEMMA AwaitsNothing ==
  ASSUME IInv, NEW c \in Callers, caller[c].at \notin {"calling", "dropping"}
  PROVE  caller[c].awaits = {} /\ Returned(c)
BY DEF IInv, CallersOK, Returned

LEMMA EndsKeeps ==
  ASSUME IInv, NEW f \in Fetchers, caller[f].awaits = {}, NEW p \in Price, Ends(f, p),
         UNCHANGED managerVars, p.source = "socket" => p.quote = "own",
         misses' \in [Symbols -> Nat], cooling' \in [Symbols -> BOOLEAN]
  PROVE  Core' /\ Fetches'
<1>1. caller \in [Callers -> CallerState] /\ CallersOK /\ f \in Callers
  BY DEF IInv, TypeOK, Callers
<1>2. /\ caller' \in [Callers -> CallerState]
      /\ \A d \in Callers : caller'[d] = IF d = f THEN [at |-> "idle", awaits |-> {}, tries |-> 0]
                                                  ELSE caller[d]
  BY <1>1, ConstantsAssumption DEF Ends, CallerState
<1>3. CallersOK'
  BY <1>1, <1>2 DEF CallersOK
<1>4. Core'
  BY <1>2, <1>3, CallersMove
<1>5. Fetches'
  BY DEF Fetches, Ends, SocketPricesAreOwn, IInv, TypeOK
<1>6. QED
  BY <1>4, <1>5

\* What the failure count and the cool-down become.
LEMMA MissTypes ==
  ASSUME IInv, NEW y \in Symbols, NEW failures \in Nat, Miss(y, failures)
  PROVE  misses' \in [Symbols -> Nat] /\ cooling' \in [Symbols -> BOOLEAN]
<1>1. misses \in [Symbols -> Nat] /\ cooling \in [Symbols -> BOOLEAN]
  BY DEF IInv, TypeOK
<1>2. misses' \in [Symbols -> Nat]
  BY <1>1 DEF Miss
<1>3. (failures >= Threshold) \in BOOLEAN
  BY ConstantsAssumption
<1>4. cooling' \in [Symbols -> BOOLEAN]
  BY <1>1, <1>3 DEF Miss
<1>5. QED
  BY <1>2, <1>4

\* What the manager has of a symbol, and what a socket's price is made of.
LEMMA SnapshotFacts ==
  ASSUME IInv, NEW f \in Fetchers
  PROVE  /\ Y(f) \in Symbols
         /\ Live(Snapshot(f)) => Snapshot(f).quote = "own"
         /\ Snapshot(f).quote \in {"none", "carried", "own"}
<1>1. Y(f) \in Symbols
  BY ConstantsAssumption DEF Y
<1>2. CASE Popped(Y(f)) = {}
  BY <1>1, <1>2 DEF Snapshot, Blank, Live
<1>3. CASE Popped(Y(f)) # {}
  <2>1. current[Y(f)] \in Streams
    BY <1>1, <1>3 DEF Popped, IInv, TypeOK
  <2>2. QED
    BY <1>1, <1>3, <2>1 DEF Snapshot, Live, IInv, TypeOK, AgesOK, StreamState
<1>4. QED
  BY <1>2, <1>3

LEMMA FetchSteps ==
  ASSUME IInv, NEW f \in Fetchers, Fetch(f) \/ FetchStep(f) \/ CancelFetch(f)
  PROVE  IInv'
<1>0. /\ f \in Callers /\ Y(f) \in Symbols /\ MaxAttempts \in Nat \ {0} /\ Threshold \in Nat
      /\ misses \in [Symbols -> Nat] /\ cooling \in [Symbols -> BOOLEAN]
      /\ market \in BOOLEAN /\ Fetches
  BY SnapshotFacts, ConstantsAssumption, Parts DEF Callers, Fetches
<1> USE <1>0 DEF At
<1>1. SUFFICES Core' /\ Fetches' /\ market' = market
  BY Parts
<1>2. CASE Fetch(f)
  <2>1. Fetches' /\ market' = market
    BY <1>2 DEF Fetch, fetchVars, Fetches, SocketPricesAreOwn
  <2>2. caller[f].awaits = {} /\ Returned(f)
    BY <1>2, AwaitsNothing DEF Fetch
  <2>3. CASE cooling[Y(f)]
    BY <1>2, <2>1, <2>2, <2>3, GoesKeeps DEF Fetch, Places
  <2>4. CASE ~cooling[Y(f)]
    <3>1. EnsureStream(f, Y(f), FALSE, FALSE, "calling", "waiting")
      BY <1>2, <2>4 DEF Fetch
    <3>2. QED
      BY <2>1, <2>2, <3>1, EnsureKeeps DEF Places
  <2>5. QED
    BY <2>1, <2>3, <2>4
<1>3. CASE EnsureReturns(f)
  BY <1>3, GoesKeeps DEF EnsureReturns, Places, fetchVars, Fetches, SocketPricesAreOwn
<1>4. CASE TakeQuote(f)
  <2> DEFINE p == [source |-> IF Live(Snapshot(f)) THEN "socket" ELSE "http",
                   quote |-> Snapshot(f).quote]
  <2>1. p \in Price /\ (p.source = "socket" => p.quote = "own")
    BY SnapshotFacts DEF Price
  <2>2. /\ Ends(f, p) /\ UNCHANGED managerVars /\ market' = market
        /\ misses' \in [Symbols -> Nat] /\ cooling' \in [Symbols -> BOOLEAN]
    BY <1>4 DEF TakeQuote
  <2>3. caller[f].awaits = {}
    BY <1>4, AwaitsNothing DEF TakeQuote
  <2>4. QED
    BY <2>1, <2>2, <2>3, EndsKeeps
<1>5. CASE DropStream(f)
  <2>1. CloseSymbols(f, {Y(f)}, "dropping", "polling") /\ market' = market /\ price' = price
    BY <1>5 DEF DropStream
  <2>2. caller[f].awaits = {}
    BY <1>5, AwaitsNothing DEF DropStream, NoQuote
  <2>3. Core'
    BY <2>1, <2>2, CloseKeeps DEF Places
  <2>4. misses' \in [Symbols -> Nat] /\ cooling' \in [Symbols -> BOOLEAN]
    BY <1>5, MissTypes DEF DropStream
  <2>5. QED
    BY <2>1, <2>3, <2>4 DEF Fetches, SocketPricesAreOwn
<1>6. CASE DropReturns(f)
  <2>1. misses' \in [Symbols -> Nat] /\ cooling' \in [Symbols -> BOOLEAN]
    BY <1>6, MissTypes DEF DropReturns
  <2>2. Core'
    BY <1>6, GoesKeeps DEF DropReturns, Places
  <2>3. QED
    BY <1>6, <2>1, <2>2 DEF DropReturns, Fetches, SocketPricesAreOwn
<1>7. CASE WaitAgain(f)
  <2>1. Returned(f)
    BY <1>7, AwaitsNothing DEF WaitAgain, NoQuote
  <2>2. QED
    BY <1>7, <2>1, GoesKeeps DEF WaitAgain, Places, fetchVars, Fetches, SocketPricesAreOwn
<1>8. CASE Rested(f)
  <2>1. caller \in [Callers -> CallerState] /\ CallersOK
    BY DEF IInv, TypeOK
  <2>2. caller[f].tries \in 0..(MaxAttempts - 1) /\ caller[f].tries < MaxAttempts - 1
    BY <1>8, <2>1 DEF Rested, CallersOK, CallerState
  <2>3. /\ caller[f].tries + 1 \in 0..(MaxAttempts - 1)
        /\ caller' = [caller EXCEPT ![f] = [caller[f] EXCEPT !.at = "waiting", !.tries = caller[f].tries + 1]]
    BY <1>8, <2>1, <2>2 DEF Rested, CallerState
  <2>4. /\ caller' \in [Callers -> CallerState]
        /\ \A d \in Callers : caller'[d].awaits = caller[d].awaits
        /\ \A d \in Callers \ {f} : caller'[d] = caller[d]
        /\ caller'[f].at = "waiting"
    BY <2>1, <2>3 DEF CallerState
  <2>5. CallersOK'
    BY <1>8, <2>1, <2>4, AwaitsNothing DEF Rested, CallersOK
  <2>6. Core'
    BY <1>8, <2>4, <2>5, CallersMove DEF Rested
  <2>7. QED
    BY <1>8, <2>6 DEF Rested, fetchVars, Fetches, SocketPricesAreOwn
<1>9. CASE FallBack(f)
  <2>1. misses' \in [Symbols -> Nat] /\ cooling' \in [Symbols -> BOOLEAN]
    BY <1>9, MissTypes DEF FallBack
  <2>2. Returned(f)
    BY <1>9, AwaitsNothing DEF FallBack, NoQuote
  <2>3. Core'
    BY <1>9, <2>2, GoesKeeps DEF FallBack, Places
  <2>4. QED
    BY <1>9, <2>1, <2>3 DEF FallBack, Fetches, SocketPricesAreOwn
<1>10. CASE Poll(f)
  <2>1. PICK q \in {"polled", "none"} : Ends(f, [source |-> "http", quote |-> q])
    BY <1>10 DEF Poll
  <2>2. caller[f].awaits = {}
    BY <1>10, AwaitsNothing DEF Poll
  <2>3. QED
    BY <1>10, <2>1, <2>2, EndsKeeps DEF Poll, Price
<1>11. CASE CancelFetch(f)
  <2>1. caller[f].awaits = {}
    BY <1>11, AwaitsNothing DEF CancelFetch
  <2>2. QED
    BY <1>11, <2>1, EndsKeeps DEF CancelFetch, Price
<1>12. CASE PollHangs(f)
  <2>1. Returned(f)
    BY <1>12, AwaitsNothing DEF PollHangs
  <2>2. QED
    BY <1>12, <2>1, GoesKeeps DEF PollHangs, Places, fetchVars, Fetches, SocketPricesAreOwn
<1>13. QED
  BY <1>2, <1>3, <1>4, <1>5, <1>6, <1>7, <1>8, <1>9, <1>10, <1>11, <1>12 DEF FetchStep

LEMMA OtherUsers ==
  ASSUME IInv, NEW c \in Requesters,
         \/ \E y \in Symbols, force, allow \in BOOLEAN : Request(c, y, force, allow)
         \/ \E y \in Symbols : CloseBy(c, y)
         \/ CloseAll(c) \/ RequestReturns(c)
  PROVE  IInv'
<1>0. c \in Callers /\ market \in BOOLEAN /\ Fetches
  BY Parts DEF Callers
<1> USE <1>0 DEF At, Places
<1>1. Fetches' /\ market' = market
  BY DEF Request, CloseBy, CloseAll, RequestReturns, fetchVars, Fetches, SocketPricesAreOwn
<1>2. CASE \E y \in Symbols, force, allow \in BOOLEAN : Request(c, y, force, allow)
  BY <1>1, <1>2, AwaitsNothing, EnsureKeeps, Parts DEF Request
<1>3. CASE \E y \in Symbols : CloseBy(c, y)
  BY <1>1, <1>3, AwaitsNothing, CloseKeeps, Parts DEF CloseBy
<1>4. CASE CloseAll(c)
  BY <1>1, <1>4, AwaitsNothing, CloseKeeps, Parts DEF CloseAll
<1>5. CASE RequestReturns(c)
  BY <1>1, <1>5, GoesKeeps, Parts DEF RequestReturns
<1>6. QED
  BY <1>2, <1>3, <1>4, <1>5

-----------------------------------------------------------------------------
\* Every step preserves the invariant.
LEMMA InductiveStep ==
  IInv /\ [Next]_vars => IInv'
<1> SUFFICES ASSUME IInv, [Next]_vars PROVE IInv'
  OBVIOUS
<1>1. CASE \E y \in Symbols : CooldownEnds(y)
  <2>1. UNCHANGED <<market, current, stream, caller, price, misses>> /\ cooling' \in [Symbols -> BOOLEAN]
    BY <1>1 DEF CooldownEnds, managerVars, IInv, TypeOK
  <2>2. QED
    BY <2>1 DEF IInv, TypeOK, NoOrphan, CallersOK, AgesOK, SocketPricesAreOwn
<1>2. CASE MarketOpensOrCloses
  <2>1. UNCHANGED <<current, stream, caller, price, misses, cooling>> /\ market' \in BOOLEAN
    BY <1>2 DEF MarketOpensOrCloses, managerVars, fetchVars, IInv, TypeOK
  <2>2. QED
    BY <2>1 DEF IInv, TypeOK, NoOrphan, CallersOK, AgesOK, SocketPricesAreOwn
<1>3. CASE UNCHANGED vars
  BY <1>3 DEF vars, managerVars, fetchVars, IInv, TypeOK, NoOrphan, CallersOK, AgesOK, SocketPricesAreOwn
<1>4. QED
  BY <1>1, <1>2, <1>3, StreamSteps, AgesKeeps, FetchSteps, OtherUsers DEF Next

\* In every reachable state streams, callers and prices agree.
THEOREM Inductive ==
  Spec => []IInv
BY InductiveInit, InductiveStep, PTL DEF Spec

\* Every variable keeps its type.
THEOREM TypeCorrect ==
  Spec => []TypeOK
<1>1. IInv => TypeOK
  BY DEF IInv
<1>2. QED
  BY <1>1, Inductive, PTL

\* No socket outlives its record, however the calls of ensure_stream, close_symbol and
\* close_all overlap and for any number of callers.
THEOREM NoOrphanEver ==
  Spec => []NoOrphan
<1>1. IInv => NoOrphan
  BY DEF IInv
<1>2. QED
  BY <1>1, Inductive, PTL

\* A price that the monitor takes for the socket's was received by the current stream.
THEOREM SocketPricesCorrect ==
  Spec => []SocketPricesAreOwn
<1>1. IInv => SocketPricesAreOwn
  BY DEF IInv
<1>2. QED
  BY <1>1, Inductive, PTL
=============================================================================
