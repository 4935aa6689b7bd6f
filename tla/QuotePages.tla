----------------------------- MODULE QuotePages -----------------------------
(***************************************************************************)
(* Pages that follow the price of one symbol (/ws/stock_quote and          *)
(* /stock_quote of main.py): each waits for messages beyond the number it  *)
(* has seen, and all of them share the stream of the symbol, which any of  *)
(* them starts, restarts and closes.  The tasks behind the stream's record *)
(* are those of LiveQuoteSocket; here an operation of the manager is one   *)
(* step.                                                                   *)
(***************************************************************************)
EXTENDS Naturals

CONSTANTS
  Viewers,    \* pages
  MaxCount,   \* bound: messages counted by a record
  MaxBreaks   \* bound: failures of the stream

ASSUME QuotePagesAssumption == MaxCount \in Nat \ {0} /\ MaxBreaks \in Nat

VARIABLES
  trading,  \* market_hours_open
  feed,     \* the record of the symbol
  viewer,   \* where each page is, and the message count it has seen
  breaks
pageVars == <<trading, feed, viewer, breaks>>

\* auth: the failure was one of authentication; own: a quote came by this record's connection;
\* quiet: none lately (SOCKET_STREAM_STALE_SECONDS).
NoFeed == [there |-> FALSE, status |-> "closed", auth |-> FALSE, count |-> 0, quote |-> FALSE,
           own |-> FALSE, quiet |-> FALSE]
Off == [at |-> "off", after |-> 0]
Over == {"failed", "closed"}    \* the task of the stream has ended

PagesInit ==
  /\ trading \in BOOLEAN /\ feed = NoFeed
  /\ viewer = [v \in Viewers |-> Off] /\ breaks = 0

-----------------------------------------------------------------------------
(* The manager.  (Operators named Mutant... are faulty variants of the     *)
(* definition that follows them.)                                          *)

NeedsRestart == ~feed.own \/ feed.quiet \/ feed.status \in Over
\* ensure_stream: the record of a restarted stream keeps the quote and counts from zero.
Ensured(force) ==
  IF ~trading THEN NoFeed
  ELSE IF ~feed.there \/ force \/ (NeedsRestart /\ ~feed.auth)
       THEN [NoFeed EXCEPT !.there = TRUE, !.status = "connecting", !.quote = feed.quote]
       ELSE feed

Moves(v, to) == viewer' = [viewer EXCEPT ![v].at = to]
In(v, at) == viewer[v].at = at

-----------------------------------------------------------------------------
(* A page.                                                                 *)

\* Outside the hours the page is told so, and the stream closed.
Join(v) ==
  /\ In(v, "off")
  /\ feed' = Ensured(FALSE)
  /\ Moves(v, IF trading THEN "first" ELSE "off")
  /\ UNCHANGED <<trading, breaks>>

\* /stock_quote answers once, from the stream if it can.
Look ==
  /\ trading /\ feed' = Ensured(FALSE)
  /\ UNCHANGED <<trading, viewer, breaks>>

\* wait_for_quote returns what there is, at the latest after its timeout; that is sent.
Sent(v, to) ==
  /\ viewer' = [viewer EXCEPT ![v] = [at |-> to, after |-> feed.count]]
  /\ UNCHANGED <<trading, feed, breaks>>
First(v) == In(v, "first") /\ Sent(v, IF feed.auth THEN "leaving" ELSE "next")
Again(v) == In(v, "restarted") /\ Sent(v, "next")

HasNews(v) == feed.there /\ feed.quote /\ feed.count > viewer[v].after
News(v) == trading /\ In(v, "next") /\ HasNews(v) /\ Sent(v, "next")

\* No newer message in 25 seconds, or no record: the page looks why, or sends a heartbeat (and
\* nothing changes).
MutantNothing(v) ==
  /\ In(v, "next") /\ trading /\ feed.auth /\ Moves(v, "leaving") /\ UNCHANGED feed
  /\ UNCHANGED <<trading, breaks>>
Nothing(v) ==
  /\ In(v, "next") /\ trading /\ feed.there
  /\ \/ feed.auth /\ Moves(v, "leaving") /\ UNCHANGED feed
     \/ ~feed.auth /\ feed.status \in Over /\ Moves(v, "reopening") /\ feed' = NoFeed
  /\ UNCHANGED <<trading, breaks>>
Reopen(v) ==
  /\ In(v, "reopening") /\ feed' = Ensured(TRUE) /\ Moves(v, "restarted")
  /\ UNCHANGED <<trading, breaks>>

\* The stream is closed whoever else follows it: first when the market has closed, and last
\* when a failed authentication has been told.
MarketClosed(v) ==
  /\ In(v, "next") /\ ~trading
  /\ feed' = NoFeed /\ viewer' = [viewer EXCEPT ![v] = Off]
  /\ UNCHANGED <<trading, breaks>>
Leave(v) ==
  /\ In(v, "leaving")
  /\ feed' = NoFeed /\ viewer' = [viewer EXCEPT ![v] = Off]
  /\ UNCHANGED <<trading, breaks>>
\* The browser goes away: the stream stays.
Disconnect(v) ==
  /\ ~In(v, "off") /\ viewer' = [viewer EXCEPT ![v] = Off]
  /\ UNCHANGED <<trading, feed, breaks>>

-----------------------------------------------------------------------------
(* The stream, and the market.                                             *)

Stream(new) == feed.there /\ feed' = new /\ UNCHANGED <<trading, viewer, breaks>>
Connects == feed.status = "connecting" /\ trading /\ Stream([feed EXCEPT !.status = "live"])
Receives ==
  /\ feed.status = "live" /\ feed.count < MaxCount
  /\ Stream([feed EXCEPT !.count = @ + 1, !.quote = TRUE, !.own = TRUE, !.quiet = FALSE])
GetsQuiet == feed.own /\ ~feed.quiet /\ Stream([feed EXCEPT !.quiet = TRUE])
Closes == feed.status \in {"connecting", "live"} /\ ~trading /\ Stream([feed EXCEPT !.status = "closed"])
Breaks(auth) ==
  /\ feed.there /\ feed.status \in {"connecting", "live"} /\ breaks < MaxBreaks /\ breaks' = breaks + 1
  /\ feed' = [feed EXCEPT !.status = IF trading THEN "failed" ELSE "closed", !.auth = auth]
  /\ UNCHANGED <<trading, viewer>>
TradingChanges == trading' = ~trading /\ UNCHANGED <<feed, viewer, breaks>>

ViewerStep(v) == First(v) \/ Again(v) \/ News(v) \/ Nothing(v) \/ Reopen(v) \/ MarketClosed(v) \/ Leave(v)
PagesNext ==
  \/ \E v \in Viewers : ViewerStep(v) \/ Join(v) \/ Disconnect(v)
  \/ Look \/ Connects \/ Receives \/ GetsQuiet \/ Closes \/ TradingChanges
  \/ \E auth \in BOOLEAN : Breaks(auth)

\* Every wait of a page has a timeout.
PagesFairness == \A v \in Viewers : WF_pageVars(ViewerStep(v))

-----------------------------------------------------------------------------
(* Properties.                                                             *)

\* No page is left behind: on a stream whose task has ended it restarts the stream, or tells
\* the user and leaves, whichever other page restarts or closes the stream first; and when the
\* market has closed for good every page ends.
NoPageLeft ==
  /\ \A v \in Viewers :
       In(v, "next") /\ feed.there /\ feed.status \in Over ~> In(v, "off") \/ ~(feed.there /\ feed.status \in Over)
  /\ <>[]~trading => \A v \in Viewers : <>[]In(v, "off")
=============================================================================
