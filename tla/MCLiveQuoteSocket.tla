-------------------------- MODULE MCLiveQuoteSocket --------------------------
(***************************************************************************)
(* Small instances of LiveQuoteSocket, and of the QuotePages that follow a *)
(* stream.  The two are explored one at a time: the "part" of a behaviour  *)
(* moves and the other stays where it began.                               *)
(***************************************************************************)
EXTENDS LiveQuoteSocket, QuotePages

CONSTANTS f1, f2, r1, y1, y2, s1, s2, s3, s4, v1, v2

VARIABLE part  \* "streams" or "pages"

\* Every fetch wants the first symbol.
OneSymbol == [f \in Fetchers |-> y1]

PartInit ==
  /\ Init /\ PagesInit
  /\ \/ part = "streams" /\ ~trading
     \/ part = "pages" /\ ~market
PartNext ==
  \/ part = "streams" /\ Next /\ UNCHANGED <<part, pageVars>>
  \/ part = "pages" /\ PagesNext /\ UNCHANGED <<part, vars>>
PartSpec == PartInit /\ [][PartNext]_<<part, vars, pageVars>> /\ Fairness /\ PagesFairness
=============================================================================
