------------------------------- MODULE MCSignals -------------------------------
(* Statistics and ticks for the runs of Signals.                              *)
EXTENDS Signals

CONSTANTS a, b

Costs == [tt |-> 2, mt |-> 1]

Stat(low, high, width) ==
  [valid |-> TRUE, bidAskDQ |-> low + width, askAskDQ |-> low,
   askBidUQ |-> high - width, bidBidUQ |-> high]

\* Wide; shifted to one side with a book so wide that the taker quantiles
\* cross; near zero; a span below minSpreadSpan; none.
AllStatistics ==
  {NoStats, Stat(-10, 10, 0), Stat(-10, 10, 15), Stat(-20, -10, 10), Stat(0, 5, 0),
   Stat(5, 0, 0)}

Tick(mid, aWidth, pWidth, fundingHigh) ==
  [valid |-> TRUE, aBid |-> 0, aAsk |-> aWidth, pBid |-> mid, pAsk |-> mid + pWidth,
   price |-> 1, fundingHigh |-> fundingHigh]

\* Beyond the thresholds, at them and between them, with no width, a wide active
\* book and a wide passive one.
AllQuotes == {Tick(mid, 0, 0, FALSE) : mid \in {-18, -12, -2, 0, 2, 9, 18}}
             \union {Tick(mid, 4, 0, FALSE) : mid \in {0, 3, 10}}
             \union {Tick(mid, 0, 4, FALSE) : mid \in {-11, 8}} \union {Tick(18, 4, 4, TRUE)}

\* The books of the theorems about what a tick may signal.
ASSUME BooksAreNarrow ==
  /\ NarrowBooks(OneSidedWidth)
  /\ \A target \in ProfitTargets \ {0} : NarrowBooks(KeptWidth(target))
=============================================================================
