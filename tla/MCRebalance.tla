----------------------------- MODULE MCRebalance -----------------------------
(* Starts for the run of Rebalance.                                            *)
EXTENDS Rebalance

Position(active, passive, ledger, autoFlag) ==
  [active |-> active, passive |-> passive, ledger |-> ledger, autoFlag |-> autoFlag]

\* An excess that is not a whole number of lots; a short position with a ledger
\* ahead of it; a ledger so far behind that the order ends beyond zero, and one
\* that ends at zero; two legs of one direction; a heavier passive leg; a ledger
\* of the other direction; a naked leg.
AllStarts == {Position(7, -2, 7, FALSE), Position(-7, 2, -8, TRUE), Position(8, -2, 3, FALSE),
              Position(7, -2, 3, TRUE), Position(4, 3, 4, FALSE), Position(2, -7, 2, FALSE),
              Position(7, -2, -1, FALSE), Position(5, 0, 5, FALSE)}
=============================================================================
