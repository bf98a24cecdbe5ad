--------------------------- MODULE AlgoOrderSteps ---------------------------
(* The steps an algo order may take, as relations between its state a before  *)
(* and its state b after the step: what AlgoContext promises to the strategy  *)
(* that submits, modifies and cancels algo orders, with child orders, volumes *)
(* and prices left out.                                                       *)
(*                                                                            *)
(* A state is a record with (at least) the fields                             *)
(*   status    algoOrderStatus                                                *)
(*   role      AlgoRole                                                       *)
(*   position  pairTotalVolume                                                *)
(*   live      the pair orders being worked, as pairs <<id, direction>>,      *)
(*             direction 1 for opening and -1 for closing                     *)
(*   mayOpen, mayClose   the switches                                         *)
(* Fields not named by a step keep their values.                              *)
EXTENDS Integers

Working  == {"NEW", "CANCELLING"}
Terminal == {"FILLED", "CANCELED", "ERRORCANCELED"}

\* A tick starts one pair order, in a direction whose switch is on.
Creates(a, b) ==
  /\ a.status = "NEW"
  /\ \E x \in b.live \ a.live :
       /\ IF x[2] = 1 THEN a.mayOpen ELSE a.mayClose
       /\ b = [a EXCEPT !.live = @ \union {x}]

\* Pair orders end, and only their end moves the position, each its own way.
Finishes(a, b) ==
  /\ b.live \subseteq a.live
  /\ b.position > a.position => \E x \in a.live \ b.live : x[2] = 1
  /\ b.position < a.position => \E x \in a.live \ b.live : x[2] = -1

\* A report of a child order ends at most the pair order it belongs to.  It may
\* come in every status: an algo order given up still tracks its child orders.
TakesReport(a, b) ==
  /\ a.status # "DELETED"
  /\ Finishes(a, b)
  /\ \A x, y \in a.live \ b.live : x = y
  /\ b = [a EXCEPT !.position = b.position, !.live = b.live]

\* The timer retries pair orders and ends the algo order: FILLED or CANCELED only
\* if nothing was being worked when it began, so that a cancel it finds idle is
\* over; ERRORCANCELED whenever a child order stays unanswered.
Ticks(a, b) ==
  /\ a.status \in Working
  /\ Finishes(a, b)
  /\ b.status \in {a.status} \union Terminal
  /\ b.status = "FILLED" => a.live = {} /\ (a.mayOpen => a.role # "OPEN_SIGNAL")
  /\ b.status = "CANCELED" => a.live = {} /\ a.status = "CANCELLING"
  /\ a.status = "CANCELLING" /\ a.live = {} => b.status # "CANCELLING"
  /\ b = [a EXCEPT !.status = b.status, !.position = b.position, !.live = b.live]

Cancels(a, b) ==
  /\ a.status = "NEW"
  /\ b = [a EXCEPT !.status = "CANCELLING"]

Modifies(a, b) ==
  /\ a.status = "NEW"
  /\ b = [a EXCEPT !.mayOpen = b.mayOpen, !.mayClose = b.mayClose]

\* A terminal algo order is deleted after its grace period, with what it tracks.
Deleted(a) == [a EXCEPT !.status = "DELETED", !.live = {}]
Deletes(a, b) == a.status \in Terminal /\ b = Deleted(a)
=============================================================================
