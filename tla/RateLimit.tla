------------------------------ MODULE RateLimit ------------------------------
(* The request limiter of one account: orders, cancels and queries are        *)
(* recorded in one list, and each is sent only after a check that what is     *)
(* left of the list, once the times older than the window are gone, is        *)
(* shorter than the limit, which for cancels is another one.  Check and send  *)
(* are two calls; other accounts have lists of their own.                     *)
EXTENDS Naturals, Sequences

CONSTANTS
  maxPersec, maxCancelPersec, \* LimitUnit
  Second,     \* 1000 ms
  MaxClock,   \* bound: the clock, which the host does not set back
  MaxSent     \* bound: requests

VARIABLES
  clock,      \* getCurrentTimeMilli
  passed,     \* a check has let a request pass that is not yet sent
  ordertimes,
  sent        \* history: the times of all requests

limitVars == <<clock, passed, ordertimes, sent>>

Kinds == {"order", "query", "cancel"}
MaxPersec(kind) == IF kind = "cancel" THEN maxCancelPersec ELSE maxPersec

\* Faulty variant: the limit itself still passes.
PassesAtLimit(length, limit) == length <= limit

Passes(length, limit) == length < limit

\* n of the times at the front are older than the window, the next is not.
Expired(times, n) ==
  /\ n <= Len(times)
  /\ \A i \in 1..n : clock > times[i] + Second
  /\ n < Len(times) => clock <= times[n + 1] + Second

\* CheckPersec and CheckCancelPersec: the list gets shorter whatever they say.
Check(kind) ==
  /\ ~passed
  /\ \E n \in 0..Len(ordertimes) :
       /\ Expired(ordertimes, n)
       /\ ordertimes' = SubSeq(ordertimes, n + 1, Len(ordertimes))
       /\ passed' = Passes(Len(ordertimes) - n, MaxPersec(kind))
  /\ UNCHANGED <<clock, sent>>

\* CreateOrder, CancelOrder, QueryOrder: recorded at the time of the call.
OnOrder ==
  /\ passed /\ Len(sent) < MaxSent
  /\ passed' = FALSE
  /\ ordertimes' = Append(ordertimes, clock)
  /\ sent' = Append(sent, clock)
  /\ UNCHANGED clock

\* What passed may then not be sent: no order is due, or the funds are missing.
NotSent ==
  /\ passed
  /\ passed' = FALSE
  /\ UNCHANGED <<clock, ordertimes, sent>>

Elapse ==
  /\ clock < MaxClock
  /\ clock' = clock + 1
  /\ UNCHANGED <<passed, ordertimes, sent>>

LimitInit == clock = 0 /\ passed = FALSE /\ ordertimes = <<>> /\ sent = <<>>
LimitNext == (\E kind \in Kinds : Check(kind)) \/ OnOrder \/ NotSent \/ Elapse
LimitSpec == LimitInit /\ [][LimitNext]_limitVars

Limit == IF maxPersec < maxCancelPersec THEN maxCancelPersec ELSE maxPersec

\* In no window of time, wherever it begins, more requests of all kinds leave
\* for one account than the larger of its two limits: of any Limit + 1 requests
\* in a row the last comes more than a window after the first, although the list
\* is pruned only when somebody checks and time passes between check and send.
WindowBounded ==
  \A i \in 1..Len(sent) : i + Limit <= Len(sent) => sent[i + Limit] > sent[i] + Second
=============================================================================
