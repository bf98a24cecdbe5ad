------------------------------ MODULE MCWindows -------------------------------
(* The two sliding windows of the program, for TLC: that of the samples a     *)
(* statistic is built from (SpreadStats) and that of the requests sent to a   *)
(* gateway (RateLimit).  They have nothing to do with each other, so a        *)
(* behaviour runs one of them and leaves the other alone.                     *)
EXTENDS SpreadStats, RateLimit

CONSTANTS a, b

VARIABLE subject

WindowInit == subject \in {"samples", "requests"} /\ Init /\ LimitInit

WindowNext ==
  \/ subject = "samples" /\ Next /\ UNCHANGED <<subject, limitVars>>
  \/ subject = "requests" /\ LimitNext /\ UNCHANGED <<subject, vars>>

WindowSpec == WindowInit /\ [][WindowNext]_<<subject, vars, limitVars>>
=============================================================================
