--------------------------- MODULE MCRuntimeControl --------------------------
(* Files an operator may save, for the run of RuntimeControl.                *)
EXTENDS RuntimeControl

CONSTANTS a, b, typo

Command(key, cmdType, remain) ==
  [key |-> key, cmdType |-> cmdType, profitPct |-> -remain, closeRemainVolume |-> remain]
File(closeOnly, stopAllAlgo, commands) ==
  [closeOnly |-> closeOnly, stopAllAlgo |-> stopAllAlgo, pairCommands |-> commands]

Plain == File(FALSE, FALSE, <<>>)

\* Every type, each switch on and off, a mistyped key, and a command that is
\* refused when an earlier file has stopped its pair.
AllFiles ==
  {Plain,
   File(TRUE, FALSE, <<Command(a, "STOP", 0), Command(b, "MODIFY", 1)>>),
   File(FALSE, TRUE, <<Command(typo, "NONE", 0), Command(b, "CLOSE", 2),
                       Command(a, "RESUME", 2), Command(b, "STOP", 0)>>)}
=============================================================================
