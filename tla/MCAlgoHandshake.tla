--------------------------- MODULE MCAlgoHandshake ---------------------------
(* Runtime configurations for the runs of AlgoHandshake.                      *)
EXTENDS AlgoHandshake

Config(closeOnly, stopAllAlgo, cmd) ==
  [closeOnly |-> closeOnly, stopAllAlgo |-> stopAllAlgo, cmd |-> cmd]

NoConfigs    == {}
\* Every command on its own, each switch on and off again.
FlagConfigs  == {Config(co, FALSE, cmd) : co \in BOOLEAN, cmd \in Commands}
\* stopAllAlgo going up, with and without the flags that restrict opening.
StopConfigs  == {Config(FALSE, FALSE, "NONE"), Config(FALSE, TRUE, "NONE"),
                 Config(TRUE, TRUE, "STOP"), Config(FALSE, FALSE, "RESUME")}
=============================================================================
