------------------------------ MODULE MCBinlogs ------------------------------
(* Small instances of BinlogCollector and BinlogRecoverer.                  *)
EXTENDS BinlogRecoverer

OneHost  == {0}
TwoHosts == {0, 1}

Calm == [k \in Mishaps |-> 0]

\* A node is lost for a while, or with its volume, and with it the collector changes nodes.
Faults == [Calm EXCEPT !["rotation"] = 1, !["outage"] = 1, !["rebuild"] = 1]
\* One node, a collector that is interrupted again and again, and two uploads of which
\* the end is left out.
Alone  == [Calm EXCEPT !["crash"] = 1, !["refused"] = 1, !["rotation"] = 1, !["desync"] = 1,
                       !["cut"] = 2]
\* One mishap alone: see the README for what fails after it.
OneCut    == [Calm EXCEPT !["cut"] = 1]
OneSwitch == [Calm EXCEPT !["desync"] = 1]
OneLoss   == [Calm EXCEPT !["outage"] = 1, !["rebuild"] = 1]
=============================================================================
