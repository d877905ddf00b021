-------------------------- MODULE MCClusterHealth --------------------------
(* Small instances of ClusterHealth.                                       *)
EXTENDS ClusterHealth

\* All pods at once, or the last one.
AllOrOne == {Pods, {Size - 1}}
=============================================================================
