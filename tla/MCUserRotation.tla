-------------------------- MODULE MCUserRotation --------------------------
(* Small instances of UserRotation.                                        *)
EXTENDS UserRotation

Plan(rotated, deletes, old, failing) ==
    [rotated |-> rotated, deletes |-> deletes, old |-> old, failing |-> failing]

\* Any step up to the write of the internal secret fails, or one after it, while the
\* accounts that the operator uses keep their passwords; or those change, too, the
\* secret goes, and steps outside of the change fail, also after it; or the secret
\* comes from a version that knew no operator.
MCPlans ==
    {Plan({"root", "monitor", "xtrabackup"}, FALSE, FALSE,
          {"secret", "monitorDone", "alter", "proxy", "sync", "write", "pxc"}),
     Plan({"operator", "pmmserver", "proxyadmin"}, TRUE, FALSE, {"secret", "read", "xtrabackup", "deploy", "proxysql"}),
     Plan({}, FALSE, TRUE, {"admin", "adminInternal", "monitor"})}
=============================================================================
