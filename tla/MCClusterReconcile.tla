------------------------- MODULE MCClusterReconcile -------------------------
(* Small instances of ClusterReconcile.                                    *)
EXTENDS ClusterReconcile

\* The one that orders, without ProxySQL's claims; both that delete claims, and
\* one of another owner in between.
SomeLists == {<<"pods-in-order">>, <<"pxc-pvc", "other", "proxysql-pvc">>}
=============================================================================
