------------------------ MODULE MCRestoreController ------------------------
(* Small instances of RestoreController.                                    *)
EXTENDS RestoreController, TLC

Ask(dest, pitr, usable) == [dest |-> dest, pitr |-> pitr, usable |-> usable]

\* Every way through Reconcile: a source pod, a PITR job, both, none, a bad ask.
AllPlans == {Ask("s3", FALSE, TRUE), Ask("s3", TRUE, TRUE), Ask("pvc", TRUE, TRUE),
             Ask("unknown", FALSE, TRUE), Ask("s3", FALSE, FALSE)}
\* A restore that can succeed, with a source pod, and one that fails late.
TwoPlans == {Ask("pvc", FALSE, TRUE), Ask("unknown", FALSE, TRUE)}
S3AndBad == {Ask("s3", FALSE, TRUE), Ask("unknown", FALSE, TRUE)}

\* The restores differ only in what they ask for, and any asks for anything.
Symmetric == Permutations(Restores)
=============================================================================
