----------------------------- MODULE MCBackups -----------------------------
(* Small instances of Backups.                                             *)
EXTENDS Backups, TLC

CONSTANTS user1, user2, c1, c2, daily, bucket, disk

OneSchedule == <<daily>>
OwnNames == [b \in Backups |-> b]
\* Two names that agree in their first 29 characters.
SameName == [b \in Backups |-> IF b \in OnDemand THEN user1 ELSE b]

\* Everything in a bucket; the user's backups on volumes.
AllInBucket  == [x \in OnDemand \cup Schedules |-> bucket]
MostlyBucket == [x \in OnDemand \cup Schedules |-> IF x \in Schedules THEN bucket ELSE disk]
=============================================================================
