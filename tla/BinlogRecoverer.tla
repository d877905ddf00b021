---------------------------- MODULE BinlogRecoverer ----------------------------
(****************************************************************************)
(* Point-in-time recovery (cmd/pitr/recoverer): a restored backup holds the *)
(* transactions 1 .. start; the recoverer picks the binlogs of the archive  *)
(* to replay and replays them in the order of their names, which begin with *)
(* the second that the binlog was created in.  What a recovery does with    *)
(* the archive as it stands is a function of it, so the properties are      *)
(* stated at every state of the collector.                                  *)
(****************************************************************************)
EXTENDS BinlogCollector

\* Slip: the list stays newest first.
Precedes_Reversed(o, q) == q.born < o.born

\* The order of the names.
Precedes(o, q) == o.born < q.born

\* Slip: the binlog at which the search stops is left out.
Selected_Exclusive(start) ==
    {o \in objects : \A q \in sets : Precedes(o, q) \/ o = q => ~(1 .. start \subseteq q.set)}

\* setBinlogs: from the newest binlog back to the first that holds everything
\* that the backup holds.
Selected(start) ==
    {o \in objects : \A q \in sets : Precedes(o, q) => ~(1 .. start \subseteq q.set)}

\* It fails without binlogs, and if one that it picks has no GTID set.
Possible(start) == objects # {} /\ Selected(start) \subseteq sets

\* Slip: the time is looked at in the names only.
Applies_WholeFiles(kind, target, o) ==
    {g \in Holds(o) : kind = "date" => o.born <= target}

\* recover: which transactions of a binlog are replayed, of those that the object
\* holds: mysqlbinlog reads what there is, and its failure at an end that is missing
\* is lost in the pipe.  A binlog created after the time asked for ends the replay,
\* and mysqlbinlog stops at the time itself.  Of a transaction to stop at nothing is
\* made use of.
Applies(kind, target, o) ==
    {g \in Holds(o) : kind = "date" => o.born <= target /\ at[g] < target}

\* The cluster's transactions when the replay has reached o, and in the end.
ReplayedUpTo(kind, target, start, o) ==
    1 .. start \cup UNION {Applies(kind, target, q) : q \in {q \in Selected(start) : q = o \/ Precedes(q, o)}}

Recovered(kind, target, start) ==
    1 .. start \cup UNION {Applies(kind, target, o) : o \in Selected(start)}

-----------------------------------------------------------------------------
(* What a recovery promises.                                                *)

\* Everything that the archive holds is replayed, each transaction after all those before
\* it but what the archive does not hold of its own binlogs.
Complete(start) ==
    Possible(start) =>
        /\ Held \subseteq Recovered("latest", 0, start)
        /\ \A o \in Selected(start) :
             LET done == ReplayedUpTo("latest", 0, start, o)
             IN \A g \in done : 1 .. g \subseteq done \cup (Archived \ Held)

\* "recover to the latest existing binlog" (recoverer.go:153): from any backup,
\* taken at any time.
RecoversLatest ==
    \A start \in 1 .. committed : Complete(start)

\* The same for backups that the archive continues and that hold more than any
\* binlog that was uploaded, from whichever nodes the binlogs came (setBinlogs,
\* recoverer.go:275-313).  It is not claimed when outages, changes of the node and
\* rotations meet.
RecoversLaterBackups ==
    \A start \in 1 .. committed :
        /\ \E g \in Archived : g <= start + 1
        /\ ~(\E o \in objects : 1 .. start \subseteq o.set)
        => Complete(start)

\* "recover to exact date" (recoverer.go:154): what the archive holds from before
\* that time, and nothing from after it but what the backup held.
RecoversToDate ==
    \A start \in 1 .. committed, target \in 1 .. now :
        Possible(start) =>
            Recovered("date", target, start) = 1 .. start \cup {g \in Held : at[g] < target}
=============================================================================
