---------------------------- MODULE BinlogCollector ----------------------------
(****************************************************************************)
(* The binlog collector (cmd/pitr/collector, cmd/pitr/pxc): once a minute   *)
(* it flushes the binary log of one node and uploads, oldest first, what    *)
(* it has not uploaded yet.  Each binlog takes three writes to the storage: *)
(* the file, its GTID set, and the set as the last one uploaded, which is   *)
(* all that a restarted collector knows.                                    *)
(*                                                                          *)
(* Every node of the cluster writes the same transactions to binlogs of its *)
(* own, cut elsewhere; the collector may talk to another node each round.   *)
(* Transactions are numbered as they commit, and a set of them stands for   *)
(* a GTID set.  A binlog is named by the first transaction it may hold.     *)
(****************************************************************************)
EXTENDS Integers, FiniteSets

CONSTANTS
    Hosts,        \* the nodes, numbered as they sort
    MaxCommits,   \* transactions that commit
    Allowed       \* how often each mishap may happen

Mishaps == {"crash", "refused", "rotation", "desync", "outage", "rebuild", "cut"}

ASSUME HostsAssumption == Hosts \subseteq Nat /\ \E final \in Hosts : \A h \in Hosts : h <= final
ASSUME MaxCommitsAssumption == MaxCommits \in Nat
ASSUME AllowedAssumption == Allowed \in [Mishaps -> Nat]

VARIABLES
    committed,      \* transactions committed so far
    now, at,        \* the time, in moments told apart; when each transaction committed
    status,         \* of each node: "synced", "desynced" or "down"
    applied,        \* the last transaction in its binlogs
    starts, born,   \* where its binlogs start, the active one last; when each was created
    objects, sets,  \* uploaded binlogs; those with a GTID-set object beside them
    lost,           \* <<o, g>> if the uploaded binlog o misses its transaction g
    last,           \* the object last-binlog-set
    pc, host,       \* the collector: next call, node of this round
    todo,           \* binlogs of its list still to be looked at
    named, upload,  \* the binlog that holds the last set; whether it was passed
    lastSet,        \* the collector's copy of last
    current,        \* the binlog under way
    used            \* mishaps so far

nodes     == <<committed, now, at, status, applied, starts, born>>
storage   == <<objects, sets, lost, last>>
collector == <<pc, host, todo, named, upload, lastSet, current>>
vars == <<nodes, storage, collector, used>>

Gtids   == 1 .. MaxCommits
Files   == 1 .. MaxCommits + 1
NoFile  == 0
Nobody  == [set |-> {}, born |-> 0]
NoHost  == -1
Putting == {"putObject", "putSet", "putLast"}
Objects == [set: SUBSET Gtids, born: Nat]

Up(h)     == status[h] # "down"
Synced(h) == status[h] = "synced"

Least(S)    == CHOOSE x \in S : \A y \in S : x <= y
Greatest(S) == CHOOSE x \in S : \A y \in S : y <= x

\* get_gtid_set_by_binlog: what a node's binlog holds.
GtidSet(h, f) == {g \in f .. applied[h] : \A next \in starts[h] : next > f => g < next}

Active(h)    == Greatest(starts[h])
Untouched(h) == Active(h) = applied[h] + 1

TypeOK ==
    /\ committed \in 0 .. MaxCommits /\ now \in Nat /\ at \in [Gtids -> Nat]
    /\ status \in [Hosts -> {"synced", "desynced", "down"}]
    /\ applied \in [Hosts -> 0 .. MaxCommits]
    /\ starts \in [Hosts -> SUBSET Files] /\ born \in [Hosts -> [Files -> Nat]]
    /\ objects \subseteq Objects /\ sets \subseteq objects
    /\ lost \subseteq objects \X Gtids
    /\ last \subseteq Gtids /\ lastSet \subseteq Gtids
    /\ pc \in {"idle", "flush", "find", "next"} \cup Putting
    /\ host \in Hosts \cup {NoHost} /\ (pc # "idle" => host \in Hosts)
    /\ todo \subseteq Files /\ named \in Files \cup {NoFile} /\ upload \in BOOLEAN
    /\ current \in Objects /\ (pc \in Putting => todo # {} /\ Least(todo) \in current.set)
    /\ used \in [Mishaps -> Nat] /\ \A k \in Mishaps : used[k] <= Allowed[k]

\* A cluster that starts to write, with a collector that has uploaded nothing.
Init ==
    /\ committed = 0 /\ now = Greatest(Hosts) /\ at = [g \in Gtids |-> 0]
    /\ status = [h \in Hosts |-> "synced"] /\ applied = [h \in Hosts |-> 0]
    /\ starts = [h \in Hosts |-> {1}] /\ born = [h \in Hosts |-> [f \in Files |-> IF f = 1 THEN h ELSE 0]]
    /\ objects = {} /\ sets = {} /\ lost = {} /\ last = {}
    /\ pc = "idle" /\ host = NoHost /\ todo = {} /\ named = NoFile /\ upload = FALSE
    /\ lastSet = {} /\ current = Nobody
    /\ used = [k \in Mishaps |-> 0]

Happens(k) == used[k] < Allowed[k] /\ used' = [used EXCEPT ![k] = @ + 1]

-----------------------------------------------------------------------------
(* A round of the collector.                                                *)

\* Run is over; what it held is gone, but for the last set.
EndRound ==
    /\ pc' = "idle" /\ host' = NoHost /\ todo' = {} /\ named' = NoFile
    /\ upload' = FALSE /\ current' = Nobody

\* A question to the node: answered, or the round ends with an error.
Ask(step, Answer) ==
    /\ pc = step
    /\ \/ Up(host) /\ Answer /\ UNCHANGED used
       \/ /\ (~Up(host) /\ UNCHANGED used) \/ Happens("refused")
          /\ EndRound /\ UNCHANGED <<nodes, lastSet>>
    /\ UNCHANGED storage

\* GetPXCLastHost: the first node that is synced.  SHOW BINARY LOGS.
Begin ==
    /\ pc = "idle" /\ \E h \in Hosts : Synced(h)
    /\ host' = Least({h \in Hosts : Synced(h)}) /\ todo' = starts[host']
    /\ pc' = "flush"
    /\ UNCHANGED <<nodes, storage, named, upload, lastSet, current, used>>

\* No two commits or new binlogs share a second.
Passes == now' = now + 1

\* The node's active binlog is closed and another one takes over.
StartFile(h) ==
    /\ Passes /\ starts' = [starts EXCEPT ![h] = @ \cup {applied[h] + 1}]
    /\ born' = [born EXCEPT ![h][applied[h] + 1] = now']

\* FLUSH BINARY LOGS.  A binlog without transactions is never uploaded nor
\* named, so the one that replaces it is not told apart from it but by its age.
Flush ==
    Ask("flush",
        /\ IF Untouched(host) /\ \A h \in Hosts, f \in Files : born[h][f] <= born[host][Active(host)]
           THEN UNCHANGED <<now, starts, born>>
           ELSE StartFile(host)
        /\ todo' = todo \ {applied[host] + 1} /\ pc' = "find"
        /\ UNCHANGED <<committed, at, status, applied, host, named, upload, lastSet, current>>)

\* GetBinLogName: some binlog of this node that holds of the last set; none is
\* an error.  Without a last set every binlog is uploaded.
Find ==
    \/ Ask("find",
           /\ IF lastSet = {} THEN named' = NoFile /\ upload' = TRUE
              ELSE /\ named' \in {f \in starts[host] : GtidSet(host, f) \cap lastSet # {}}
                   /\ upload' = FALSE
           /\ pc' = "next" /\ UNCHANGED <<nodes, host, todo, lastSet, current>>)
    \/ Ask("find",
           /\ lastSet # {} /\ \A f \in starts[host] : GtidSet(host, f) \cap lastSet = {}
           /\ EndRound /\ UNCHANGED <<nodes, lastSet>>)

\* Slips: the named binlog is taken for uploaded whatever it holds; those after
\* it are not uploaded if it is.
Due_SkipsNamed(f, set) == IF f = named THEN [now |-> FALSE, after |-> TRUE]
                           ELSE [now |-> upload, after |-> upload]
Due_Waits(f, set) == LET due == upload \/ (f = named /\ set # lastSet)
                      IN [now |-> due, after |-> due]

\* The loop of CollectBinLogs: upload this binlog, and those after it?  The named
\* one is uploaded unless it is just what was uploaded last.
Due(f, set) ==
    LET due == upload \/ (f = named /\ set # lastSet)
    IN [now |-> due, after |-> due \/ f = named]

NextBinlog ==
    Ask("next",
        IF todo = {} THEN EndRound /\ UNCHANGED <<nodes, lastSet>>
        ELSE LET f   == Least(todo)
                 set == GtidSet(host, f)
             IN /\ upload' = Due(f, set).after
                /\ IF Due(f, set).now
                   THEN /\ pc' = "putObject" /\ UNCHANGED todo
                        /\ current' = [set |-> set, born |-> born[host][f]]
                   ELSE pc' = "next" /\ todo' = todo \ {f} /\ UNCHANGED current
                /\ UNCHANGED <<nodes, host, named, lastSet>>)

\* A write to the storage that is refused, or is done and not confirmed.
Unconfirmed(Write) == Happens("refused") /\ (Write \/ UNCHANGED storage) /\ EndRound

\* What a copy of the binlog may miss: the transactions from some point on.
Tails == {{g \in current.set : g >= t} : t \in current.set}

\* The binlog is copied from the node to the storage through a buffer.  A copy
\* of which the node dies misses its end and ends the round.  So does, with no error,
\* one that overtakes the buffer: the upload ends when it finds it empty.
PutObject ==
    /\ pc = "putObject"
    /\ LET Put(tail) == /\ objects' = objects \cup {current} /\ UNCHANGED <<sets, last>>
                        /\ lost' = {m \in lost : m[1] # current} \cup ({current} \X tail)
       IN \/ Up(host) /\ Put({}) /\ pc' = "putSet" /\ UNCHANGED <<host, todo, named, upload, current, used>>
          \/ Up(host) /\ Happens("cut") /\ (\E tail \in Tails : Put(tail)) /\ pc' = "putSet"
             /\ UNCHANGED <<host, todo, named, upload, current>>
          \/ Up(host) /\ Unconfirmed(Put({}))
          \/ ~Up(host) /\ ((\E tail \in Tails : Put(tail)) \/ UNCHANGED storage) /\ EndRound /\ UNCHANGED used
    /\ UNCHANGED <<nodes, lastSet>>

\* Slip: the sets of all binlogs are written to the same object.
WriteSet_OneObject == sets' = {current} /\ UNCHANGED <<objects, lost, last>>

WriteSet == sets' = sets \cup {current} /\ UNCHANGED <<objects, lost, last>>

\* Slip: an error of this write is only logged.
PutSet_Logged ==
    /\ pc = "putSet" /\ pc' = "putLast"
    /\ \/ WriteSet /\ UNCHANGED used
       \/ Happens("refused") /\ UNCHANGED storage
    /\ UNCHANGED <<nodes, host, todo, named, upload, current, lastSet>>

PutSet ==
    /\ pc = "putSet"
    /\ \/ WriteSet /\ pc' = "putLast" /\ UNCHANGED <<host, todo, named, upload, current, used>>
       \/ Unconfirmed(WriteSet)
    /\ UNCHANGED <<nodes, lastSet>>

PutLast ==
    LET WriteLast == last' = current.set /\ UNCHANGED <<objects, sets, lost>>
    IN /\ pc = "putLast"
       /\ \/ /\ WriteLast /\ lastSet' = current.set
             /\ pc' = "next" /\ todo' = todo \ {Least(todo)} /\ current' = Nobody
             /\ UNCHANGED <<host, named, upload, used>>
          \/ Unconfirmed(WriteLast) /\ UNCHANGED lastSet
       /\ UNCHANGED nodes

Collector == Begin \/ Flush \/ Find \/ NextBinlog \/ PutObject \/ PutSet \/ PutLast

\* The collector dies, at any point; a new one reads the last set first.
Crash ==
    /\ Happens("crash") /\ EndRound /\ lastSet' = last
    /\ UNCHANGED <<nodes, storage>>

-----------------------------------------------------------------------------
(* The nodes.                                                               *)

Elsewhere == UNCHANGED <<storage, collector>>

\* A transaction commits on every node that is up.
Commit ==
    /\ committed < MaxCommits /\ committed' = committed + 1
    /\ \E h \in Hosts : Up(h)
    /\ Passes /\ at' = [at EXCEPT ![committed'] = now']
    /\ applied' = [h \in Hosts |-> IF Up(h) THEN committed' ELSE applied[h]]
    /\ UNCHANGED <<status, starts, born, used>> /\ Elsewhere

\* A binlog has reached its size.
Rotate(h) ==
    /\ Up(h) /\ ~Untouched(h) /\ Happens("rotation") /\ StartFile(h)
    /\ UNCHANGED <<committed, at, status, applied>> /\ Elsewhere

\* A node that another one copies is not synced for a while.
Desync(h) ==
    /\ Synced(h) /\ Happens("desync") /\ status' = [status EXCEPT ![h] = "desynced"]
    /\ UNCHANGED <<committed, now, at, applied, starts, born>> /\ Elsewhere

Resync(h) ==
    /\ status[h] = "desynced" /\ status' = [status EXCEPT ![h] = "synced"]
    /\ UNCHANGED <<committed, now, at, applied, starts, born, used>> /\ Elsewhere

Stop(h) ==
    /\ Up(h) /\ Happens("outage") /\ status' = [status EXCEPT ![h] = "down"]
    /\ \E k \in Hosts \ {h} : Up(k)
    /\ UNCHANGED <<committed, now, at, applied, starts, born>> /\ Elsewhere

\* A node that comes back writes what it missed to a new binlog.
Return(h) ==
    /\ ~Up(h) /\ status' = [status EXCEPT ![h] = "synced"]
    /\ applied' = [applied EXCEPT ![h] = committed] /\ StartFile(h)
    /\ UNCHANGED <<committed, at, used>> /\ Elsewhere

\* A node that lost its volume gets the data of another one, and of the binlogs
\* none or the newest.
Rebuild(h) ==
    /\ ~Up(h) /\ host # h /\ Happens("rebuild") /\ status' = [status EXCEPT ![h] = "synced"]
    /\ Passes /\ applied' = [applied EXCEPT ![h] = committed]
    /\ \/ /\ starts' = [starts EXCEPT ![h] = {committed + 1}]
          /\ born' = [born EXCEPT ![h][committed + 1] = now']
       \/ \E donor \in {k \in Hosts : Up(k)} :
            /\ starts' = [starts EXCEPT ![h] = {Active(donor), committed + 1}]
            /\ born' = [born EXCEPT ![h] = [@ EXCEPT ![Active(donor)] = born[donor][Active(donor)],
                                                     ![committed + 1] = now']]
    /\ UNCHANGED <<committed, at>> /\ Elsewhere

Nodes == \/ Commit
         \/ \E h \in Hosts : \/ Rotate(h) \/ Desync(h) \/ Resync(h)
                             \/ Stop(h) \/ Return(h) \/ Rebuild(h)

Next == Collector \/ Crash \/ Nodes

Spec == Init /\ [][Next]_vars

\* The collector runs again and again, and nodes come back.
Fairness ==
    /\ WF_vars(Collector)
    /\ \A h \in Hosts : WF_vars(Resync(h)) /\ WF_vars(Return(h) \/ Rebuild(h))

FairSpec == Spec /\ Fairness

-----------------------------------------------------------------------------
(* What the collector promises.                                             *)

\* The transactions of the GTID sets that are written: what the archive is said to hold.
Archived == UNION {o.set : o \in sets}

\* The uploaded binlogs that miss their end; what there is of a binlog; what the
\* archive really holds.
Cut      == {o \in objects : \E g \in o.set : <<o, g>> \in lost}
Holds(o) == {g \in o.set : <<o, g>> \notin lost}
Held     == UNION {Holds(o) : o \in sets}

\* The archive has no gap, whatever node each binlog came from and wherever the
\* collector was interrupted: uploading resumes with the binlog that holds the
\* last set, or with it included if this node cut it elsewhere
\* (CollectBinLogs, collector.go:123-166).
NoGap ==
    \A a, b \in Archived : a .. b \subseteq Archived

Log == INSTANCE ArchiveLog WITH log <- Archived, MayBeginLate <- Allowed["rebuild"] > 0

\* The collector keeps what ArchiveLog promises, whatever node each binlog comes
\* from and though an upload may be done again: each GTID set that is written (manageBinlog,
\* collector.go:315) belongs to a stretch of the history that adjoins the archive.
ArchiveIsALog == Log!Spec

\* Every transaction gets into the archive and is there, though the collector dies, a
\* write is refused, or the node is not synced for a while (Run is repeated after each
\* failure, main.go:49-56).  It is claimed of one node.  Excepted is a transaction that
\* an upload which overtook its buffer has left out: it may never be uploaded.
CatchesUp ==
    \A g \in Gtids : committed >= g ~> g \in Held \/ \E o \in objects : <<o, g>> \in lost

\* An upload that was interrupted between its writes is completed later, so that
\* no binlog stays without its GTID set, which would keep every recovery from
\* starting (recoverer.go:288-291).  It is claimed of one node: another one's
\* binlogs have other names.
LeftoversHeal ==
    []<>(objects = sets)

\* An uploaded binlog is all there when its GTID set says so.
UploadsAreWhole ==
    Cut \cap sets = {}
=============================================================================
