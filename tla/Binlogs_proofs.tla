----------------------------- MODULE Binlogs_proofs -----------------------------
(****************************************************************************)
(* The archive of the binlog collector has no gap between its GTID sets,    *)
(* for any nodes, any number of transactions and any number of mishaps, if  *)
(* no node loses its binlogs or if nothing keeps the collector from writing *)
(* the last set after its first upload; and what a recovery makes of what   *)
(* the objects hold, as long as no node goes down.                          *)
(****************************************************************************)
EXTENDS BinlogRecoverer, TLAPS, WellFoundedInduction

\* The last node that is up does not go down.
NoOutage  == Allowed["outage"] = 0 \/ \A h, k \in Hosts : h = k
NoRebuild == Allowed["rebuild"] = 0 \/ NoOutage
Confirmed == Allowed["crash"] = 0 /\ Allowed["refused"] = 0

Interval(S) == \A a, b \in S : a .. b \subseteq S

First(f, S)  == f \in S /\ \A g \in S : f <= g
Closed(h, f) == f \in starts[h] /\ \E next \in starts[h] : next > f

\* The part of the type invariant this needs; binlogs start where one can.
Typed ==
    /\ committed \in 0 .. MaxCommits
    /\ applied \in [Hosts -> Nat] /\ \A h \in Hosts : applied[h] <= committed
    /\ starts \in [Hosts -> SUBSET Nat]
    /\ \A h \in Hosts : starts[h] # {} /\ \A f \in starts[h] : 1 <= f /\ f <= applied[h] + 1
    /\ \A o \in sets : o.set \subseteq Nat
    /\ current.set \subseteq Nat
    /\ pc \in {"idle", "flush", "find", "next"} \cup Putting
    /\ pc # "idle" => host \in Hosts
    /\ used \in [Mishaps -> Nat]

\* The collector's list, once it has flushed, is a run of closed binlogs.
Listed(h) ==
    /\ todo \subseteq starts[h]
    /\ pc # "flush" => \A f \in todo : Closed(h, f)
    /\ \A f \in todo, g \in starts[h] : g < f /\ g \notin todo => \A t \in todo : g < t
    /\ pc \in {"flush", "find"} => \A f \in todo, g \in starts[h] : g < f => g \in todo

\* A binlog that starts there leaves no gap.
Adjoins(f) ==
    \/ Archived = {} /\ (NoRebuild => f = 1)
    \/ f \in Archived
    \/ f - 1 \in Archived

\* What is uploaded next leaves none.
Resumes(h) ==
    /\ pc = "next" /\ upload => \A f \in todo : First(f, todo) => Adjoins(f)
    /\ pc = "next" /\ ~upload /\ named \in todo => GtidSet(h, named) \cap lastSet # {}
    /\ pc \in Putting =>
         /\ upload
         /\ \E f \in todo :
              /\ First(f, todo) /\ current.set = GtidSet(h, f)
              /\ pc # "putLast" => Adjoins(f) \/ GtidSet(h, f) \cap Archived # {}
              /\ pc = "putLast" => GtidSet(h, f) \subseteq Archived

Rounds == \A h \in Hosts : pc # "idle" /\ host = h => Listed(h) /\ Resumes(h)

Known == last \cup lastSet \subseteq Archived

\* Without a last set there is no archive, or it starts where every node does.
Floor ==
    /\ NoRebuild => (\A h \in Hosts : 1 \in starts[h]) /\ (Archived # {} => 1 \in Archived)
    /\ ~NoRebuild => (Archived # {} => lastSet # {} \/ pc = "putLast")

Upright == NoOutage => status \in [Hosts -> {"synced", "desynced"}]

IInv == Typed /\ Rounds /\ Known /\ Floor /\ NoGap
-----------------------------------------------------------------------------
(* Numbers and intervals.                                                   *)

LEMMA LeastOf ==
    ASSUME NEW S \in SUBSET Nat, S # {}
    PROVE  First(Least(S), S)
<1>1. PICK x \in S : \A y \in S : ~(<<y, x>> \in OpToRel(<, Nat))
  BY NatLessThanWellFounded, WFMin
<1>2. ASSUME NEW y \in S PROVE x <= y
  <2>1. ~(y < x) BY <1>1 DEF OpToRel
  <2>2. QED BY <2>1
<1>3. QED BY <1>2 DEF Least, First

LEMMA GreatestOf ==
    ASSUME NEW S \in SUBSET Nat, S # {}, NEW m \in Nat, \A x \in S : x <= m
    PROVE  Greatest(S) \in S /\ \A x \in S : x <= Greatest(S)
<1> DEFINE D == {m - x : x \in S}
<1>1. D \in SUBSET Nat /\ D # {}
  <2>1. ASSUME NEW x \in S PROVE m - x \in Nat BY <2>1
  <2>2. D \subseteq Nat BY <2>1
  <2>3. QED BY <2>2
<1>2. Least(D) \in D /\ \A d \in D : Least(D) <= d BY <1>1, LeastOf DEF First
<1>3. PICK x \in S : Least(D) = m - x BY <1>2
<1>4. ASSUME NEW y \in S PROVE y <= x
  <2>1. m - y \in D OBVIOUS
  <2>2. m - x <= m - y BY <1>2, <1>3, <2>1
  <2>3. QED BY <2>2
<1>5. QED BY <1>4 DEF Greatest

LEMMA Joined ==
    ASSUME NEW A \in SUBSET Nat, NEW S \in SUBSET Nat, Interval(A), Interval(S),
           NEW f \in S, \A x \in S : f <= x,
           A = {} \/ f \in A \/ f - 1 \in A \/ S \cap A # {}
    PROVE  Interval(A \cup S)
<1> SUFFICES ASSUME NEW a \in A \cup S, NEW b \in A \cup S, NEW x \in a .. b
             PROVE  x \in A \cup S
  BY DEF Interval
<1>1. CASE a \in A /\ b \in A BY <1>1 DEF Interval
<1>2. CASE a \in S /\ b \in S BY <1>2 DEF Interval
<1>3. CASE f \in A \/ f - 1 \in A
  <2>1. CASE a \in A /\ b \in S
    <3>1. CASE x >= f BY <2>1, <3>1 DEF Interval
    <3>2. CASE x < f BY <1>3, <2>1, <3>2 DEF Interval
    <3>3. QED BY <3>1, <3>2
  <2>2. CASE a \in S /\ b \in A
    BY <1>3, <2>2 DEF Interval
  <2>3. QED BY <1>1, <1>2, <2>1, <2>2
<1>4. ASSUME NEW y \in S \cap A PROVE x \in A \cup S
  <2>1. CASE x <= y BY <1>4, <2>1 DEF Interval
  <2>2. CASE x >= y BY <1>4, <2>2 DEF Interval
  <2>3. QED BY <2>1, <2>2
<1>5. QED BY <1>1, <1>2, <1>3, <1>4

\* A binlog holds an interval, a closed one begins with its start.
LEMMA InOneFile ==
    ASSUME Typed, NEW h \in Hosts, NEW f \in Nat
    PROVE  /\ GtidSet(h, f) \subseteq Nat /\ Interval(GtidSet(h, f))
           /\ \A g \in GtidSet(h, f) : f <= g
           /\ Closed(h, f) => f \in GtidSet(h, f)
<1>1. applied[h] \in Nat /\ starts[h] \subseteq Nat BY DEF Typed
<1>2. Closed(h, f) => f \in GtidSet(h, f)
  <2>1. Closed(h, f) => f <= applied[h] BY <1>1 DEF Closed, Typed
  <2>2. QED BY <1>1, <2>1 DEF GtidSet
<1>3. QED BY <1>1, <1>2 DEF GtidSet, Interval
-----------------------------------------------------------------------------
(* The nodes.                                                               *)

Grows(h) ==
    /\ applied[h] <= applied'[h]
    /\ starts'[h] = starts[h] \/ starts'[h] = starts[h] \cup {applied[h] + 1}

\* What is closed stays closed, and holds what it held.
LEMMA ClosedKept ==
    ASSUME Typed, Typed', NEW h \in Hosts, Grows(h), NEW f \in Nat, Closed(h, f)
    PROVE  Closed(h, f)' /\ GtidSet(h, f)' = GtidSet(h, f)
<1>1. /\ applied[h] \in Nat /\ applied'[h] \in Nat
      /\ starts[h] \subseteq Nat /\ starts'[h] \subseteq Nat
  BY DEF Typed
<1>2. PICK n \in starts[h] : n > f BY DEF Closed
<1>3. n <= applied[h] + 1 /\ n \in starts'[h] BY <1>2 DEF Typed, Grows
<1>4. ASSUME NEW g \in Nat PROVE g \in GtidSet(h, f)' <=> g \in GtidSet(h, f)
  BY <1>1, <1>2, <1>3 DEF GtidSet, Grows
<1>5. GtidSet(h, f) \subseteq Nat /\ GtidSet(h, f)' \subseteq Nat BY <1>1 DEF GtidSet
<1>6. GtidSet(h, f)' = GtidSet(h, f) BY <1>4, <1>5
<1>7. Closed(h, f)' BY <1>2, <1>3 DEF Closed, Grows
<1>8. QED BY <1>6, <1>7

LEMMA ListKept ==
    ASSUME Typed, Typed', NEW h \in Hosts, Grows(h), Listed(h), todo' = todo, pc' = pc
    PROVE  Listed(h)'
<1>1. todo \subseteq Nat /\ \A f \in todo : f \in starts[h] /\ f <= applied[h] + 1
  BY DEF Typed, Listed
<1>2. applied[h] \in Nat BY DEF Typed
<1>3. pc # "flush" => \A f \in todo : Closed(h, f)'
  BY <1>1, ClosedKept DEF Listed
<1>4. \A g \in starts'[h] : g \in starts[h] \/ g = applied[h] + 1 BY DEF Grows
<1>5. \A f \in todo, g \in starts'[h] : g < f => g \in starts[h] BY <1>1, <1>2, <1>4
<1>6. todo \subseteq starts'[h] BY <1>1 DEF Grows
<1>7. QED BY <1>3, <1>5, <1>6 DEF Listed

\* A node that a binlog is started on, and what it leaves.
LEMMA Started ==
    ASSUME Typed, NEW h \in Hosts, StartFile(h)
    PROVE  /\ starts'[h] = starts[h] \cup {applied[h] + 1}
           /\ \A k \in Hosts \ {h} : starts'[k] = starts[k]
           /\ starts' \in [Hosts -> SUBSET Nat]
<1>1. applied[h] + 1 \in Nat BY DEF Typed
<1>2. starts' = [starts EXCEPT ![h] = @ \cup {applied[h] + 1}] BY DEF StartFile
<1>3. QED BY <1>1, <1>2 DEF Typed

\* What the nodes do to the collector's list: they add to it, or start another
\* node's binlogs anew.
Spared ==
    /\ UNCHANGED <<storage, collector>>
    /\ Typed'
    /\ pc # "idle" => Grows(host)
    /\ NoRebuild => \A h \in Hosts : starts[h] \subseteq starts'[h]

LEMMA NodesStep ==
    ASSUME Typed, Upright, Nodes
    PROVE  Spared
<1> USE DEF Elsewhere, Spared
<1>0. /\ \A h \in Hosts : applied[h] \in Nat /\ starts[h] \subseteq Nat
      /\ committed \in Nat /\ MaxCommits \in Nat
  BY MaxCommitsAssumption DEF Typed, MaxCommitsAssumption
<1>a. \A k \in Mishaps : Happens(k) => used' \in [Mishaps -> Nat] BY DEF Happens, Typed
<1>1. CASE Commit
  <2>1. /\ committed' = committed + 1 /\ committed < MaxCommits
        /\ applied' = [h \in Hosts |-> IF Up(h) THEN committed' ELSE applied[h]]
        /\ UNCHANGED <<starts, used, storage, collector>>
    BY <1>1 DEF Commit
  <2>2. \A h \in Hosts : applied[h] <= applied'[h] /\ applied'[h] \in Nat /\ applied'[h] <= committed'
    BY <1>0, <2>1 DEF Typed
  <2>3. applied' \in [Hosts -> Nat] BY <2>1, <2>2
  <2>4. \A h \in Hosts : \A f \in starts'[h] : 1 <= f /\ f <= applied'[h] + 1
    BY <1>0, <2>1, <2>2 DEF Typed
  <2>5. Typed' BY <1>0, <2>1, <2>2, <2>3, <2>4 DEF Typed, storage, collector
  <2>6. QED BY <2>1, <2>2, <2>5 DEF Typed, Grows
<1>2. ASSUME NEW h \in Hosts, Rotate(h) PROVE Spared
  <2>1. /\ UNCHANGED <<committed, applied, storage, collector>>
        /\ starts'[h] = starts[h] \cup {applied[h] + 1}
        /\ \A k \in Hosts \ {h} : starts'[k] = starts[k]
        /\ starts' \in [Hosts -> SUBSET Nat] /\ used' \in [Mishaps -> Nat]
    BY <1>2, <1>a, Started DEF Rotate, Mishaps
  <2>2. \A k \in Hosts : Grows(k) BY <1>0, <2>1 DEF Grows
  <2>3. Typed' BY <1>0, <2>1 DEF Typed, storage, collector
  <2>4. QED BY <2>1, <2>2, <2>3 DEF Typed, Grows
<1>3. ASSUME NEW h \in Hosts, Desync(h) \/ Resync(h) \/ Stop(h) PROVE Spared
  <2>1. UNCHANGED <<committed, applied, starts, storage, collector>> /\ used' \in [Mishaps -> Nat]
    BY <1>3, <1>a DEF Desync, Resync, Stop, Typed, Mishaps
  <2>2. Typed' BY <2>1 DEF Typed, storage, collector
  <2>3. QED BY <1>0, <2>1, <2>2 DEF Typed, Grows
<1>4. ASSUME NEW h \in Hosts, Return(h) PROVE Spared
  <2>1. /\ UNCHANGED <<committed, used, storage, collector>>
        /\ applied' = [applied EXCEPT ![h] = committed]
        /\ starts'[h] = starts[h] \cup {applied[h] + 1}
        /\ \A k \in Hosts \ {h} : starts'[k] = starts[k]
        /\ starts' \in [Hosts -> SUBSET Nat]
    BY <1>4, Started DEF Return
  <2>2. \A k \in Hosts : applied[k] <= applied'[k] /\ applied'[k] <= committed
    BY <1>0, <2>1 DEF Typed
  <2>3. \A k \in Hosts : Grows(k) BY <2>1, <2>2 DEF Grows
  <2>4. applied' \in [Hosts -> Nat] BY <1>0, <2>1 DEF Typed
  <2>5. \A k \in Hosts : \A f \in starts'[k] : 1 <= f /\ f <= applied'[k] + 1
    <3>1. SUFFICES ASSUME NEW k \in Hosts, NEW f \in starts'[k]
                   PROVE  1 <= f /\ f <= applied'[k] + 1
      OBVIOUS
    <3>2. applied[k] <= applied'[k] /\ applied'[k] \in Nat /\ applied[k] \in Nat BY <1>0, <2>2, <2>4
    <3>3. CASE f \in starts[k] BY <1>0, <3>2, <3>3 DEF Typed
    <3>4. CASE f \notin starts[k] BY <2>1, <3>1, <3>2, <3>4
    <3>5. QED BY <3>3, <3>4
  <2>6. Typed' BY <2>1, <2>2, <2>4, <2>5 DEF Typed, storage, collector
  <2>7. QED BY <2>1, <2>3, <2>6 DEF Typed, Grows
<1>5. ASSUME NEW h \in Hosts, Rebuild(h) PROVE Spared
  <2>1. /\ UNCHANGED <<committed, storage, collector>> /\ host # h
        /\ applied' = [applied EXCEPT ![h] = committed]
        /\ used' \in [Mishaps -> Nat]
    BY <1>5, <1>a DEF Rebuild, Mishaps
  <2>2. ~NoRebuild
    <3>1. used["rebuild"] \in Nat /\ used["rebuild"] < Allowed["rebuild"]
      BY <1>5 DEF Rebuild, Happens, Typed, Mishaps
    <3>2. Allowed["rebuild"] # 0 BY <3>1
    <3>3. ~NoOutage BY <1>5 DEF Rebuild, Upright, Up
    <3>4. QED BY <3>2, <3>3 DEF NoRebuild
  <2> DEFINE Anew(S) == /\ starts' = [starts EXCEPT ![h] = S]
                        /\ S # {} /\ \A f \in S : 1 <= f /\ f <= committed + 1
  <2>3. PICK S \in SUBSET Nat : Anew(S)
    <3>1. ASSUME starts' = [starts EXCEPT ![h] = {committed + 1}]
          PROVE  Anew({committed + 1}) /\ {committed + 1} \subseteq Nat
      BY <1>0, <3>1
    <3>2. ASSUME NEW donor \in Hosts,
                 starts' = [starts EXCEPT ![h] = {Active(donor), committed + 1}]
          PROVE  Anew({Active(donor), committed + 1}) /\ {Active(donor), committed + 1} \subseteq Nat
      <4>1. \A f \in starts[donor] : f \in Nat /\ 1 <= f /\ f <= committed + 1
        BY <1>0 DEF Typed
      <4>2. Active(donor) \in starts[donor]
        <5>1. committed + 1 \in Nat /\ starts[donor] \in SUBSET Nat /\ starts[donor] # {}
          BY <1>0 DEF Typed
        <5>2. \A f \in starts[donor] : f <= committed + 1 BY <4>1
        <5>3. QED BY <5>1, <5>2, GreatestOf DEF Active
      <4>3. QED BY <1>0, <3>2, <4>1, <4>2
    <3>3. \/ starts' = [starts EXCEPT ![h] = {committed + 1}]
          \/ \E donor \in Hosts : starts' = [starts EXCEPT ![h] = {Active(donor), committed + 1}]
      BY <1>5 DEF Rebuild
    <3>4. (\E S \in SUBSET Nat : Anew(S)) BY <3>1, <3>2, <3>3, Zenon
    <3>5. QED BY <3>4
  <2>4. applied' \in [Hosts -> Nat] /\ \A k \in Hosts : applied'[k] <= committed
    BY <1>0, <2>1 DEF Typed
  <2>5. \A k \in Hosts \ {h} : starts'[k] = starts[k] /\ applied'[k] = applied[k]
    BY <2>1, <2>3 DEF Typed
  <2>6. starts'[h] = S /\ applied'[h] = committed BY <2>1, <2>3 DEF Typed
  <2>7. starts' \in [Hosts -> SUBSET Nat] BY <2>3 DEF Typed
  <2>8. Typed' BY <2>1, <2>3, <2>4, <2>5, <2>6, <2>7 DEF Typed, storage, collector
  <2>9. pc # "idle" => Grows(host) BY <1>0, <2>1, <2>5 DEF Typed, Grows
  <2>10. QED BY <2>1, <2>2, <2>8, <2>9
<1>6. QED BY <1>1, <1>2, <1>3, <1>4, <1>5 DEF Nodes
-----------------------------------------------------------------------------
(* The collector.                                                           *)

LEMMA Used ==
    ASSUME Typed, NEW k \in Mishaps, Happens(k)
    PROVE  used' \in [Mishaps -> Nat] /\ Allowed[k] # 0
BY AllowedAssumption DEF Typed, Happens, AllowedAssumption

\* A round that ends between two binlogs, or before the first.
LEMMA Ended ==
    ASSUME IInv, UNCHANGED <<nodes, last, sets, lastSet>>, EndRound, pc # "putLast",
           UNCHANGED used \/ Happens("refused")
    PROVE  IInv'
<1> USE DEF nodes
<1>0. used' \in [Mishaps -> Nat] BY Used DEF IInv, Typed, Mishaps
<1>1. Archived' = Archived BY DEF Archived
<1>2. pc' = "idle" /\ current'.set = {} BY DEF EndRound, Nobody
<1>3. Typed' BY <1>0, <1>2 DEF IInv, Typed
<1>4. Rounds' BY <1>2 DEF Rounds
<1>5. Floor' BY <1>1, <1>2 DEF IInv, Floor
<1>6. Known' /\ NoGap' BY <1>1 DEF IInv, Known, NoGap
<1>7. QED BY <1>3, <1>4, <1>5, <1>6 DEF IInv

LEMMA BeginStep ==
    ASSUME IInv, Begin
    PROVE  IInv'
<1> USE DEF nodes, storage
<1>1. host' \in Hosts
  <2>1. {h \in Hosts : Synced(h)} \in SUBSET Nat /\ {h \in Hosts : Synced(h)} # {}
    BY HostsAssumption DEF Begin, HostsAssumption
  <2>2. QED BY <2>1, LeastOf DEF Begin, First
<1>2. /\ todo' = starts[host'] /\ pc = "idle" /\ pc' = "flush"
      /\ UNCHANGED <<committed, applied, starts, sets, last, lastSet, current, used>>
  BY DEF Begin
<1>3. Archived' = Archived BY <1>2 DEF Archived
<1>4. Typed' BY <1>1, <1>2 DEF IInv, Typed
<1>5. ASSUME NEW h \in Hosts, host' = h PROVE Listed(h)' /\ Resumes(h)'
  <2>1. todo' = starts'[h] BY <1>2, <1>5
  <2>2. QED BY <1>2, <2>1 DEF Listed, Resumes, Putting
<1>6. Rounds' BY <1>5 DEF Rounds
<1>7. Floor' BY <1>2, <1>3 DEF IInv, Floor
<1>8. Known' /\ NoGap' BY <1>2, <1>3 DEF IInv, Known, NoGap
<1>9. QED BY <1>4, <1>6, <1>7, <1>8 DEF IInv

\* After the flush every binlog of the list is closed.
LEMMA FlushStep ==
    ASSUME IInv, Flush
    PROVE  IInv'
<1> USE DEF nodes, storage
<1> DEFINE Flushed ==
      /\ IF Untouched(host) /\ \A h \in Hosts, f \in Files : born[h][f] <= born[host][Active(host)]
         THEN UNCHANGED <<now, starts, born>>
         ELSE StartFile(host)
      /\ todo' = todo \ {applied[host] + 1} /\ pc' = "find"
      /\ UNCHANGED <<committed, at, status, applied, host, named, upload, lastSet, current>>
<1>0. /\ pc = "flush" /\ UNCHANGED storage
      /\ \/ Up(host) /\ Flushed /\ UNCHANGED used
         \/ /\ UNCHANGED used \/ Happens("refused")
            /\ EndRound /\ UNCHANGED <<nodes, lastSet>>
  BY DEF Flush, Ask
<1>1. CASE EndRound /\ UNCHANGED <<nodes, lastSet>> BY <1>0, <1>1, Ended
<1>2. CASE Flushed /\ UNCHANGED <<storage, used>>
  <2>1. /\ host \in Hosts /\ applied[host] \in Nat /\ starts[host] \in SUBSET Nat
        /\ starts[host] # {} /\ \A f \in starts[host] : f <= applied[host] + 1
        /\ applied[host] + 1 \in Nat
    BY <1>0 DEF IInv, Typed
  <2>2. /\ starts' \in [Hosts -> SUBSET Nat]
        /\ starts'[host] = starts[host] \cup {applied[host] + 1}
        /\ \A k \in Hosts \ {host} : starts'[k] = starts[k]
    <3>1. CASE StartFile(host) BY <2>1, <3>1, Started DEF IInv
    <3>2. CASE Untouched(host) /\ UNCHANGED starts
      <4>1. Active(host) \in starts[host] BY <2>1, GreatestOf DEF Active
      <4>2. applied[host] + 1 \in starts[host] BY <3>2, <4>1 DEF Untouched
      <4>3. QED BY <3>2, <4>2 DEF IInv, Typed
    <3>3. QED BY <1>2, <3>1, <3>2
  <2>3. /\ pc = "flush" /\ pc' = "find" /\ todo' = todo \ {applied[host] + 1}
        /\ UNCHANGED <<committed, applied, host, sets, last, lastSet, current, used>>
    BY <1>0, <1>2
  <2>4. Archived' = Archived BY <2>3 DEF Archived
  <2>5. Typed'
    <3>1. \A k \in Hosts : starts'[k] # {} /\ \A f \in starts'[k] : 1 <= f /\ f <= applied[k] + 1
      BY <2>1, <2>2 DEF IInv, Typed
    <3>2. QED BY <2>2, <2>3, <3>1 DEF IInv, Typed
  <2>6. ASSUME NEW h \in Hosts, host' = h PROVE Listed(h)' /\ Resumes(h)'
    <3>1. /\ host = h /\ todo \subseteq starts[h]
          /\ \A f \in todo, g \in starts[h] : g < f => g \in todo
      BY <2>3, <2>6 DEF IInv, Rounds, Listed
    <3>2. \A f \in todo' : f \in starts[h] /\ f < applied[h] + 1 /\ f \in Nat
      BY <2>1, <2>3, <3>1
    <3>3. \A f \in todo' : Closed(h, f)' BY <2>1, <2>2, <3>1, <3>2 DEF Closed
    <3>4. \A f \in todo', g \in starts'[h] : g < f => g \in todo'
      BY <2>1, <2>2, <2>3, <3>1, <3>2
    <3>5. todo' \subseteq starts'[h] BY <2>2, <3>1, <3>2
    <3>6. QED BY <2>3, <3>3, <3>4, <3>5 DEF Listed, Resumes, Putting
  <2>7. Rounds' BY <2>6 DEF Rounds
  <2>8. Floor'
    <3>1. \A h \in Hosts : starts[h] \subseteq starts'[h] BY <2>2
    <3>2. QED BY <2>3, <2>4, <3>1 DEF IInv, Floor
  <2>9. Known' /\ NoGap' BY <2>3, <2>4 DEF IInv, Known, NoGap
  <2>10. QED BY <2>5, <2>7, <2>8, <2>9 DEF IInv
<1>3. QED BY <1>0, <1>1, <1>2

\* Uploading starts with the binlog that holds the last set, or with the oldest.
LEMMA FindStep ==
    ASSUME IInv, NoRebuild \/ Confirmed, Find
    PROVE  IInv'
<1> USE DEF nodes, storage
<1>0. pc = "find" /\ UNCHANGED storage BY DEF Find, Ask
<1>1. CASE EndRound /\ UNCHANGED <<nodes, lastSet>> /\ (UNCHANGED used \/ Happens("refused"))
  BY <1>0, <1>1, Ended
<1>2. CASE /\ pc' = "next" /\ UNCHANGED <<nodes, host, todo, lastSet, current, used>>
           /\ \/ lastSet = {} /\ upload' = TRUE
              \/ /\ named' \in {f \in starts[host] : GtidSet(host, f) \cap lastSet # {}}
                 /\ upload' = FALSE
  <2>1. Archived' = Archived BY <1>0 DEF Archived
  <2>2. Typed' BY <1>0, <1>2 DEF IInv, Typed
  <2>3. ASSUME NEW h \in Hosts, host' = h PROVE Listed(h)' /\ Resumes(h)'
    <3>1. host = h /\ Listed(h) BY <1>0, <1>2, <2>3 DEF IInv, Rounds
    <3>2. Listed(h)'
      <4>1. \A f \in todo : Closed(h, f)' BY <1>0, <1>2, <3>1 DEF Listed, Closed
      <4>2. QED BY <1>0, <1>2, <3>1, <4>1 DEF Listed
    <3>3. CASE lastSet = {} /\ upload' = TRUE
      <4>1. ASSUME NEW f \in todo, First(f, todo), NoRebuild PROVE f = 1
        <5>1. 1 \in starts[h] /\ f \in starts[h] /\ f \in Nat /\ 1 <= f
          BY <3>1, <4>1 DEF IInv, Floor, Listed, Typed
        <5>2. 1 < f => 1 \in todo BY <1>0, <3>1, <5>1 DEF Listed
        <5>3. QED BY <4>1, <5>1, <5>2 DEF First
      <4>2. \A f \in todo : First(f, todo) => Adjoins(f)
        BY <1>0, <3>3, <4>1 DEF Adjoins, IInv, Floor
      <4>3. \A f \in todo' : First(f, todo') => Adjoins(f)' BY <1>2, <2>1, <4>2 DEF Adjoins
      <4>4. QED BY <1>2, <3>2, <3>3, <4>3 DEF Resumes, Putting
    <3>4. CASE /\ named' \in {f \in starts[host] : GtidSet(host, f) \cap lastSet # {}}
               /\ upload' = FALSE
      <4>1. GtidSet(h, named') \cap lastSet # {} BY <3>1, <3>4
      <4>2. \A f : GtidSet(h, f)' = GtidSet(h, f) BY <1>2 DEF GtidSet
      <4>3. (GtidSet(h, named) \cap lastSet)' # {} BY <1>2, <4>1 DEF GtidSet
      <4>4. QED BY <1>2, <3>2, <3>4, <4>3 DEF Resumes, Putting
    <3>5. QED BY <1>2, <3>3, <3>4
  <2>4. Rounds' BY <2>3 DEF Rounds
  <2>5. Floor' BY <1>0, <1>2, <2>1 DEF IInv, Floor
  <2>6. Known' /\ NoGap' BY <1>0, <1>2, <2>1 DEF IInv, Known, NoGap
  <2>7. QED BY <2>2, <2>4, <2>5, <2>6 DEF IInv
<1>3. QED BY <1>1, <1>2 DEF Find, Ask

\* The next binlog of the list starts where this one ends.
LEMMA NextStart ==
    ASSUME Typed, NEW h \in Hosts, Listed(h), NEW f \in todo, First(f, todo),
           NEW n \in todo \ {f}, First(n, todo \ {f})
    PROVE  n - 1 \in GtidSet(h, f)
<1>1. /\ starts[h] \subseteq Nat /\ f \in starts[h] /\ n \in starts[h]
      /\ applied[h] \in Nat /\ n <= applied[h] + 1
  BY DEF Typed, Listed
<1>2. f < n BY <1>1 DEF First
<1>3. ASSUME NEW next \in starts[h], next > f, next < n PROVE FALSE
  <2>1. next \in todo BY <1>1, <1>2, <1>3 DEF Listed
  <2>2. n <= next BY <1>1, <1>3, <2>1 DEF First
  <2>3. QED BY <1>1, <1>3, <2>2
<1>4. \A next \in starts[h] : next > f => n - 1 < next BY <1>1, <1>3
<1>5. n - 1 \in f .. applied[h] BY <1>1, <1>2
<1>6. QED BY <1>4, <1>5 DEF GtidSet

LEMMA ListShrinks ==
    ASSUME Typed, NEW h \in Hosts, Listed(h), NEW f \in todo, First(f, todo),
           todo' = todo \ {f}, starts' = starts, pc \in {"next", "putLast"}, pc' = "next"
    PROVE  Listed(h)'
<1>1. todo \subseteq Nat BY DEF Listed, Typed
<1>2. \A t \in todo' : f < t BY <1>1 DEF First
<1>3. \A t \in todo' : Closed(h, t)' BY DEF Listed, Closed
<1>4. \A t \in todo', g \in starts[h] : g < t /\ g \notin todo' => \A x \in todo' : g < x
  BY <1>2 DEF Listed
<1>5. QED BY <1>3, <1>4 DEF Listed

LEMMA NextBinlogStep ==
    ASSUME IInv, NextBinlog
    PROVE  IInv'
<1> USE DEF nodes, storage
<1> DEFINE f == Least(todo)
           set == GtidSet(host, f)
           due == upload \/ (f = named /\ set # lastSet)
<1>0. pc = "next" /\ UNCHANGED storage /\ host \in Hosts
  BY DEF NextBinlog, Ask, IInv, Typed
<1>1. CASE EndRound /\ UNCHANGED <<nodes, lastSet>> /\ (UNCHANGED used \/ Happens("refused"))
  BY <1>0, <1>1, Ended
<1>2. CASE /\ todo # {} /\ upload' = (due \/ f = named)
           /\ IF due
              THEN /\ pc' = "putObject" /\ UNCHANGED todo
                   /\ current' = [set |-> set, born |-> born[host][f]]
              ELSE pc' = "next" /\ todo' = todo \ {f} /\ UNCHANGED current
           /\ UNCHANGED <<nodes, host, named, lastSet, used>>
  <2>1. Archived' = Archived BY <1>0 DEF Archived
  <2>2. PICK h \in Hosts : h = host BY <1>0
  <2>3. Listed(h) /\ Resumes(h) BY <1>0, <2>2 DEF IInv, Rounds
  <2>4. f \in todo /\ First(f, todo)
    <3>1. todo \in SUBSET Nat BY <2>3 DEF Listed, IInv, Typed
    <3>2. QED BY <1>2, <3>1, LeastOf DEF First
  <2>5. set = GtidSet(h, f) /\ set \subseteq Nat
    <3>1. f \in Nat BY <2>3, <2>4 DEF Listed, IInv, Typed
    <3>2. QED BY <2>2, <3>1, InOneFile DEF IInv
  <2>6. Typed' BY <1>0, <1>2, <2>5 DEF IInv, Typed, Putting
  <2>7. \A x : GtidSet(h, x)' = GtidSet(h, x) BY <1>2 DEF GtidSet
  <2>8. Listed(h)' /\ Resumes(h)'
    <3>1. CASE due
      <4>1. /\ pc' = "putObject" /\ upload' /\ UNCHANGED <<todo, starts>>
            /\ current'.set = GtidSet(h, f)
        <5>1. upload' BY <1>2, <3>1, Zenon
        <5>2. /\ pc' = "putObject" /\ UNCHANGED <<todo, starts>>
              /\ current' = [set |-> set, born |-> born[host][f]]
          BY <1>2, <3>1, Zenon
        <5>3. current'.set = set BY <5>2
        <5>4. QED BY <2>5, <5>1, <5>2, <5>3
      <4>2. \A x \in todo : Closed(h, x)' = Closed(h, x) BY <4>1 DEF Closed
      <4>3. Listed(h)' BY <1>0, <2>3, <4>1, <4>2 DEF Listed
      <4>4. Adjoins(f) \/ GtidSet(h, f) \cap Archived # {}
        BY <1>0, <2>3, <2>4, <2>5, <3>1 DEF Resumes, IInv, Known
      <4>5. \A x : Adjoins(x)' = Adjoins(x) BY <2>1 DEF Adjoins
      <4>6. \E x \in todo' : /\ First(x, todo') /\ current'.set = GtidSet(h, x)'
                             /\ Adjoins(x)' \/ GtidSet(h, x)' \cap Archived' # {}
        BY <2>1, <2>4, <2>7, <4>1, <4>4, <4>5
      <4>7. Resumes(h)' BY <4>1, <4>6 DEF Resumes, Putting
      <4>8. QED BY <4>3, <4>7
    <3>2. CASE ~due
      <4>1. /\ pc' = "next" /\ todo' = todo \ {f} /\ UNCHANGED starts
            /\ ~upload /\ upload' = (f = named)
        BY <1>2, <3>2
      <4>2. Listed(h)' BY <1>0, <2>3, <2>4, <4>1, ListShrinks DEF IInv
      <4>3. CASE f = named
        <5>1. GtidSet(h, f) \subseteq Archived BY <2>5, <3>2, <4>3 DEF IInv, Known
        <5>2. \A n \in todo' : First(n, todo') => n - 1 \in Archived
          BY <2>3, <2>4, <4>1, <5>1, NextStart DEF IInv
        <5>3. \A n \in todo' : First(n, todo') => Adjoins(n)' BY <2>1, <5>2 DEF Adjoins
        <5>4. QED BY <4>1, <4>2, <4>3, <5>3 DEF Resumes, Putting
      <4>4. CASE f # named
        <5>1. named \in todo' => GtidSet(h, named) \cap lastSet # {}
          BY <1>0, <2>3, <4>1 DEF Resumes
        <5>2. named' \in todo' => (GtidSet(h, named) \cap lastSet)' # {}
          BY <1>2, <5>1 DEF GtidSet
        <5>3. QED BY <4>1, <4>2, <4>4, <5>2 DEF Resumes, Putting
      <4>5. QED BY <4>3, <4>4
    <3>3. QED BY <3>1, <3>2
  <2>9. Rounds' BY <1>2, <2>2, <2>8 DEF Rounds
  <2>10. Floor' BY <1>0, <1>2, <2>1 DEF IInv, Floor
  <2>11. Known' /\ NoGap' BY <1>0, <1>2, <2>1 DEF IInv, Known, NoGap
  <2>12. QED BY <2>6, <2>9, <2>10, <2>11 DEF IInv
<1>3. QED BY <1>1, <1>2 DEF NextBinlog, Ask, Due

LEMMA PutObjectStep ==
    ASSUME IInv, PutObject
    PROVE  IInv'
<1> USE DEF nodes, storage
<1>0. pc = "putObject" /\ UNCHANGED <<nodes, lastSet, last, sets>>
  BY DEF PutObject, Unconfirmed
<1>1. CASE EndRound /\ (UNCHANGED used \/ Happens("refused")) BY <1>0, <1>1, Ended
<1>2. CASE pc' = "putSet" /\ UNCHANGED <<host, todo, named, upload, current>>
           /\ (UNCHANGED used \/ Happens("cut"))
  <2>1. Archived' = Archived BY <1>0 DEF Archived
  <2>2. Typed' BY <1>0, <1>2, Used DEF IInv, Typed, Putting, Mishaps
  <2>3. ASSUME NEW h \in Hosts, host' = h PROVE Listed(h)' /\ Resumes(h)'
    <3>1. host = h /\ Listed(h) /\ Resumes(h) BY <1>0, <1>2, <2>3 DEF IInv, Rounds
    <3>2. Listed(h)'
      <4>1. \A f \in todo : Closed(h, f)' BY <1>0, <3>1 DEF Listed, Closed
      <4>2. QED BY <1>0, <1>2, <3>1, <4>1 DEF Listed
    <3>3. \A f : GtidSet(h, f)' = GtidSet(h, f) BY <1>0 DEF GtidSet
    <3>4. \A f : Adjoins(f)' = Adjoins(f) BY <2>1 DEF Adjoins
    <3>5. Resumes(h)' BY <1>0, <1>2, <2>1, <3>1, <3>3, <3>4 DEF Resumes, Putting
    <3>6. QED BY <3>2, <3>5
  <2>4. Rounds' BY <2>3 DEF Rounds
  <2>5. Floor' BY <1>0, <1>2, <2>1 DEF IInv, Floor
  <2>6. Known' /\ NoGap' BY <1>0, <1>2, <2>1 DEF IInv, Known, NoGap
  <2>7. QED BY <2>2, <2>4, <2>5, <2>6 DEF IInv
<1>3. QED BY <1>1, <1>2 DEF PutObject, Unconfirmed

\* The set makes the binlog part of the archive, and leaves it without a gap.
LEMMA PutSetStep ==
    ASSUME IInv, NoRebuild \/ Confirmed, PutSet
    PROVE  IInv'
<1> USE DEF nodes, storage
<1>0. pc = "putSet" /\ host \in Hosts /\ UNCHANGED <<nodes, lastSet, last>>
  BY DEF PutSet, Unconfirmed, WriteSet, IInv, Typed, Putting
<1>1. CASE EndRound /\ UNCHANGED storage /\ Happens("refused") BY <1>0, <1>1, Ended
<1>2. CASE /\ WriteSet
           /\ \/ pc' = "putLast" /\ UNCHANGED <<host, todo, named, upload, current, used>>
              \/ EndRound /\ Happens("refused")
  <2>1. Archived' = Archived \cup current.set BY <1>2 DEF WriteSet, Archived
  <2>2. PICK h \in Hosts : h = host BY <1>0
  <2>3. Listed(h) /\ Resumes(h) BY <1>0, <2>2 DEF IInv, Rounds
  <2>4. PICK f \in todo : /\ First(f, todo) /\ current.set = GtidSet(h, f)
                          /\ Adjoins(f) \/ GtidSet(h, f) \cap Archived # {}
    BY <1>0, <2>3 DEF Resumes, Putting
  <2>5. f \in Nat /\ Closed(h, f) BY <1>0, <2>3, <2>4 DEF Listed, IInv, Typed
  <2>6. /\ GtidSet(h, f) \subseteq Nat /\ Interval(GtidSet(h, f)) /\ f \in GtidSet(h, f)
        /\ \A g \in GtidSet(h, f) : f <= g
    BY <2>5, InOneFile DEF IInv
  <2>7. Archived \subseteq Nat /\ Interval(Archived)
    BY DEF IInv, Typed, Archived, NoGap, Interval
  <2>8. NoGap'
    <3>1. Interval(Archived \cup GtidSet(h, f))
      BY <2>4, <2>6, <2>7, Joined DEF Adjoins
    <3>2. QED BY <2>1, <2>4, <3>1 DEF NoGap, Interval
  <2>9. Typed'
    <3>1. used' \in [Mishaps -> Nat] BY <1>2, Used DEF IInv, Typed, Mishaps
    <3>2. pc' \in {"idle", "putLast"} /\ current'.set \subseteq Nat /\ (pc' # "idle" => host' \in Hosts)
      BY <1>0, <1>2 DEF EndRound, Nobody, IInv, Typed
    <3>3. \A o \in sets' : o.set \subseteq Nat BY <1>2 DEF WriteSet, IInv, Typed
    <3>4. QED BY <1>0, <3>1, <3>2, <3>3 DEF IInv, Typed, Putting
  <2>10. Rounds'
    <3>1. CASE EndRound BY <3>1 DEF EndRound, Rounds
    <3>2. CASE pc' = "putLast" /\ UNCHANGED <<host, todo, named, upload, current, used>>
      <4>1. \A x : GtidSet(h, x)' = GtidSet(h, x) BY <1>0 DEF GtidSet
      <4>2. \A x \in todo : Closed(h, x)' BY <1>0, <2>3 DEF Listed, Closed
      <4>3. Listed(h)' BY <1>0, <2>3, <3>2, <4>2 DEF Listed
      <4>4. GtidSet(h, f)' \subseteq Archived' BY <2>1, <2>4, <4>1
      <4>5. Resumes(h)' BY <1>0, <2>3, <2>4, <3>2, <4>1, <4>4 DEF Resumes, Putting
      <4>6. QED BY <2>2, <3>2, <4>3, <4>5 DEF Rounds
    <3>3. QED BY <1>2, <3>1, <3>2
  <2>11. Floor'
    <3>1. CASE NoRebuild
      <4>1. 1 \in Archived \/ 1 \in GtidSet(h, f)
        BY <2>4, <2>6, <3>1 DEF Adjoins, IInv, Floor
      <4>2. QED BY <1>0, <2>1, <2>4, <3>1, <4>1 DEF IInv, Floor
    <3>2. CASE ~NoRebuild
      <4>1. ~Happens("refused") BY <3>2, Used DEF Confirmed, IInv, Mishaps
      <4>2. QED BY <1>2, <3>2, <4>1 DEF Floor
    <3>3. QED BY <3>1, <3>2
  <2>12. Known' BY <1>0, <2>1 DEF IInv, Known
  <2>13. QED BY <2>8, <2>9, <2>10, <2>11, <2>12 DEF IInv
<1>3. QED BY <1>1, <1>2 DEF PutSet, Unconfirmed

\* Uploading goes on with the next binlog, which starts where this one ends.
LEMMA PutLastStep ==
    ASSUME IInv, NoRebuild \/ Confirmed, PutLast
    PROVE  IInv'
<1> USE DEF nodes, storage
<1>0. pc = "putLast" /\ host \in Hosts /\ UNCHANGED <<nodes, sets>>
  BY DEF PutLast, Unconfirmed, IInv, Typed, Putting
<1>1. Archived' = Archived BY <1>0 DEF Archived
<1>2. PICK h \in Hosts : h = host BY <1>0
<1>3. Listed(h) /\ Resumes(h) BY <1>0, <1>2 DEF IInv, Rounds
<1>4. PICK f \in todo : /\ First(f, todo) /\ current.set = GtidSet(h, f)
                        /\ GtidSet(h, f) \subseteq Archived
  BY <1>0, <1>3 DEF Resumes, Putting
<1>5. todo \in SUBSET Nat /\ f \in Nat /\ Closed(h, f) BY <1>0, <1>3 DEF Listed, IInv, Typed
<1>6. NoGap' BY <1>1 DEF IInv, NoGap
<1>7. CASE /\ last' = current.set /\ lastSet' = current.set
           /\ pc' = "next" /\ todo' = todo \ {Least(todo)} /\ current' = Nobody
           /\ UNCHANGED <<host, named, upload, used>>
  <2>1. Least(todo) = f
    <3>1. First(Least(todo), todo) BY <1>5, LeastOf
    <3>2. Least(todo) \in Nat /\ Least(todo) <= f /\ f <= Least(todo)
      BY <1>4, <1>5, <3>1 DEF First
    <3>3. QED BY <1>5, <3>2
  <2>2. Typed' BY <1>0, <1>7 DEF IInv, Typed, Nobody
  <2>3. Listed(h)' BY <1>0, <1>3, <1>4, <1>7, <2>1, ListShrinks DEF IInv
  <2>4. \A n \in todo' : First(n, todo') => n - 1 \in Archived
    BY <1>3, <1>4, <1>7, <2>1, NextStart DEF IInv
  <2>5. \A n \in todo' : First(n, todo') => Adjoins(n)' BY <1>1, <2>4 DEF Adjoins
  <2>6. Resumes(h)' BY <1>0, <1>3, <1>7, <2>5 DEF Resumes, Putting
  <2>7. Rounds' BY <1>2, <1>7, <2>3, <2>6 DEF Rounds
  <2>8. lastSet' # {} BY <1>4, <1>5, <1>7, InOneFile DEF IInv
  <2>9. Floor' BY <1>0, <1>1, <2>8 DEF IInv, Floor
  <2>10. Known' BY <1>1, <1>4, <1>7 DEF Known
  <2>11. QED BY <1>6, <2>2, <2>7, <2>9, <2>10 DEF IInv
<1>8. CASE /\ last' \in {last, current.set} /\ EndRound /\ Happens("refused") /\ UNCHANGED lastSet
  <2>1. NoRebuild BY <1>8, Used DEF Confirmed, IInv, Mishaps
  <2>2. pc' = "idle" /\ current'.set = {} BY <1>8 DEF EndRound, Nobody
  <2>3. used' \in [Mishaps -> Nat] BY <1>8, Used DEF IInv, Mishaps
  <2>4. Typed' BY <1>0, <2>2, <2>3 DEF IInv, Typed
  <2>5. Rounds' BY <2>2 DEF Rounds
  <2>6. Floor' BY <1>0, <1>1, <2>1 DEF IInv, Floor
  <2>7. Known' BY <1>1, <1>4, <1>8 DEF IInv, Known
  <2>8. QED BY <1>6, <2>4, <2>5, <2>6, <2>7 DEF IInv
<1>9. QED BY <1>7, <1>8 DEF PutLast, Unconfirmed

\* A collector that starts again knows what was written last.
LEMMA CrashStep ==
    ASSUME IInv, NoRebuild \/ Confirmed, Crash
    PROVE  IInv'
<1> USE DEF nodes, storage
<1>1. NoRebuild /\ used' \in [Mishaps -> Nat]
  BY Used DEF Crash, Confirmed, IInv, Mishaps
<1>2. pc' = "idle" /\ current'.set = {} /\ lastSet' = last /\ UNCHANGED <<nodes, sets, last>>
  BY DEF Crash, EndRound, Nobody
<1>3. Archived' = Archived BY <1>2 DEF Archived
<1>4. Typed' BY <1>1, <1>2 DEF IInv, Typed
<1>5. Rounds' BY <1>2 DEF Rounds
<1>6. Floor' BY <1>1, <1>2, <1>3 DEF IInv, Floor
<1>7. Known' /\ NoGap' BY <1>2, <1>3 DEF IInv, Known, NoGap
<1>8. QED BY <1>4, <1>5, <1>6, <1>7 DEF IInv

\* What happens to the nodes does not disturb a round.
LEMMA NodesKeep ==
    ASSUME IInv, Upright, Nodes
    PROVE  IInv'
<1>1. /\ UNCHANGED <<storage, collector>> /\ Typed'
      /\ pc # "idle" => Grows(host)
      /\ NoRebuild => \A h \in Hosts : starts[h] \subseteq starts'[h]
  BY NodesStep DEF IInv, Spared
<1> USE DEF storage, collector
<1>2. Archived' = Archived BY <1>1 DEF Archived
<1>3. ASSUME NEW h \in Hosts, pc' # "idle", host' = h PROVE Listed(h)' /\ Resumes(h)'
  <2>1. pc # "idle" /\ host = h /\ Listed(h) /\ Resumes(h) /\ Grows(h)
    BY <1>1, <1>3 DEF IInv, Rounds
  <2>2. Listed(h)' BY <1>1, <2>1, ListKept DEF IInv
  <2>3. \A f \in todo : pc # "flush" => GtidSet(h, f)' = GtidSet(h, f)
    BY <1>1, <2>1, ClosedKept DEF Listed, IInv, Typed
  <2>4. \A f : Adjoins(f)' = Adjoins(f) BY <1>2 DEF Adjoins
  <2>5. (named \in todo /\ pc = "next" /\ ~upload) => (GtidSet(h, named) \cap lastSet)' # {}
    <3>1. ASSUME NEW f \in todo, f = named, pc = "next", ~upload
          PROVE  (GtidSet(h, named) \cap lastSet)' # {}
      <4>1. GtidSet(h, f)' \cap lastSet # {} BY <2>1, <2>3, <3>1 DEF Resumes
      <4>2. QED BY <1>1, <3>1, <4>1 DEF GtidSet
    <3>2. QED BY <3>1
  <2>6. Resumes(h)' BY <1>1, <1>2, <2>1, <2>3, <2>4, <2>5 DEF Resumes, Putting
  <2>7. QED BY <2>2, <2>6
<1>4. Rounds' BY <1>3 DEF Rounds
<1>5. Floor' BY <1>1, <1>2 DEF IInv, Floor
<1>6. Known' /\ NoGap' BY <1>1, <1>2 DEF IInv, Known, NoGap
<1>7. QED BY <1>1, <1>4, <1>5, <1>6 DEF IInv

\* A node goes down only when another one is up.
LEMMA UprightStep == Typed /\ Upright /\ [Next]_vars => Upright'
<1> SUFFICES ASSUME Typed, Upright, [Next]_vars, NoOutage PROVE Upright'
  BY DEF Upright
<1> USE DEF Elsewhere, nodes
<1>1. status \in [Hosts -> {"synced", "desynced"}] BY DEF Upright
<1>2. CASE UNCHANGED status BY <1>1, <1>2 DEF Upright
<1>3. CASE Collector \/ Crash \/ UNCHANGED vars
  BY <1>2, <1>3 DEF Collector, Begin, Flush, Find, NextBinlog, PutObject, PutSet, PutLast, Ask,
                    StartFile, Passes, Crash, vars
<1>4. CASE Commit BY <1>2, <1>4 DEF Commit
<1>5. ASSUME NEW h \in Hosts, Rotate(h) \/ Desync(h) \/ Resync(h) PROVE Upright'
  <2>1. UNCHANGED status \/ \E s \in {"synced", "desynced"} : status' = [status EXCEPT ![h] = s]
    BY <1>5 DEF Rotate, Desync, Resync
  <2>2. QED BY <1>1, <2>1 DEF Upright
<1>6. ASSUME NEW h \in Hosts, Stop(h) PROVE FALSE
  <2>1. Allowed["outage"] # 0 BY <1>6, Used DEF Stop, Mishaps
  <2>2. \E k \in Hosts : k # h BY <1>6 DEF Stop
  <2>3. QED BY <2>1, <2>2 DEF NoOutage
<1>7. ASSUME NEW h \in Hosts, Return(h) \/ Rebuild(h) PROVE FALSE
  BY <1>1, <1>7 DEF Return, Rebuild, Up
<1>8. QED BY <1>3, <1>4, <1>5, <1>6, <1>7 DEF Next, Nodes

LEMMA IInvInit == Init => IInv
<1> SUFFICES ASSUME Init PROVE IInv
  OBVIOUS
<1>1. Archived = {} BY DEF Init, Archived
<1>2. Typed BY MaxCommitsAssumption DEF Init, Typed, Nobody, MaxCommitsAssumption
<1>3. Rounds /\ Known /\ NoGap BY <1>1 DEF Init, Rounds, Known, NoGap
<1>4. Floor BY <1>1 DEF Init, Floor
<1>5. QED BY <1>2, <1>3, <1>4 DEF IInv

LEMMA Stays == IInv /\ UNCHANGED vars => IInv'
<1> SUFFICES ASSUME IInv, UNCHANGED vars PROVE IInv'
  OBVIOUS
<1> USE DEF vars, nodes, storage, collector
<1>1. UNCHANGED <<committed, applied, starts, sets, last, lastSet, pc, host, todo, named, upload,
                  current, used>>
  OBVIOUS
<1>2. Archived' = Archived BY <1>1 DEF Archived
<1>3. Typed' BY <1>1 DEF IInv, Typed
<1>4. \A h, f : GtidSet(h, f)' = GtidSet(h, f) /\ Closed(h, f)' = Closed(h, f)
  BY <1>1 DEF GtidSet, Closed
<1>5. \A f : Adjoins(f)' = Adjoins(f) BY <1>2 DEF Adjoins
<1>6. \A h \in Hosts : Listed(h) => Listed(h)' BY <1>1, <1>4 DEF Listed
<1>7. \A h \in Hosts : (GtidSet(h, named) \cap lastSet)' = GtidSet(h, named) \cap lastSet
  BY <1>1 DEF GtidSet
<1>8. \A h \in Hosts : Resumes(h) => Resumes(h)' BY <1>1, <1>2, <1>4, <1>5, <1>7 DEF Resumes
<1>9. Rounds' BY <1>1, <1>6, <1>8 DEF IInv, Rounds
<1>10. Floor' /\ Known' /\ NoGap' BY <1>1, <1>2 DEF IInv, Floor, Known, NoGap
<1>11. QED BY <1>3, <1>9, <1>10 DEF IInv

LEMMA IInvStep ==
    ASSUME NoRebuild \/ Confirmed
    PROVE  IInv /\ Upright /\ [Next]_vars => IInv'
BY BeginStep, FlushStep, FindStep, NextBinlogStep, PutObjectStep, PutSetStep, PutLastStep,
   CrashStep, NodesKeep, Stays DEF Next, Collector

\* The archive has no gap (CollectBinLogs), whatever nodes its binlogs come from
\* and however often the nodes rotate, are desynced, go and come back: with any
\* number of crashes of the collector and refused writes if no node is rebuilt,
\* with any number of rebuilds if there are none of those.
THEOREM NoGapEver ==
    ASSUME NoRebuild \/ Confirmed
    PROVE  Spec => []NoGap
<1>1. Init => IInv /\ Upright BY IInvInit DEF Init, Upright
<1>2. IInv /\ Upright /\ [Next]_vars => (IInv /\ Upright)'
  <2>1. IInv => Typed BY DEF IInv
  <2>2. QED BY <2>1, IInvStep, UprightStep
<1>3. IInv => NoGap BY DEF IInv
<1>4. QED BY <1>1, <1>2, <1>3, PTL DEF Spec
-----------------------------------------------------------------------------
(* The archive is a log.                                                    *)

\* A GTID set that is written is a stretch of the history that adjoins it.
LEMMA Appended ==
    ASSUME IInv, PutSet, WriteSet
    PROVE  Log!Append
<1>0. /\ committed \in Nat /\ \A h \in Hosts : applied[h] \in Nat /\ applied[h] <= committed
      /\ UNCHANGED committed
  BY DEF PutSet, nodes, IInv, Typed
<1>1. pc = "putSet" /\ host \in Hosts /\ sets' = sets \cup {current}
  BY DEF PutSet, WriteSet, IInv, Typed
<1>2. PICK h \in Hosts : h = host /\ Listed(h) /\ Resumes(h) BY <1>1 DEF IInv, Rounds
<1>3. PICK f \in todo : /\ First(f, todo) /\ current.set = GtidSet(h, f)
                        /\ Adjoins(f) \/ GtidSet(h, f) \cap Archived # {}
  BY <1>1, <1>2 DEF Resumes, Putting
<1>4. f \in Nat /\ 1 <= f /\ Closed(h, f) BY <1>1, <1>2 DEF Listed, IInv, Typed
<1> DEFINE S == GtidSet(h, f)
<1>5. S \in SUBSET Nat /\ Interval(S) /\ f \in S /\ \A g \in S : f <= g
  BY <1>4, InOneFile DEF IInv
<1>6. \A g \in S : g <= committed BY <1>0 DEF GtidSet
<1>7. PICK b \in S : \A g \in S : g <= b
  BY <1>0, <1>5, <1>6, GreatestOf
<1>8. f \in 1 .. committed /\ b \in f .. committed /\ b \in Nat BY <1>0, <1>4, <1>5, <1>6, <1>7
<1>9. S = f .. b
  <2>1. f .. b \subseteq S BY <1>5, <1>7 DEF Interval
  <2>2. ASSUME NEW g \in S PROVE g \in f .. b BY <1>5, <1>7, <1>8, <2>2
  <2>3. QED BY <2>1, <2>2
<1>10. Archived' = Archived \cup f .. b BY <1>1, <1>3, <1>9 DEF Archived
<1>11. Archived = {} => Allowed["rebuild"] > 0 \/ f = 1
  <2>1. Allowed["rebuild"] \in Nat BY AllowedAssumption DEF AllowedAssumption, Mishaps
  <2>2. Archived = {} => (NoRebuild => f = 1) BY <1>3 DEF Adjoins
  <2>3. QED BY <2>1, <2>2 DEF NoRebuild
<1>12. Archived # {} => Archived \cap (f - 1 .. b + 1) # {}
  <2>1. f - 1 \in f - 1 .. b + 1 /\ \A g \in f .. b : g \in f - 1 .. b + 1 BY <1>8
  <2>2. f \in f .. b BY <1>8
  <2>3. Archived # {} => \E g \in Archived : g \in f - 1 .. b + 1
    BY <1>3, <1>9, <2>1, <2>2 DEF Adjoins
  <2>4. QED BY <2>3
<1>13. QED BY <1>0, <1>8, <1>10, <1>11, <1>12 DEF Log!Append

LEMMA LogStep ==
    ASSUME IInv, [Next]_vars
    PROVE  [Log!Next]_(Log!vars)
<1> USE DEF Log!vars, nodes, storage
<1>1. CASE UNCHANGED <<committed, sets>>
  BY <1>1 DEF Archived
<1>2. CASE Commit
  <2>1. UNCHANGED sets BY <1>2 DEF Commit, Elsewhere
  <2>2. Log!Commit BY <1>2, <2>1 DEF Commit, Log!Commit, Archived
  <2>3. QED BY <2>2 DEF Log!Next
<1>3. CASE PutSet /\ WriteSet
  BY <1>3, Appended DEF Log!Next
<1>4. CASE PutSet /\ ~WriteSet
  <2>1. UNCHANGED <<committed, sets>> BY <1>4 DEF PutSet, Unconfirmed
  <2>2. QED BY <1>1, <2>1
<1>5. CASE Begin \/ Flush \/ Find \/ NextBinlog \/ PutObject \/ PutLast \/ Crash \/ UNCHANGED vars
  <2>1. UNCHANGED <<committed, sets>>
    BY <1>5 DEF Begin, Flush, Find, NextBinlog, PutObject, PutLast, Crash, Ask, Unconfirmed, vars
  <2>2. QED BY <1>1, <2>1
<1>6. ASSUME NEW h \in Hosts,
             Rotate(h) \/ Desync(h) \/ Resync(h) \/ Stop(h) \/ Return(h) \/ Rebuild(h)
      PROVE  [Log!Next]_(Log!vars)
  <2>1. UNCHANGED <<committed, sets>>
    BY <1>6 DEF Rotate, Desync, Resync, Stop, Return, Rebuild, Elsewhere
  <2>2. QED BY <1>1, <2>1
<1>7. QED BY <1>2, <1>3, <1>4, <1>5, <1>6 DEF Next, Collector, Nodes

\* The collector, the nodes and the storage implement ArchiveLog (CollectBinLogs,
\* manageBinlog), under the assumptions of NoGapEver: each GTID set that is written
\* is that of transactions which committed and adjoin the archive, or lie in it,
\* and nothing is ever taken out.
THEOREM ArchiveIsALogEver ==
    ASSUME NoRebuild \/ Confirmed
    PROVE  Spec => ArchiveIsALog
<1>1. Init => IInv /\ Upright /\ Log!Init
  BY IInvInit DEF Init, Upright, Log!Init, Archived
<1>2. IInv /\ Upright /\ [Next]_vars => (IInv /\ Upright)'
  <2>1. IInv => Typed BY DEF IInv
  <2>2. QED BY <2>1, IInvStep, UprightStep
<1>3. IInv /\ [Next]_vars => [Log!Next]_(Log!vars) BY LogStep
<1>4. QED BY <1>1, <1>2, <1>3, PTL DEF Spec, ArchiveIsALog, Log!Spec
-----------------------------------------------------------------------------
(* What the archive is made of.                                             *)

\* A binlog of a node as it is uploaded.
File(h, f)  == [set |-> GtidSet(h, f), born |-> born[h][f]]
OfANode(o)  == \E h \in Hosts : \E f \in starts[h] : Closed(h, f) /\ o = File(h, f)

Clock ==
    /\ now \in Nat /\ at \in [Gtids -> Nat] /\ born \in [Hosts -> [Files -> Nat]]
    /\ MaxCommits \in Nat

\* A binlog was created before the transactions that it may hold, and after those
\* that come before them.
Follows(b, f) ==
    b <= now /\ \A g \in 1 .. committed : IF g < f THEN at[g] < b ELSE b < at[g]

Dated ==
    /\ \A h \in Hosts : applied[h] = committed
    /\ \A h \in Hosts : \A f \in starts[h] : Follows(born[h][f], f)
    /\ \A g \in 1 .. committed : at[g] <= now

\* What was uploaded is a binlog of a node, and it still is.
Kept ==
    /\ sets \subseteq objects /\ \A o \in objects : OfANode(o)
    /\ pc \in Putting => OfANode(current)
    /\ pc \in {"putSet", "putLast"} => current \in objects

\* What is missing of a binlog is its end.
Tailed ==
    \A o : \A x, y \in o.set : x <= y /\ <<o, x>> \in lost => <<o, y>> \in lost

RInv == IInv /\ Upright /\ Clock /\ Dated /\ Kept /\ Tailed

\* What the nodes do, as far as no node goes down.
Goes ==
    /\ Clock' /\ Dated'
    /\ \A h \in Hosts : Grows(h) /\ \A f \in starts[h] : Closed(h, f) => born'[h][f] = born[h][f]

LEMMA Committed ==
    ASSUME Typed, NoOutage, Upright, Clock, Dated, Commit
    PROVE  Goes
<1>0. /\ committed \in Nat /\ committed + 1 \in Gtids /\ committed < MaxCommits
      /\ \A h \in Hosts : starts[h] \subseteq Nat
  BY DEF Typed, Clock, Commit, Gtids
<1>1. /\ committed' = committed + 1 /\ now' = now + 1
      /\ at' = [at EXCEPT ![committed + 1] = now + 1]
      /\ UNCHANGED <<starts, born>>
  BY DEF Commit, Passes
<1>2. at' \in [Gtids -> Nat] /\ at'[committed + 1] = now + 1
      /\ \A g \in 1 .. committed : at'[g] = at[g] /\ at[g] \in Nat
  BY <1>0, <1>1 DEF Clock, Gtids
<1>3. Clock' BY <1>1, <1>2 DEF Clock
<1>4. \A h \in Hosts : applied'[h] = committed' BY DEF Commit, Upright, Up
<1>5. ASSUME NEW h \in Hosts, NEW f \in starts[h] PROVE Follows(born[h][f], f)'
  <2>1. Follows(born[h][f], f) BY <1>5 DEF Dated
  <2>2. f \in Nat /\ f <= committed + 1 /\ born[h][f] \in Nat
    <3>1. f \in Nat /\ f <= committed + 1 BY <1>0, <1>5 DEF Typed, Dated
    <3>2. 1 <= f BY <1>5 DEF Typed
    <3>3. f \in Files BY <1>0, <3>1, <3>2 DEF Files, Clock
    <3>4. QED BY <3>1, <3>3 DEF Clock
  <2>3. ASSUME NEW g \in 1 .. committed'
        PROVE  IF g < f THEN at'[g] < born[h][f] ELSE born[h][f] < at'[g]
    <3>1. CASE g \in 1 .. committed BY <1>2, <2>1, <3>1 DEF Follows
    <3>2. CASE g = committed + 1
      <4>1. ~(g < f) BY <1>0, <2>2, <3>2
      <4>2. born[h][f] < at'[g] BY <1>2, <2>1, <2>2, <3>2 DEF Follows, Clock
      <4>3. QED BY <4>1, <4>2
    <3>3. QED BY <1>0, <1>1, <2>3, <3>1, <3>2
  <2>4. born[h][f] <= now' BY <1>1, <2>1, <2>2 DEF Follows, Clock
  <2>5. QED BY <1>1, <2>3, <2>4 DEF Follows
<1>6. \A g \in 1 .. committed' : at'[g] <= now'
  <2>1. SUFFICES ASSUME NEW g \in 1 .. committed' PROVE at'[g] <= now'
    OBVIOUS
  <2>2. CASE g \in 1 .. committed BY <1>1, <1>2, <2>2 DEF Dated, Clock
  <2>3. CASE g = committed + 1 BY <1>1, <1>2, <2>3 DEF Clock
  <2>4. QED BY <1>0, <1>1, <2>1, <2>2, <2>3
<1>7. Dated' BY <1>1, <1>4, <1>5, <1>6 DEF Dated
<1>8. \A h \in Hosts : Grows(h) BY <1>0, <1>1, <1>4 DEF Grows, Dated
<1>9. QED BY <1>1, <1>3, <1>7, <1>8 DEF Goes

LEMMA NewFile ==
    ASSUME Typed, Clock, Dated, NEW h \in Hosts, StartFile(h), UNCHANGED <<committed, at, applied>>
    PROVE  Goes
<1> DEFINE n == applied[h] + 1
<1>0. /\ committed \in Nat /\ n = committed + 1 /\ n \in Files /\ n \in Nat
      /\ \A k \in Hosts : starts[k] \subseteq Files
      /\ \A k \in Hosts : applied[k] = committed /\ \A f \in starts[k] : f <= committed + 1
  <2>1. committed \in Nat /\ committed <= MaxCommits /\ MaxCommits \in Nat BY DEF Typed, Clock
  <2>2. \A k \in Hosts : applied[k] = committed BY DEF Dated
  <2>3. \A k \in Hosts : starts[k] \subseteq Nat /\ \A f \in starts[k] : 1 <= f /\ f <= committed + 1
    BY <2>2 DEF Typed
  <2>4. n = committed + 1 BY <2>2
  <2>5. n \in Files BY <2>1, <2>4 DEF Files
  <2>6. \A k \in Hosts : starts[k] \subseteq Files BY <2>1, <2>3 DEF Files
  <2>7. QED BY <2>1, <2>2, <2>3, <2>4, <2>5, <2>6
<1>1. /\ now' = now + 1 /\ born' = [born EXCEPT ![h][n] = now + 1]
      /\ starts'[h] = starts[h] \cup {n} /\ \A k \in Hosts \ {h} : starts'[k] = starts[k]
      /\ UNCHANGED <<committed, at, applied>>
  BY Started DEF StartFile, Passes
<1> HIDE DEF n
<1>2. /\ born' \in [Hosts -> [Files -> Nat]] /\ born'[h][n] = now + 1
      /\ \A k \in Hosts : \A f \in Files : k # h \/ f # n => born'[k][f] = born[k][f]
  BY <1>0, <1>1 DEF Clock
<1>3. Clock' BY <1>1, <1>2 DEF Clock
<1>4. ASSUME NEW k \in Hosts, NEW f \in starts'[k] PROVE Follows(born[k][f], f)'
  <2>1. CASE k = h /\ f = n
    <3>1. \A g \in 1 .. committed : g < n /\ at[g] < now + 1
      <4>1. \A g \in 1 .. committed : at[g] \in Nat /\ at[g] <= now
        BY <1>0 DEF Clock, Dated, Typed, Gtids
      <4>2. QED BY <1>0, <4>1 DEF Clock
    <3>2. QED BY <1>1, <1>2, <1>3, <2>1, <3>1 DEF Follows, Clock
  <2>2. CASE ~(k = h /\ f = n)
    <3>1. f \in starts[k] /\ f \in Files BY <1>0, <1>1, <1>4, <2>2
    <3>2. Follows(born[k][f], f) /\ born'[k][f] = born[k][f] /\ born[k][f] \in Nat
      BY <1>2, <2>2, <3>1 DEF Dated, Clock
    <3>3. now \in Nat BY DEF Clock
    <3>4. /\ born[k][f] <= now
          /\ \A g \in 1 .. committed : IF g < f THEN at[g] < born[k][f] ELSE born[k][f] < at[g]
      BY <3>2 DEF Follows
    <3>5. born'[k][f] <= now' BY <1>1, <3>2, <3>3, <3>4
    <3>6. QED BY <1>1, <3>2, <3>4, <3>5 DEF Follows
  <2>3. QED BY <2>1, <2>2
<1>5. \A g \in 1 .. committed : at[g] <= now'
  BY <1>0, <1>1 DEF Dated, Clock, Typed, Gtids
<1>6. Dated' BY <1>1, <1>4, <1>5 DEF Dated
<1>7. \A k \in Hosts : Grows(k)
  <2>1. n = applied[h] + 1 BY DEF n
  <2>2. \A k \in Hosts : applied[k] \in Nat BY DEF Typed
  <2>3. QED BY <1>1, <2>1, <2>2 DEF Grows
<1>8. ASSUME NEW k \in Hosts, NEW f \in starts[k], Closed(k, f) PROVE born'[k][f] = born[k][f]
  <2>1. f # n BY <1>0, <1>8 DEF Closed, Files
  <2>2. QED BY <1>0, <1>2, <1>8, <2>1
<1>9. QED BY <1>3, <1>6, <1>7, <1>8 DEF Goes

LEMMA Unmoved ==
    ASSUME Typed, Clock, Dated, UNCHANGED <<committed, now, at, applied, starts, born>>
    PROVE  Goes
<1>1. Clock' BY DEF Clock
<1>2. Dated' BY DEF Dated, Follows
<1>3. \A h \in Hosts : Grows(h) BY DEF Grows, Typed
<1>4. QED BY <1>1, <1>2, <1>3 DEF Goes

LEMMA AllGo ==
    ASSUME Typed, NoOutage, Upright, Clock, Dated, [Next]_vars
    PROVE  Goes
<1> USE DEF nodes
<1>0. status \in [Hosts -> {"synced", "desynced"}] BY DEF Upright
<1>1. CASE \/ Begin \/ Find \/ NextBinlog \/ PutObject \/ PutSet \/ PutLast \/ Crash \/ UNCHANGED vars
  <2>1. UNCHANGED nodes
    BY <1>1 DEF Begin, Find, NextBinlog, PutObject, PutSet, PutLast, Crash, Ask, vars
  <2>2. QED BY <2>1, Unmoved
<1>2. CASE Flush
  <2>1. \/ UNCHANGED nodes
        \/ /\ pc # "idle" /\ UNCHANGED <<committed, at, applied>>
           /\ StartFile(host) \/ UNCHANGED <<now, starts, born>>
    BY <1>2 DEF Flush, Ask
  <2>2. pc # "idle" => host \in Hosts BY DEF Typed
  <2>3. QED BY <2>1, <2>2, NewFile, Unmoved
<1>3. CASE Commit BY <1>3, Committed
<1>4. ASSUME NEW h \in Hosts, Rotate(h) PROVE Goes BY <1>4, NewFile DEF Rotate
<1>5. ASSUME NEW h \in Hosts, Desync(h) \/ Resync(h) PROVE Goes
  BY <1>5, Unmoved DEF Desync, Resync
<1>6. ASSUME NEW h \in Hosts, Stop(h) PROVE FALSE
  <2>1. Allowed["outage"] # 0 BY <1>6, Used DEF Stop, Mishaps
  <2>2. \E k \in Hosts : k # h BY <1>6 DEF Stop
  <2>3. QED BY <2>1, <2>2 DEF NoOutage
<1>7. ASSUME NEW h \in Hosts, Return(h) \/ Rebuild(h) PROVE FALSE
  BY <1>0, <1>7 DEF Return, Rebuild, Up
<1>8. QED BY <1>1, <1>2, <1>3, <1>4, <1>5, <1>6, <1>7 DEF Next, Collector, Nodes

LEMMA FileStays ==
    ASSUME Typed, Typed', Goes, NEW o, OfANode(o)
    PROVE  OfANode(o)'
<1>0. PICK h \in Hosts : \E f \in starts[h] : Closed(h, f) /\ o = File(h, f) BY DEF OfANode
<1>1. PICK f \in starts[h] : Closed(h, f) /\ o = File(h, f) BY <1>0
<1>2. f \in Nat /\ Grows(h) /\ born'[h][f] = born[h][f] BY <1>1 DEF Typed, Goes
<1>3. Closed(h, f)' /\ GtidSet(h, f)' = GtidSet(h, f) BY <1>1, <1>2, ClosedKept
<1>4. f \in starts'[h] BY <1>1, <1>2 DEF Grows
<1>5. o = [set |-> GtidSet(h, f)', born |-> born'[h][f]] BY <1>1, <1>2, <1>3 DEF File
<1>6. QED BY <1>3, <1>4, <1>5 DEF OfANode, File

\* What a step writes to the archive, and what it gets ready to write.
Writes ==
    /\ objects' = objects \/ (pc = "putObject" /\ objects' = objects \cup {current})
    /\ sets' = sets \/ (pc = "putSet" /\ sets' = sets \cup {current})
    /\ pc' \in Putting =>
         \/ /\ pc \in Putting /\ current' = current
            /\ pc' = "putObject" => pc = "putObject"
            /\ pc = "putObject" => pc' = "putObject" \/ current \in objects'
         \/ /\ pc = "next" /\ pc' = "putObject" /\ host \in Hosts
            /\ \E f \in todo : First(f, todo) /\ current' = File(host, f)

LEMMA StepWrites ==
    ASSUME IInv, [Next]_vars
    PROVE  Writes
<1> USE DEF storage, collector, Putting
<1>1. CASE UNCHANGED vars \/ Crash \/ Nodes
  BY <1>1 DEF Writes, vars, Crash, EndRound, Nodes, Commit, Rotate, Desync, Resync, Stop, Return,
              Rebuild, Elsewhere
<1>2. CASE Begin \/ Flush \/ Find
  BY <1>2 DEF Writes, Begin, Flush, Find, Ask, EndRound
<1>3. CASE NextBinlog
  <2>1. UNCHANGED <<objects, sets>> BY <1>3 DEF NextBinlog, Ask
  <2>2. ASSUME pc' \in Putting
        PROVE  pc = "next" /\ pc' = "putObject" /\ todo # {} /\ current' = File(host, Least(todo))
    BY <1>3, <2>2 DEF NextBinlog, Ask, EndRound, File
  <2>3. ASSUME pc' \in Putting PROVE host \in Hosts /\ First(Least(todo), todo)
    <3>1. pc # "idle" /\ todo # {} BY <2>2, <2>3
    <3>2. host \in Hosts /\ starts[host] \in SUBSET Nat BY <3>1 DEF IInv, Typed
    <3>3. todo \subseteq starts[host] BY <3>1, <3>2 DEF IInv, Rounds, Listed
    <3>4. QED BY <3>1, <3>2, <3>3, LeastOf
  <2>4. ASSUME pc' \in Putting PROVE \E f \in todo : First(f, todo) /\ current' = File(host, f)
    BY <2>2, <2>3, <2>4 DEF First
  <2>5. QED BY <2>1, <2>2, <2>3, <2>4 DEF Writes
<1>4. CASE PutObject BY <1>4 DEF Writes, PutObject, Unconfirmed, EndRound
<1>5. CASE PutSet \/ PutLast
  BY <1>5 DEF Writes, PutSet, PutLast, WriteSet, Unconfirmed, EndRound
<1>6. QED BY <1>1, <1>2, <1>3, <1>4, <1>5 DEF Next, Collector

LEMMA KeptStep ==
    ASSUME RInv, Typed', Goes, Writes
    PROVE  Kept'
<1> USE DEF RInv, Putting
<1>1. \A o : OfANode(o) => OfANode(o)' BY FileStays DEF IInv
<1>2. \A o \in objects' : OfANode(o) BY DEF Writes, Kept
<1>3. sets' \subseteq objects' BY DEF Writes, Kept
<1>4. ASSUME pc' \in Putting PROVE OfANode(current')
  <2>1. CASE pc \in Putting /\ current' = current BY <2>1 DEF Kept
  <2>2. CASE pc = "next"
    <3>1. PICK f \in todo : current' = File(host, f) BY <1>4, <2>2 DEF Writes
    <3>2. host \in Hosts BY <1>4, <2>2 DEF Writes
    <3>3. f \in starts[host] /\ Closed(host, f) BY <2>2, <3>2 DEF IInv, Rounds, Listed
    <3>4. QED BY <3>1, <3>2, <3>3 DEF OfANode
  <2>3. QED BY <1>4, <2>1, <2>2 DEF Writes
<1>5. pc' \in {"putSet", "putLast"} => current' \in objects' BY DEF Writes, Kept
<1>6. QED BY <1>1, <1>2, <1>3, <1>4, <1>5 DEF Kept

LEMMA TailedStep ==
    ASSUME RInv, [Next]_vars
    PROVE  Tailed'
<1> USE DEF storage
<1>1. CASE UNCHANGED lost BY <1>1 DEF RInv, Tailed
<1>2. ASSUME NEW tail \in SUBSET current.set,
             \A x, y \in current.set : x <= y /\ x \in tail => y \in tail,
             lost' = {m \in lost : m[1] # current} \cup ({current} \X tail)
      PROVE  Tailed'
  <2>1. \A o, g : <<o, g>> \in lost' <=> IF o = current THEN g \in tail ELSE <<o, g>> \in lost
    BY <1>2
  <2>2. QED BY <1>2, <2>1 DEF RInv, Tailed
<1>3. CASE PutObject
  <2>1. ASSUME NEW tail \in Tails
        PROVE  tail \in SUBSET current.set /\ \A x, y \in current.set : x <= y /\ x \in tail => y \in tail
    <3>1. current.set \subseteq Nat BY DEF RInv, IInv, Typed
    <3>2. PICK t \in current.set : tail = {g \in current.set : g >= t} BY DEF Tails
    <3>3. QED BY <3>1, <3>2
  <2>2. \/ UNCHANGED lost
        \/ lost' = {m \in lost : m[1] # current} \cup ({current} \X {})
        \/ \E tail \in Tails : lost' = {m \in lost : m[1] # current} \cup ({current} \X tail)
    BY <1>3 DEF PutObject, Unconfirmed
  <2>3. CASE lost' = {m \in lost : m[1] # current} \cup ({current} \X {})
    <3>1. \A o, g : <<o, g>> \in lost' <=> o # current /\ <<o, g>> \in lost BY <2>3
    <3>2. QED BY <3>1 DEF RInv, Tailed
  <2>4. CASE \E tail \in Tails : lost' = {m \in lost : m[1] # current} \cup ({current} \X tail)
    BY <1>2, <2>1, <2>4
  <2>5. QED BY <1>1, <2>2, <2>3, <2>4
<1>4. CASE Begin \/ Flush \/ Find \/ NextBinlog \/ PutSet \/ PutLast \/ Crash \/ UNCHANGED vars
  BY <1>1, <1>4 DEF Begin, Flush, Find, NextBinlog, PutSet, PutLast, WriteSet, Unconfirmed, Ask,
     Crash, vars
<1>5. CASE Nodes
  BY <1>1, <1>5 DEF Nodes, Commit, Rotate, Desync, Resync, Stop, Return, Rebuild, Elsewhere
<1>6. QED BY <1>3, <1>4, <1>5 DEF Next, Collector

LEMMA RInvInit == Init => RInv
<1> SUFFICES ASSUME Init PROVE RInv
  OBVIOUS
<1>1. IInv /\ Upright BY IInvInit DEF Init, Upright
<1>2. Kept BY DEF Init, Kept, Putting
<1>3. now \in Nat /\ \A h \in Hosts : h \in Nat /\ h <= now
  <2>1. Hosts \in SUBSET Nat BY HostsAssumption DEF HostsAssumption
  <2>2. PICK m \in Hosts : \A h \in Hosts : h <= m BY HostsAssumption DEF HostsAssumption
  <2>3. m \in Nat BY <2>1, <2>2
  <2>4. Greatest(Hosts) \in Hosts /\ \A h \in Hosts : h <= Greatest(Hosts)
    <3>1. m \in {x \in Hosts : \A h \in Hosts : h <= x} BY <2>2
    <3>2. QED BY <3>1 DEF Greatest
  <2>5. QED BY <2>1, <2>4 DEF Init
<1>4. Clock BY <1>3, MaxCommitsAssumption DEF Init, Clock, MaxCommitsAssumption
<1>5. Dated
  <2>1. \A h \in Hosts : starts[h] = {1} /\ born[h][1] = h /\ applied[h] = 0 /\ committed = 0
    BY MaxCommitsAssumption DEF Init, Files, MaxCommitsAssumption
  <2>2. QED BY <1>3, <2>1 DEF Dated, Follows, Init
<1>6. Tailed BY DEF Init, Tailed
<1>7. QED BY <1>1, <1>2, <1>4, <1>5, <1>6 DEF RInv

LEMMA RInvStep ==
    ASSUME NoOutage
    PROVE  RInv /\ [Next]_vars => RInv'
<1> SUFFICES ASSUME RInv, [Next]_vars PROVE RInv'
  OBVIOUS
<1>1. IInv /\ Typed /\ Upright /\ Clock /\ Dated BY DEF RInv, IInv
<1>2. Goes BY <1>1, AllGo
<1>3. IInv' BY <1>1, IInvStep DEF NoRebuild
<1>4. Upright' BY <1>1, UprightStep
<1>5. Writes BY <1>1, StepWrites
<1>6. Kept' BY <1>2, <1>3, <1>5, KeptStep DEF IInv
<1>7. Tailed' BY TailedStep
<1>8. QED BY <1>2, <1>3, <1>4, <1>6, <1>7 DEF RInv, Goes
-----------------------------------------------------------------------------
(* What a recovery makes of it.                                             *)

\* A binlog with what it begins with: it holds all transactions from there on
\* until it was closed, and is named by a time between them and those before.
Binlog(o, f) ==
    /\ First(f, o.set) /\ f \in 1 .. committed /\ Interval(o.set) /\ o.set \subseteq 1 .. committed
    /\ o.born \in Nat /\ Follows(o.born, f)

LEMMA IsBinlog ==
    ASSUME RInv, NEW o \in objects
    PROVE  \E f \in Nat : Binlog(o, f) /\ \E h \in Hosts : o = File(h, f)
<1>1. Typed /\ Clock /\ Dated BY DEF RInv, IInv
<1>2. PICK h \in Hosts : \E f \in starts[h] : Closed(h, f) /\ o = File(h, f) BY DEF RInv, Kept, OfANode
<1>3. PICK f \in starts[h] : Closed(h, f) /\ o = File(h, f) BY <1>2
<1>4. f \in Nat /\ 1 <= f /\ applied[h] = committed /\ committed \in Nat /\ committed <= MaxCommits
  BY <1>1 DEF Typed, Dated, Clock
<1>5. o.set = GtidSet(h, f) /\ o.born = born[h][f] BY <1>3 DEF File
<1>6. First(f, o.set) /\ Interval(o.set) BY <1>1, <1>3, <1>4, <1>5, InOneFile DEF First
<1>7. o.set \subseteq 1 .. committed BY <1>4, <1>5 DEF GtidSet
<1>8. f \in 1 .. committed BY <1>6, <1>7 DEF First
<1>9. o.born \in Nat BY <1>1, <1>4, <1>5, <1>8 DEF Clock, Files
<1>10. Follows(o.born, f) BY <1>1, <1>3, <1>5 DEF Dated
<1>11. QED BY <1>3, <1>4, <1>6, <1>7, <1>8, <1>9, <1>10 DEF Binlog

\* What a binlog does not hold and comes before it is older than it; what it
\* holds is younger.
LEMMA Between ==
    ASSUME RInv, NEW o \in objects, NEW x \in 1 .. committed
    PROVE  /\ o.born \in Nat /\ at[x] \in Nat
           /\ x \in o.set => o.born < at[x]
           /\ (\E g \in o.set : x <= g) /\ x \notin o.set => at[x] < o.born
<1>1. PICK f \in Nat : Binlog(o, f) BY IsBinlog
<1>2. x \in Gtids /\ x \in Nat BY DEF RInv, IInv, Typed, Clock, Gtids
<1>3. at[x] \in Nat BY <1>2 DEF RInv, Clock
<1>4. x \in o.set => ~(x < f) BY <1>1, <1>2 DEF Binlog, First
<1>5. ASSUME NEW g \in o.set, x <= g, x \notin o.set PROVE x < f
  <2>1. g \in Nat /\ x \notin f .. g BY <1>1, <1>5 DEF Binlog, Interval, First
  <2>2. QED BY <1>2, <1>5, <2>1
<1>6. QED BY <1>1, <1>3, <1>4, <1>5 DEF Binlog, Follows

\* The replay in the order of the names leaves out only what the archive misses.
LEMMA AllReplayed ==
    ASSUME RInv, NEW start \in 1 .. committed, Selected(start) = objects,
           \E g \in Archived : g <= start + 1
    PROVE  Complete(start)
<1> SUFFICES ASSUME Possible(start)
             PROVE  /\ Held \subseteq Recovered("latest", 0, start)
                    /\ \A o \in objects :
                         \A g \in ReplayedUpTo("latest", 0, start, o) :
                            1 .. g \subseteq ReplayedUpTo("latest", 0, start, o) \cup (Archived \ Held)
  BY DEF Complete
<1>1. objects = sets BY DEF Possible, RInv, Kept
<1>2. \A o : Applies("latest", 0, o) = Holds(o) BY DEF Applies, Holds
<1>3. Held \subseteq Recovered("latest", 0, start) BY <1>1, <1>2 DEF Held, Recovered
<1>4. ASSUME NEW o \in objects, NEW g \in ReplayedUpTo("latest", 0, start, o), NEW x \in 1 .. g
      PROVE  x \in ReplayedUpTo("latest", 0, start, o) \cup (Archived \ Held)
  <2> DEFINE done == ReplayedUpTo("latest", 0, start, o)
  <2>1. \A y : y \in done <=> \/ y \in 1 .. start
                              \/ \E q \in objects : (q = o \/ Precedes(q, o)) /\ y \in Holds(q)
    BY <1>2 DEF ReplayedUpTo
  <2>2. CASE x \in 1 .. start BY <2>1, <2>2
  <2>3. CASE x \notin 1 .. start
    <3>1. start \in Nat /\ committed \in Nat BY DEF RInv, IInv, Typed
    <3>2. g \notin 1 .. start /\ start + 1 <= x BY <2>3, <3>1
    <3>3. PICK q \in objects : (q = o \/ Precedes(q, o)) /\ g \in Holds(q) BY <1>4, <2>1, <3>2
    <3>4. g \in 1 .. committed /\ g \in Archived /\ g \in q.set
      <4>1. PICK f \in Nat : Binlog(q, f) BY IsBinlog
      <4>2. QED BY <1>1, <3>3, <4>1 DEF Binlog, Archived, Holds
    <3>5. x \in Archived /\ x \in 1 .. committed
      <4>1. PICK a \in Archived : a <= start + 1 OBVIOUS
      <4>2. a .. g \subseteq Archived BY <3>4 DEF RInv, IInv, NoGap
      <4>3. a \in Nat BY DEF RInv, IInv, Typed, Archived
      <4>4. QED BY <3>1, <3>2, <3>4, <4>1, <4>2, <4>3
    <3>6. SUFFICES ASSUME x \in Held PROVE x \in done
      BY <3>5
    <3>7. PICK r \in objects : x \in Holds(r) /\ x \in r.set BY <1>1, <3>6 DEF Held, Holds
    <3>8. CASE x \in q.set
      <4>1. <<q, g>> \notin lost BY <3>3 DEF Holds
      <4>2. x \in Holds(q) BY <3>4, <3>8, <4>1 DEF RInv, Tailed, Holds
      <4>3. QED BY <2>1, <3>3, <4>2
    <3>9. CASE x \notin q.set
      <4>1. at[x] \in Nat /\ at[x] < q.born /\ q.born \in Nat BY <3>4, <3>5, <3>9, Between
      <4>2. r.born \in Nat /\ r.born < at[x] BY <3>5, <3>7, Between
      <4>3. o.born \in Nat /\ q.born <= o.born BY <3>3, <3>5, <4>1, Between DEF Precedes
      <4>4. Precedes(r, o) BY <4>1, <4>2, <4>3 DEF Precedes
      <4>5. QED BY <2>1, <3>7, <4>4
    <3>10. QED BY <3>8, <3>9
  <2>4. QED BY <2>2, <2>3
<1>5. QED BY <1>3, <1>4

LEMMA LaterBackups == RInv => RecoversLaterBackups
<1> SUFFICES ASSUME RInv, NEW start \in 1 .. committed, \E g \in Archived : g <= start + 1,
                    ~(\E o \in objects : 1 .. start \subseteq o.set)
             PROVE  Complete(start)
  BY DEF RecoversLaterBackups
<1>1. Selected(start) = objects BY DEF Selected, RInv, Kept
<1>2. QED BY <1>1, AllReplayed

\* On one node the search never stops before the first binlog.
LEMMA NothingLeftOut ==
    ASSUME RInv, \A h, k \in Hosts : h = k, NEW start \in 1 .. committed
    PROVE  Selected(start) = objects
<1> SUFFICES ASSUME NEW o \in objects, NEW q \in sets, Precedes(o, q), 1 .. start \subseteq q.set
             PROVE  FALSE
  BY DEF Selected
<1>1. q \in objects BY DEF RInv, Kept
<1>2. 1 \in q.set /\ 1 \in 1 .. committed BY DEF RInv, IInv, Typed
<1>3. PICK f \in Nat : Binlog(q, f) /\ \E h \in Hosts : q = File(h, f) BY <1>1, IsBinlog
<1>4. PICK e \in Nat : Binlog(o, e) /\ \E h \in Hosts : o = File(h, e) BY IsBinlog
<1>5. f = 1 BY <1>2, <1>3 DEF Binlog, First
<1>6. 1 \in o.set
  <2>1. o.born < q.born /\ q.born < at[1] /\ o.born \in Nat /\ q.born \in Nat /\ at[1] \in Nat
    BY <1>1, <1>2, Between DEF Precedes
  <2>2. e \in o.set /\ 1 <= e BY <1>4 DEF Binlog, First
  <2>3. 1 \notin o.set => at[1] < o.born BY <1>2, <2>2, Between
  <2>4. QED BY <2>1, <2>3
<1>7. e = 1 BY <1>4, <1>6 DEF Binlog, First
<1>8. o = q BY <1>3, <1>4, <1>5, <1>7
<1>9. QED BY <1>3, <1>8 DEF Precedes, Binlog

LEMMA Latest == RInv /\ (\A h, k \in Hosts : h = k) => RecoversLatest
<1> SUFFICES ASSUME RInv, \A h, k \in Hosts : h = k, NEW start \in 1 .. committed,
                    Possible(start)
             PROVE  Complete(start)
  BY DEF RecoversLatest, Complete
<1>1. Selected(start) = objects BY NothingLeftOut
<1>2. PICK o \in objects : TRUE BY DEF Possible
<1>3. o \in sets BY <1>1 DEF Possible
<1>4. PICK f \in Nat : Binlog(o, f) BY IsBinlog
<1>5. f \in Archived BY <1>3, <1>4 DEF Binlog, First, Archived
<1>6. 1 \in Archived BY <1>5 DEF RInv, IInv, Floor, NoRebuild, NoOutage
<1>7. 1 <= start + 1 BY DEF RInv, IInv, Typed
<1>8. QED BY <1>1, <1>6, <1>7, AllReplayed

LEMMA ToDate == RInv /\ (\A h, k \in Hosts : h = k) => RecoversToDate
<1> SUFFICES ASSUME RInv, \A h, k \in Hosts : h = k, NEW start \in 1 .. committed,
                    NEW target \in 1 .. now, Possible(start)
             PROVE  Recovered("date", target, start)
                       = 1 .. start \cup {g \in Held : at[g] < target}
  BY DEF RecoversToDate
<1>1. Selected(start) = objects /\ objects = sets
  BY NothingLeftOut DEF Possible, RInv, Kept
<1>2. ASSUME NEW o \in objects
      PROVE  Applies("date", target, o) = {g \in Holds(o) : at[g] < target}
  <2>1. ASSUME NEW g \in o.set, at[g] < target PROVE o.born <= target
    <3>1. PICK f \in Nat : Binlog(o, f) BY IsBinlog
    <3>2. g \in 1 .. committed BY <3>1 DEF Binlog
    <3>3. o.born \in Nat /\ at[g] \in Nat /\ o.born < at[g] BY <3>2, Between
    <3>4. target \in Nat BY DEF RInv, Clock
    <3>5. QED BY <2>1, <3>3, <3>4
  <2>2. QED BY <2>1 DEF Applies, Holds
<1>3. ASSUME NEW g PROVE g \in Recovered("date", target, start)
                         <=> g \in 1 .. start \cup {x \in Held : at[x] < target}
  BY <1>1, <1>2 DEF Recovered, Held
<1>4. QED BY <1>3

\* From a backup that the archive continues and that holds more than any of its
\* binlogs, everything that the archive holds is recovered, each transaction after
\* all those before it but what uploads left out of their objects (setBinlogs, recover),
\* whichever nodes the collector took the binlogs from and wherever it was interrupted,
\* as long as no node goes down.
THEOREM LaterBackupsRecover ==
    ASSUME NoOutage
    PROVE  Spec => []RecoversLaterBackups
<1>1. RInv /\ [Next]_vars => RInv' BY RInvStep
<1>2. QED BY RInvInit, <1>1, LaterBackups, PTL DEF Spec

\* On one node the same is true of every backup (setBinlogs, recover).
THEOREM LatestRecovered ==
    ASSUME \A h, k \in Hosts : h = k
    PROVE  Spec => []RecoversLatest
<1>1. RInv /\ [Next]_vars => RInv' BY RInvStep DEF NoOutage
<1>2. RInv => RecoversLatest BY Latest
<1>3. QED BY RInvInit, <1>1, <1>2, PTL DEF Spec

\* On one node a recovery to a time (recover) brings what the archive
\* holds from before it, and nothing from after it but what the backup held.
THEOREM DateRecovered ==
    ASSUME \A h, k \in Hosts : h = k
    PROVE  Spec => []RecoversToDate
<1>1. RInv /\ [Next]_vars => RInv' BY RInvStep DEF NoOutage
<1>2. RInv => RecoversToDate BY ToDate
<1>3. QED BY RInvInit, <1>1, <1>2, PTL DEF Spec
=============================================================================
