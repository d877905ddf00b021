------------------------- MODULE ClusterHealth_proofs -------------------------
(***************************************************************************)
(* After a crash of the whole cluster one pod is bootstrapped, and it is   *)
(* one with every acknowledged transaction: for any number of pods, of     *)
(* transactions, crashes, failed calls and deaths of the operator, and     *)
(* any pods that crash together.                                           *)
(***************************************************************************)
EXTENDS ClusterHealth, TLAPS, FiniteSetTheorems

\* The part of the type invariant this needs.
Typed ==
    /\ node \in [Pods -> Nodes] /\ signalled \subseteq Pods
    /\ data \in [Pods -> 0 .. MaxCommits] /\ committed \in 0 .. MaxCommits
    /\ DOMAIN view = Pods /\ pass \in Passes

\* The pods that the signal does not reach.
Deaf(p) == node[p] \notin {"armed", "waiting"}

\* No pod serves, nor is about to.
Stalled(p) == node[p] \in {"pending", "starting", "armed", "waiting"}
Quiet == \A p \in Pods : Stalled(p)

\* The first of the pods with the largest sequence number.
Newest(p) == \A q \in Pods : data[q] < data[p] \/ (data[q] = data[p] /\ p <= q)

\* Some pod holds all that was acknowledged.
Durable == (\E q \in Pods : data[q] = committed) /\ \A q \in Pods : data[q] <= committed

\* Nobody serves, and who is told to bootstrap is the newest; or that pod is at
\* it; or the cluster serves, and nobody else is told to start one.
Waiting       == Quiet /\ \A p \in signalled : ~Deaf(p) /\ Newest(p)
Bootstrapping ==
    /\ signalled = {}
    /\ \E p \in Pods : /\ node[p] = "bootstrapping" /\ data[p] = committed
                       /\ \A q \in Pods \ {p} : Stalled(q)
Serving ==
    /\ signalled = {} /\ PrimaryExists /\ reach = committed /\ OneCluster
    /\ \A p \in Pods : node[p] # "bootstrapping"

\* The pods whose logs this scan has read.
Read(p) == pass.pc = "exec" \/ p < pass.i

\* A scan during which nothing has happened yet has found the newest of what it
\* has read.
Steady ==
    /\ Quiet
    /\ \A p \in Pods : Read(p) => node[p] = "waiting"
    /\ IF \E p \in Pods : Read(p)
       THEN /\ Read(pass.maxPod) /\ pass.maxSeq = data[pass.maxPod]
            /\ \A q \in Pods : Read(q) =>
                 data[q] < data[pass.maxPod] \/ (data[q] = data[pass.maxPod] /\ pass.maxPod <= q)
       ELSE pass.maxSeq = NoSeq

\* Else it comes to nothing: a pod that is yet to be read does not wait, or the
\* one that will be chosen no longer hears the signal.
Futile ==
    \E p \in Pods :
        /\ Deaf(p)
        /\ ~Read(p) \/ (p = pass.maxPod /\ \A q \in Pods : Read(q) \/ Deaf(q) \/ data[q] <= pass.maxSeq)

Scans ==
    /\ pass.pc \in {"running", "first"} => pass.maxSeq = NoSeq
    /\ Scanning => Steady \/ Futile

IInv == Typed /\ Durable /\ (Waiting \/ Bootstrapping \/ Serving) /\ Scans
-----------------------------------------------------------------------------
(* Types.                                                                   *)

Records ==
    [pc: {"running", "first", "scan", "exec", "list", "logs", "write"}, i: Pods,
     maxSeq: {NoSeq} \cup 0 .. MaxCommits, maxPod: Pods, listed: SUBSET Pods,
     pending: BOOLEAN, ready: 0 .. Size, failed: BOOLEAN]

LEMMA PassTypes ==
    ASSUME Typed, pass.pc # "idle"
    PROVE  pass \in Records
BY DEF Typed, Passes, Idle, Records

LEMMA PodsType == Size \in Nat /\ 0 \in Pods /\ Pods \subseteq Int /\ Size - 1 \in Pods
                  /\ \A p \in Pods : p \in Int /\ 0 <= p /\ p <= Size - 1
BY SizeAssumption DEF SizeAssumption, Pods

\* The steps of the pass, and those of the proxy and of rollouts, leave the pods alone.
LEMMA PodsAlone ==
    ASSUME [Next]_vars, ~SendSignal, ~Crash,
           ~ \E p \in Pods : PodStep(p) \/ Commit(p) \/ Apply(p)
    PROVE  UNCHANGED pods
<1>1. CASE Begin \/ CallFails \/ Dies BY <1>1 DEF Begin, CallFails, Dies, Still
<1>2. CASE PassStep
  BY <1>2 DEF PassStep, CheckRunning, CheckFirst, Scan, ListPods, ReadLogs, WriteStatus, ReportError, Still
<1>3. CASE ProxyFails \/ ProxyServes \/ RollOut \/ RolledOut \/ UNCHANGED vars
  BY <1>3 DEF ProxyFails, ProxyServes, RollOut, RolledOut, vars
<1>4. QED BY <1>1, <1>2, <1>3 DEF Next

\* And the others leave the pass alone.
LEMMA PassAlone ==
    ASSUME Next, ~Begin, ~PassStep, ~CallFails, ~Dies
    PROVE  pass' = pass
<1>1. ASSUME NEW p \in Pods, PodStep(p) \/ Commit(p) \/ Apply(p) PROVE pass' = pass
  BY <1>1 DEF PodStep, Start, PrintLastLine, FindPrimary, NodeRecovery, Bootstrap, Join, Place, Commit, Apply
<1>2. CASE Crash \/ ProxyFails \/ ProxyServes \/ RollOut \/ RolledOut
  BY <1>2 DEF Crash, ProxyFails, ProxyServes, RollOut, RolledOut
<1>3. QED BY <1>1, <1>2 DEF Next

LEMMA PassTyped ==
    ASSUME Typed, [Next]_vars
    PROVE  pass' \in Passes
<1> USE PodsType DEF Go
<1>0. Idle \in Passes /\ Records \subseteq Passes BY DEF Passes, Records
<1>1. CASE Begin
  <2>1. 0 \in 0 .. Size /\ NoSeq \in {NoSeq} \cup 0 .. MaxCommits /\ {} \in SUBSET Pods OBVIOUS
  <2>2. pass' \in Records BY <1>1, <2>1, Zenon DEF Begin, Records
  <2>3. QED BY <1>0, <2>2
<1>2. CASE PassStep
  <2>1. CASE CheckRunning \/ CheckFirst \/ SendSignal
    <3>1. pass \in Records BY <2>1, PassTypes DEF CheckRunning, CheckFirst, SendSignal
    <3>2. pass' \in Records BY <2>1, <3>1 DEF CheckRunning, CheckFirst, SendSignal, Records
    <3>3. QED BY <1>0, <3>2
  <2>2. CASE Scan
    <3>1. pass \in Records /\ pass.pc = "scan" BY <2>2, PassTypes DEF Scan
    <3>2. data[pass.i] \in 0 .. MaxCommits /\ pass.i \in Pods BY <3>1 DEF Typed, Records
    <3>3. PICK found \in {pass, [pass EXCEPT !.maxSeq = data[pass.i], !.maxPod = pass.i]} :
             pass' = [found EXCEPT !.i = 0, !.pc = "list"] \/ pass' = NextPod(found, "exec")
      BY <2>2 DEF Scan, Scanned
    <3>4. found \in Records /\ found.i = pass.i BY <3>1, <3>2, <3>3 DEF Records
    <3>5. pass.i < Size - 1 => pass.i + 1 \in Pods BY <3>2 DEF Pods
    <3>6. NextPod(found, "exec") \in Records BY <3>4, <3>5 DEF NextPod, Records
    <3>7. [found EXCEPT !.i = 0, !.pc = "list"] \in Records BY <3>4 DEF Records
    <3>8. QED BY <1>0, <3>3, <3>6, <3>7
  <2>3. CASE ListPods
    <3>1. pass \in Records BY <2>3, PassTypes DEF ListPods
    <3>2. PICK L \in SUBSET Pods, B \in BOOLEAN :
             pass' = [pass EXCEPT !.pc = "logs", !.listed = L, !.pending = B]
      BY <2>3 DEF ListPods
    <3>3. pass' \in Records BY <3>1, <3>2 DEF Records
    <3>4. QED BY <1>0, <3>3
  <2>4. CASE ReadLogs
    <3>1. pass \in Records BY <2>4, PassTypes DEF ReadLogs
    <3> DEFINE quiet == {p \in pass.listed : ~LogSaysWaiting(p)}
    <3>2. Cardinality(quiet) \in 0 .. Size
      <4>1. quiet \in SUBSET Pods BY <3>1 DEF Records
      <4>2. IsFiniteSet(Pods) /\ Cardinality(Pods) = Size
        <5>1. 0 \in Int /\ Size - 1 \in Int BY SizeAssumption DEF SizeAssumption
        <5>2. QED BY <5>1, FS_Interval, SizeAssumption DEF SizeAssumption, Pods
      <4>3. QED BY <4>1, <4>2, FS_Subset, FS_CardinalityType
    <3>3. pass' = [pass EXCEPT !.pc = "write", !.listed = {}, !.ready = Cardinality(quiet)]
      BY <2>4 DEF ReadLogs
    <3> HIDE DEF quiet
    <3>4. pass' \in Records BY <3>1, <3>2, <3>3 DEF Records
    <3>5. QED BY <1>0, <3>4
  <2>5. CASE WriteStatus \/ ReportError BY <1>0, <2>5 DEF WriteStatus, ReportError
  <2>6. QED BY <1>2, <2>1, <2>2, <2>3, <2>4, <2>5 DEF PassStep
<1>3. CASE CallFails
  <2>1. pass \in Records BY <1>3, PassTypes DEF CallFails
  <2>2. pass' = Idle \/ pass' \in Records BY <1>3, <2>1 DEF CallFails, Records
  <2>3. QED BY <1>0, <2>2
<1>4. CASE Dies BY <1>0, <1>4 DEF Dies
<1>5. CASE Next /\ ~Begin /\ ~PassStep /\ ~CallFails /\ ~Dies BY <1>5, PassAlone DEF Typed
<1>6. CASE UNCHANGED vars BY <1>6 DEF vars, Typed
<1>7. QED BY <1>1, <1>2, <1>3, <1>4, <1>5, <1>6

\* What the pods and the two counters of transactions may become.
Others ==
    /\ node \in [Pods -> Nodes] /\ signalled \subseteq Pods
    /\ data \in [Pods -> 0 .. MaxCommits] /\ committed \in 0 .. MaxCommits

LEMMA TypedStep ==
    ASSUME IInv, [Next]_vars
    PROVE  Typed'
<1> USE PodsType DEF Becomes
<1>1. Typed /\ pass' \in Passes /\ MaxCommits \in Nat
  BY PassTyped, BoundsAssumption DEF IInv, BoundsAssumption
<1>2. ASSUME NEW p \in Pods, Start(p) \/ PrintLastLine(p) \/ Place(p) PROVE Others'
  BY <1>1, <1>2 DEF Others, Typed, Start, PrintLastLine, Place, Nodes
<1>3. ASSUME NEW p \in Pods, FindPrimary(p) \/ NodeRecovery(p) \/ Bootstrap(p) PROVE Others'
  BY <1>1, <1>3 DEF Others, Typed, FindPrimary, NodeRecovery, Bootstrap, Nodes
<1>4. ASSUME NEW p \in Pods, Join(p) PROVE Others'
  <2>1. PrimaryExists => reach = committed
    <3>1. PrimaryExists => ~Waiting /\ ~Bootstrapping
      BY DEF PrimaryExists, Synced, Waiting, Quiet, Bootstrapping, Stalled
    <3>2. QED BY <3>1 DEF IInv, Serving
  <2>2. QED BY <1>1, <1>4, <2>1 DEF Others, Typed, Join, Nodes
<1>5. ASSUME NEW p \in Pods, Commit(p) \/ Apply(p) PROVE Others'
  <2>1. Serving
    <3>1. PrimaryExists BY <1>5 DEF Commit, Apply, PrimaryExists
    <3>2. QED BY <3>1 DEF IInv, PrimaryExists, Synced, Waiting, Quiet, Bootstrapping, Stalled
  <2>2. reach = committed /\ data[p] \in 0 .. MaxCommits /\ committed \in 0 .. MaxCommits
    BY <1>1, <2>1 DEF Serving, Typed
  <2>3. data[p] + 1 \in 0 .. MaxCommits /\ committed' \in 0 .. MaxCommits
    BY <1>1, <1>5, <2>2 DEF Commit, Apply
  <2>4. data' = [data EXCEPT ![p] = data[p] + 1] /\ UNCHANGED <<node, signalled>>
    BY <1>5 DEF Commit, Apply
  <2>5. QED BY <1>1, <2>3, <2>4 DEF Others, Typed
<1>6. ASSUME Crash PROVE Others' BY <1>1, <1>6 DEF Others, Typed, Crash, Nodes
<1>7. ASSUME SendSignal PROVE Others'
  <2>1. pass \in Records BY <1>1, <1>7, PassTypes DEF SendSignal
  <2>2. pass.maxPod \in Pods BY <2>1 DEF Records
  <2>3. QED BY <1>1, <1>7, <2>2 DEF Others, Typed, SendSignal, Exec
<1>8. ASSUME UNCHANGED pods PROVE Others' BY <1>1, <1>8 DEF Others, Typed, pods
<1>9. DOMAIN view' = Pods
  <2>1. ASSUME NEW p \in Pods, PodStep(p) \/ Commit(p) \/ Apply(p) PROVE DOMAIN view' = Pods
    BY <1>1, <2>1 DEF Typed, PodStep, Start, PrintLastLine, FindPrimary, NodeRecovery, Bootstrap,
                      Join, Place, Commit, Apply
  <2>2. CASE Crash \/ SendSignal \/ UNCHANGED pods BY <1>1, <2>2 DEF Typed, Crash, SendSignal, pods
  <2>3. QED BY <2>1, <2>2, PodsAlone
<1>10. Others'
  <2>1. ASSUME NEW p \in Pods, PodStep(p) \/ Commit(p) \/ Apply(p) PROVE Others'
    BY <1>2, <1>3, <1>4, <1>5, <2>1, Zenon DEF PodStep
  <2>2. CASE ~SendSignal /\ ~Crash /\ ~ \E p \in Pods : PodStep(p) \/ Commit(p) \/ Apply(p)
    <3>1. UNCHANGED pods BY <2>2, PodsAlone
    <3>2. QED BY <1>8, <3>1
  <2>3. QED BY <1>6, <1>7, <2>1, <2>2, Zenon
<1>11. QED BY <1>1, <1>9, <1>10 DEF Typed, Others
-----------------------------------------------------------------------------
(* Who bootstraps.                                                          *)

\* Where there is a primary the cluster serves.
LEMMA PrimaryServes ==
    ASSUME IInv, PrimaryExists
    PROVE  Serving
BY DEF IInv, PrimaryExists, Synced, Waiting, Quiet, Bootstrapping, Stalled

\* A pod to bootstrap is the only one, and has all that was acknowledged.
LEMMA OnlyNewest ==
    ASSUME Typed, Durable, NEW p \in Pods, Newest(p)
    PROVE  data[p] = committed /\ \A q \in Pods : Newest(q) => q = p
<1> USE PodsType
<1>1. PICK q \in Pods : data[q] = committed BY DEF Durable
<1>2. data \in [Pods -> 0 .. MaxCommits] /\ MaxCommits \in Nat /\ committed \in 0 .. MaxCommits
  BY BoundsAssumption DEF Typed, BoundsAssumption
<1>3. data[p] = committed BY <1>1, <1>2 DEF Newest, Durable
<1>4. ASSUME NEW r \in Pods, Newest(r) PROVE r = p
  <2>1. data[r] \in Nat /\ data[p] \in Nat /\ r \in Int /\ p \in Int BY <1>2
  <2>2. data[p] < data[r] \/ (data[p] = data[r] /\ r <= p) BY <1>4 DEF Newest
  <2>3. data[r] < data[p] \/ (data[r] = data[p] /\ p <= r) BY DEF Newest
  <2>4. QED BY <2>1, <2>2, <2>3
<1>5. QED BY <1>3, <1>4

\* A cluster that serves goes on.
LEMMA ServesOn ==
    ASSUME Serving, signalled' = {}, reach' = committed',
           \E q \in Pods : node'[q] = "synced",
           \A q \in Pods : node'[q] # "bootstrapping",
           \A q \in Pods : node'[q] = "synced" => \E r \in Synced : view'[q] = view[r]
    PROVE  Serving'
<1>1. OneCluster' BY DEF Serving, OneCluster, Synced
<1>2. PrimaryExists' BY DEF PrimaryExists, Synced
<1>3. QED BY <1>1, <1>2 DEF Serving

\* A crash takes all pods, or leaves the larger part of those that serve.
LEMMA CrashTakes ==
    ASSUME Crash
    PROVE  \E down \in Crashes : \E homeless \in SUBSET Pods :
             /\ homeless \subseteq down
             /\ \/ down = Pods
                \/ 2 * Cardinality(Synced \ down)
                     > Cardinality({q \in Pods : node[q] \in {"synced", "joining"}})
             /\ node' = [q \in Pods |-> IF q \in homeless THEN "pending"
                                       ELSE IF q \in down THEN "starting" ELSE node[q]]
             /\ view' = [q \in Pods |-> IF q \in down THEN 0 ELSE view[q]]
             /\ signalled' = signalled \ down
BY PodsType DEF Crash

LEMMA RolesStep ==
    ASSUME IInv, [Next]_vars
    PROVE  Waiting' \/ Bootstrapping' \/ Serving'
<1> USE DEF Becomes
<1>0. /\ Typed /\ Durable /\ node \in [Pods -> Nodes] /\ signalled \subseteq Pods
      /\ Waiting \/ Bootstrapping \/ Serving
      /\ PrimaryExists => Serving
      /\ Serving => PrimaryExists /\ Synced # {}
  BY PrimaryServes DEF IInv, Typed, Serving, PrimaryExists
<1>1. CASE UNCHANGED pods
  BY <1>0, <1>1 DEF pods, Waiting, Quiet, Stalled, Deaf, Newest, Bootstrapping, Serving,
                    PrimaryExists, Synced, OneCluster
<1>2. ASSUME NEW p \in Pods, Start(p) \/ PrintLastLine(p) \/ Place(p)
      PROVE  Waiting' \/ Bootstrapping' \/ Serving'
  <2>1. /\ node[p] \in {"starting", "armed", "pending"}
        /\ node'[p] \in {"starting", "armed", "waiting", "joining"}
        /\ node'[p] = "joining" => PrimaryExists
        /\ node[p] = "armed" => node'[p] = "waiting"
        /\ \A q \in Pods \ {p} : node'[q] = node[q]
        /\ UNCHANGED <<signalled, data, view, committed, reach>>
    BY <1>0, <1>2 DEF Start, PrintLastLine, Place
  <2>2. CASE Serving
    <3>1. \A q \in Pods : node'[q] = "synced" <=> node[q] = "synced" BY <2>1
    <3>2. QED BY <1>0, <2>1, <2>2, <3>1, ServesOn DEF Serving, Synced
  <2>3. CASE Waiting /\ ~Serving
    BY <1>0, <2>1, <2>3 DEF Waiting, Quiet, Stalled, Deaf, Newest
  <2>4. CASE Bootstrapping /\ ~Serving
    BY <1>0, <2>1, <2>4 DEF Bootstrapping, Stalled
  <2>5. QED BY <1>0, <2>2, <2>3, <2>4
<1>3. ASSUME NEW p \in Pods, FindPrimary(p) PROVE Serving'
  <2>1. Serving /\ node'[p] = "starting" /\ node[p] = "waiting"
    BY <1>0, <1>3 DEF FindPrimary
  <2>2. /\ \A q \in Pods : node'[q] = "synced" <=> node[q] = "synced"
        /\ \A q \in Pods : node'[q] # "bootstrapping"
    BY <1>0, <1>3, <2>1 DEF FindPrimary, Serving
  <2>3. QED BY <1>0, <1>3, <2>1, <2>2, ServesOn DEF FindPrimary, Serving, Synced
<1>4. ASSUME NEW p \in Pods, NodeRecovery(p) PROVE Bootstrapping'
  <2>1. Waiting /\ Newest(p) BY <1>0, <1>4 DEF NodeRecovery, Waiting, Bootstrapping, Serving
  <2>2. data[p] = committed /\ signalled' = {}
    <3>1. \A q \in signalled : Newest(q) BY <2>1 DEF Waiting
    <3>2. QED BY <1>0, <1>4, <2>1, <3>1, OnlyNewest DEF NodeRecovery
  <2>3. \A q \in Pods \ {p} : Stalled(q)' BY <1>0, <1>4, <2>1 DEF NodeRecovery, Waiting, Quiet, Stalled
  <2>4. QED BY <1>0, <1>4, <2>2, <2>3 DEF NodeRecovery, Bootstrapping
<1>5. ASSUME NEW p \in Pods, Bootstrap(p) PROVE Serving'
  <2>1. node[p] = "bootstrapping" /\ ~Waiting /\ ~Serving
    BY <1>5 DEF Bootstrap, Waiting, Quiet, Stalled, Serving
  <2>2. signalled = {} /\ data[p] = committed /\ \A q \in Pods \ {p} : Stalled(q)
    BY <1>0, <2>1 DEF Bootstrapping, Stalled
  <2>3. /\ node'[p] = "synced" /\ \A q \in Pods \ {p} : node'[q] = node[q]
        /\ reach' = data[p] /\ UNCHANGED <<signalled, committed>>
    BY <1>0, <1>5 DEF Bootstrap
  <2>4. Synced' = {p} BY <2>2, <2>3 DEF Synced, Stalled
  <2>5. QED BY <2>2, <2>3, <2>4 DEF Serving, PrimaryExists, OneCluster, Stalled
<1>6. ASSUME NEW p \in Pods, Join(p) PROVE Serving' \/ Waiting' \/ Bootstrapping'
  <2>1. Serving BY <1>0, <1>6 DEF Join, Waiting, Quiet, Bootstrapping, Stalled
  <2>2. PICK r \in Synced : view' = [view EXCEPT ![p] = view[r]]
    BY <1>0, <1>6, <2>1 DEF Join
  <2>3. /\ node'[p] = "synced" /\ \A q \in Pods \ {p} : node'[q] = node[q]
        /\ UNCHANGED <<signalled, committed, reach>>
    BY <1>0, <1>6, <2>1 DEF Join
  <2>4. \A q \in Pods : node'[q] = "synced" => \E x \in Synced : view'[q] = view[x]
    BY <1>0, <2>2, <2>3 DEF Synced, Typed
  <2>5. QED BY <2>1, <2>3, <2>4, ServesOn DEF Serving
<1>7. ASSUME NEW p \in Pods, Commit(p) \/ Apply(p) PROVE Serving'
  <2>1. Serving BY <1>0, <1>7 DEF Commit, Apply, PrimaryExists
  <2>2. UNCHANGED <<node, signalled, view>> /\ reach' = committed'
    BY <1>7, <2>1 DEF Commit, Apply, Serving
  <2>3. QED BY <1>0, <2>1, <2>2, ServesOn DEF Serving, Synced
<1>8. CASE Crash
  <2>1. PICK down \in Crashes : \E homeless \in SUBSET Pods :
          /\ homeless \subseteq down
          /\ \/ down = Pods
             \/ 2 * Cardinality(Synced \ down)
                  > Cardinality({q \in Pods : node[q] \in {"synced", "joining"}})
          /\ node' = [q \in Pods |-> IF q \in homeless THEN "pending"
                                    ELSE IF q \in down THEN "starting" ELSE node[q]]
          /\ view' = [q \in Pods |-> IF q \in down THEN 0 ELSE view[q]]
          /\ signalled' = signalled \ down
    BY <1>8, CrashTakes
  <2>2. UNCHANGED <<data, committed, reach>> BY <1>8 DEF Crash
  <2>3. CASE down = Pods
    <3>1. \A q \in Pods : node'[q] \in {"pending", "starting"} BY <2>1, <2>3
    <3>2. signalled' = {} BY <1>0, <2>1, <2>3
    <3>3. QED BY <3>1, <3>2 DEF Waiting, Quiet, Stalled
  <2>4. CASE down # Pods
    <3>1. \E q \in Pods : q \in Synced \ down
      <4>1. IsFiniteSet(Pods)
        <5>1. 0 \in Int /\ Size - 1 \in Int BY SizeAssumption DEF SizeAssumption
        <5>2. QED BY <5>1, FS_Interval DEF Pods
      <4>2. {q \in Pods : node[q] \in {"synced", "joining"}} \in SUBSET Pods OBVIOUS
      <4>3. Cardinality({q \in Pods : node[q] \in {"synced", "joining"}}) \in Nat
        BY <4>1, <4>2, FS_Subset, FS_CardinalityType
      <4>4. Synced \ down # {}
        <5>1. SUFFICES ASSUME Synced \ down = {} PROVE FALSE
          OBVIOUS
        <5>2. Cardinality(Synced \ down) = 0 BY <5>1, FS_EmptySet
        <5>3. QED BY <2>1, <2>4, <4>3, <5>2
      <4>5. QED BY <4>4 DEF Synced
    <3>2. \A q \in Pods : node'[q] = "synced" => node[q] = "synced" /\ view'[q] = view[q]
      BY <2>1
    <3>3. \E q \in Pods : node'[q] = "synced" BY <2>1, <3>1 DEF Synced
    <3>4. \A q \in Pods : node'[q] = "bootstrapping" => node[q] = "bootstrapping" BY <2>1
    <3>5. Serving BY <1>0, <3>1 DEF PrimaryExists
    <3>6. signalled' = {} /\ reach' = committed' BY <2>1, <2>2, <3>5 DEF Serving
    <3>7. QED BY <3>2, <3>3, <3>4, <3>5, <3>6, ServesOn DEF Serving, Synced
  <2>5. QED BY <2>3, <2>4
<1>9. CASE SendSignal
  <2>1. /\ pass.pc = "exec" /\ UNCHANGED <<node, data, view, committed, reach>>
        /\ signalled' = signalled
           \/ (signalled' = signalled \cup {pass.maxPod} /\ ~Deaf(pass.maxPod))
    BY <1>9 DEF SendSignal, Exec, Deaf
  <2>2. Steady \/ Futile BY <2>1 DEF IInv, Scans, Scanning
  <2>3. CASE signalled' = signalled
    BY <1>0, <2>1, <2>3 DEF Waiting, Quiet, Stalled, Deaf, Newest, Bootstrapping, Serving,
                            PrimaryExists, Synced, OneCluster
  <2>4. CASE signalled' = signalled \cup {pass.maxPod} /\ ~Deaf(pass.maxPod)
    <3>1. ~Futile BY <2>1, <2>4 DEF Futile, Read
    <3>2. Steady BY <2>2, <3>1
    <3>3. Waiting BY <1>0, <3>2 DEF Steady, Quiet, Stalled, Bootstrapping, Serving, PrimaryExists, Synced
    <3>4. Newest(pass.maxPod) BY <2>1, <3>2, PodsType DEF Steady, Read, Newest
    <3>5. QED BY <2>1, <2>4, <3>3, <3>4 DEF Waiting, Quiet, Stalled, Deaf, Newest
  <2>5. QED BY <2>1, <2>3, <2>4
<1>10. QED BY <1>1, <1>2, <1>3, <1>4, <1>5, <1>6, <1>7, <1>8, <1>9, PodsAlone DEF PodStep

LEMMA DurableStep ==
    ASSUME IInv, [Next]_vars
    PROVE  Durable'
<1>1. /\ data \in [Pods -> 0 .. MaxCommits] /\ committed \in 0 .. MaxCommits /\ MaxCommits \in Nat
      /\ Durable
  BY BoundsAssumption DEF IInv, Typed, BoundsAssumption
<1>2. CASE UNCHANGED <<data, committed>> BY <1>1, <1>2 DEF Durable
<1>3. ASSUME NEW p \in Pods, Join(p), PrimaryExists PROVE Durable'
  <2>1. reach = committed BY <1>3, PrimaryServes DEF Serving
  <2>2. data' = [data EXCEPT ![p] = committed] /\ committed' = committed
    BY <1>3, <2>1 DEF Join
  <2>3. QED BY <1>1, <2>2 DEF Durable
<1>4. ASSUME NEW p \in Pods, Commit(p) PROVE Durable'
  <2>1. reach = committed BY <1>4, PrimaryServes DEF Serving, Commit, PrimaryExists
  <2>2. data' = [data EXCEPT ![p] = committed + 1] /\ committed' = committed + 1
    BY <1>1, <1>4, <2>1 DEF Commit
  <2>3. \A q \in Pods : data[q] \in Nat /\ data'[q] <= committed + 1 BY <1>1, <2>2 DEF Durable
  <2>4. data'[p] = committed' BY <1>1, <2>2
  <2>5. QED BY <2>2, <2>3, <2>4 DEF Durable
<1>5. ASSUME NEW p \in Pods, Apply(p) PROVE Durable'
  <2>1. reach = committed BY <1>5, PrimaryServes DEF Serving, Apply, PrimaryExists
  <2>2. data[p] < committed /\ data' = [data EXCEPT ![p] = data[p] + 1] /\ committed' = committed
    BY <1>5, <2>1 DEF Apply
  <2>3. PICK q \in Pods : data[q] = committed BY <1>1 DEF Durable
  <2>4. q # p /\ data'[q] = committed BY <1>1, <2>2, <2>3
  <2>5. \A x \in Pods : data'[x] <= committed BY <1>1, <2>2 DEF Durable
  <2>6. QED BY <2>2, <2>4, <2>5 DEF Durable
<1>6. ASSUME NEW p \in Pods, PodStep(p), ~(Join(p) /\ PrimaryExists) PROVE UNCHANGED <<data, committed>>
  BY <1>6 DEF PodStep, Start, PrintLastLine, FindPrimary, NodeRecovery, Bootstrap, Join, Place
<1>7. CASE Crash \/ SendSignal \/ UNCHANGED pods
  BY <1>2, <1>7 DEF Crash, SendSignal, pods
<1>8. QED BY <1>2, <1>3, <1>4, <1>5, <1>6, <1>7, PodsAlone
-----------------------------------------------------------------------------
(* The scan.                                                                *)

\* Until the signal a pod that is deaf to it stays so, and the others keep what they have.
LEMMA FutileKept ==
    ASSUME Futile, pass' = pass, \A p \in Pods : Deaf(p) => Deaf(p)',
           \A p \in Pods : Deaf(p)' \/ data'[p] = data[p]
    PROVE  Futile'
<1>1. PICK p \in Pods :
        /\ Deaf(p)
        /\ ~Read(p) \/ (p = pass.maxPod /\ \A q \in Pods : Read(q) \/ Deaf(q) \/ data[q] <= pass.maxSeq)
  BY DEF Futile
<1>2. \A q \in Pods : Read(q)' = Read(q) BY DEF Read
<1>3. Deaf(p)' BY <1>1
<1>4. CASE ~Read(p) BY <1>2, <1>3, <1>4 DEF Futile
<1>5. CASE p = pass.maxPod /\ \A q \in Pods : Read(q) \/ Deaf(q) \/ data[q] <= pass.maxSeq
  <2>1. \A q \in Pods : (Read(q) \/ Deaf(q) \/ data[q] <= pass.maxSeq)' BY <1>2, <1>5
  <2>2. QED BY <1>3, <1>5, <2>1 DEF Futile
<1>6. QED BY <1>1, <1>4, <1>5

\* The choice between two pods.
Before(p, q) == data[q] < data[p] \/ (data[q] = data[p] /\ p <= q)

\* The reading of one log.
LEMMA ScanStep ==
    ASSUME IInv, Scan
    PROVE  Scans'
<1> USE PodsType
<1>k. PICK k : k = pass.i OBVIOUS
<1>1. pass \in Records /\ pass.pc = "scan" /\ pass' = Scanned(k) /\ UNCHANGED <<node, data>>
  <2>1. pass.pc = "scan" /\ pass' = Scanned(k) /\ UNCHANGED <<node, data>>
    BY <1>k DEF Scan, Still, pods
  <2>2. QED BY <2>1, PassTypes DEF IInv
<1>2. /\ k \in Pods /\ k \in Int /\ pass.maxPod \in Pods /\ pass.maxPod \in Int /\ Size \in Int
      /\ \A q \in Pods : q \in Int /\ data[q] \in Nat
      /\ pass.maxSeq = NoSeq \/ pass.maxSeq \in Nat
  <2>1. data \in [Pods -> 0 .. MaxCommits] /\ MaxCommits \in Nat
    BY BoundsAssumption DEF IInv, Typed, BoundsAssumption
  <2>2. pass.i \in Pods /\ pass.maxPod \in Pods /\ pass.maxSeq \in {NoSeq} \cup 0 .. MaxCommits
    BY <1>1 DEF Records
  <2>3. \A q \in Pods : q \in Int /\ data[q] \in Nat BY <2>1
  <2>4. pass.maxSeq = NoSeq \/ pass.maxSeq \in Nat BY <2>1, <2>2
  <2>5. Size \in Int BY SizeAssumption DEF SizeAssumption
  <2>6. QED BY <1>k, <2>2, <2>3, <2>4, <2>5
<1>3. CASE ~LogSaysWaiting(k)
  <2>1. pass'.pc = "list" BY <1>k, <1>1, <1>3 DEF Scanned, Records
  <2>2. QED BY <2>1 DEF Scans, Scanning
<1>4. CASE LogSaysWaiting(k)
  <2> DEFINE better == data[k] > pass.maxSeq
             found == IF better THEN [pass EXCEPT !.maxSeq = data[k], !.maxPod = k] ELSE pass
  <2>1. pass' = NextPod(found, "exec") BY <1>k, <1>1, <1>4 DEF Scanned
  <2>2. /\ pass'.maxSeq = IF better THEN data[k] ELSE pass.maxSeq
        /\ pass'.maxPod = IF better THEN k ELSE pass.maxPod
        /\ \/ k < Size - 1 /\ pass'.pc = "scan" /\ pass'.i = k + 1
           \/ k = Size - 1 /\ pass'.pc = "exec"
    <3>1. data[k] \in 0 .. MaxCommits BY <1>2 DEF IInv, Typed
    <3>2. /\ found \in [pc: {"scan"}, i: {k}, maxSeq: {NoSeq} \cup 0 .. MaxCommits, maxPod: Pods,
                        listed: SUBSET Pods, pending: BOOLEAN, ready: 0 .. Size, failed: BOOLEAN]
          /\ found.maxSeq = IF better THEN data[k] ELSE pass.maxSeq
          /\ found.maxPod = IF better THEN k ELSE pass.maxPod
      BY <1>k, <1>1, <1>2, <3>1 DEF Records
    <3> HIDE DEF found
    <3>3. QED BY <1>k, <1>2, <2>1, <3>2 DEF NextPod
  <2>3. \A q \in Pods : (Read(q) <=> q < k) /\ (Read(q)' <=> q < k \/ q = k)
    BY <1>k, <1>1, <1>2, <2>2 DEF Read
  <2>4. node[k] = "waiting" /\ ~Deaf(k) BY <1>4 DEF LogSaysWaiting, Deaf
  <2>5. \A q \in Pods : Deaf(q)' = Deaf(q) BY <1>1 DEF Deaf
  <2>6. pass'.pc \notin {"running", "first"} BY <2>2
  <2> HIDE DEF better, found
  <2>7. CASE Futile
    <3>1. PICK p \in Pods :
            /\ Deaf(p)
            /\ ~Read(p) \/ (p = pass.maxPod /\ \A q \in Pods : Read(q) \/ Deaf(q) \/ data[q] <= pass.maxSeq)
      BY <2>7 DEF Futile
    <3>2. CASE ~Read(p)
      <4>1. ~Read(p)' BY <2>3, <2>4, <3>1, <3>2
      <4>2. Futile' BY <2>5, <3>1, <4>1 DEF Futile
      <4>3. QED BY <2>6, <4>2 DEF Scans
    <3>3. CASE p = pass.maxPod /\ \A q \in Pods : Read(q) \/ Deaf(q) \/ data[q] <= pass.maxSeq
      <4>1. ~Read(k) BY <1>2, <2>3
      <4>2. data[k] <= pass.maxSeq BY <1>2, <2>4, <3>3, <4>1
      <4>3. ~better BY <1>2, <4>2 DEF better, NoSeq
      <4>4. pass'.maxPod = p /\ pass'.maxSeq = pass.maxSeq BY <2>2, <3>3, <4>3
      <4>5. ASSUME NEW q \in Pods PROVE (Read(q) \/ Deaf(q) \/ data[q] <= pass.maxSeq)'
        BY <1>1, <2>3, <2>5, <3>3, <4>4
      <4>6. Futile' BY <2>5, <3>1, <4>4, <4>5 DEF Futile
      <4>7. QED BY <2>6, <4>6 DEF Scans
    <3>4. QED BY <3>1, <3>2, <3>3
  <2>8. CASE Steady
    <3>1. Quiet' /\ \A q \in Pods : Read(q)' => node'[q] = "waiting"
      BY <1>1, <2>3, <2>4, <2>8 DEF Steady, Quiet, Stalled
    <3>2. Read(k)' BY <1>2, <2>3
    <3>3. ASSUME NEW m \in Pods, pass'.maxPod = m, pass'.maxSeq = data[m], Read(m)',
                 \A q \in Pods : Read(q)' => Before(m, q)
          PROVE  Scans'
      <4>1. \E q \in Pods : Read(q)' BY <3>2, <1>2
      <4>2. Steady' BY <1>1, <3>1, <3>3, <4>1 DEF Steady, Before
      <4>3. QED BY <2>6, <4>2 DEF Scans
    <3>4. \A q \in Pods : q < k => /\ Read(q) /\ pass.maxSeq = data[pass.maxPod]
                                   /\ Read(pass.maxPod) /\ Before(pass.maxPod, q)
      <4>1. ASSUME NEW q \in Pods, Read(q)
            PROVE  pass.maxSeq = data[pass.maxPod] /\ Read(pass.maxPod) /\ Before(pass.maxPod, q)
        BY <2>8, <4>1 DEF Steady, Before
      <4>2. QED BY <2>3, <4>1
    <3>5. CASE better
      <4>1. pass'.maxPod = k /\ pass'.maxSeq = data[k] BY <2>2, <3>5
      <4>2. ASSUME NEW q \in Pods, Read(q)' PROVE Before(k, q)
        <5>1. CASE q = k BY <1>2, <5>1 DEF Before
        <5>2. CASE q < k
          <6>1. data[q] <= data[pass.maxPod] /\ data[pass.maxPod] < data[k]
            BY <1>2, <3>4, <3>5, <5>2 DEF Before, better
          <6>2. data[q] \in Nat /\ data[pass.maxPod] \in Nat /\ data[k] \in Nat BY <1>2
          <6>3. QED BY <6>1, <6>2 DEF Before
        <5>3. QED BY <2>3, <4>2, <5>1, <5>2
      <4>3. QED BY <1>2, <3>2, <3>3, <4>1, <4>2
    <3>6. CASE ~better
      <4>1. \E q \in Pods : Read(q)
        <5>1. pass.maxSeq # NoSeq BY <1>2, <3>6 DEF NoSeq, better
        <5>2. QED BY <2>8, <5>1 DEF Steady
      <4>2. PICK r \in Pods : r < k BY <2>3, <4>1
      <4>3. Read(pass.maxPod) /\ pass.maxSeq = data[pass.maxPod] BY <3>4, <4>2
      <4>4. pass.maxPod < k /\ data[k] <= data[pass.maxPod]
        <5>1. pass.maxPod < k BY <1>2, <2>3, <4>3
        <5>2. QED BY <1>2, <3>6, <4>3, <5>1 DEF better
      <4>5. pass'.maxPod = pass.maxPod /\ pass'.maxSeq = data[pass.maxPod] BY <2>2, <3>6, <4>3
      <4>6. ASSUME NEW q \in Pods, Read(q)' PROVE Before(pass.maxPod, q)
        <5>1. CASE q = k
          <6>1. data[k] \in Nat /\ data[pass.maxPod] \in Nat BY <1>2
          <6>2. QED BY <1>2, <4>4, <5>1, <6>1 DEF Before
        <5>2. CASE q < k BY <3>4, <5>2
        <5>3. QED BY <2>3, <4>6, <5>1, <5>2
      <4>7. PICK m \in Pods : m = pass.maxPod BY <1>2
      <4>8. Read(m)' BY <1>2, <2>3, <4>4, <4>7
      <4>9. QED BY <3>3, <4>5, <4>6, <4>7, <4>8
    <3>7. QED BY <3>5, <3>6
  <2>9. QED BY <1>1, <2>7, <2>8 DEF IInv, Scans, Scanning
<1>5. QED BY <1>3, <1>4

\* What the pods do during a scan leaves a futile one futile...
LEMMA PodsGoOn ==
    ASSUME IInv, Scanning, Futile, pass' = pass,
           Crash \/ \E p \in Pods : PodStep(p) \/ Commit(p) \/ Apply(p)
    PROVE  Futile'
<1> USE DEF Becomes
<1>1. node \in [Pods -> Nodes] /\ data \in [Pods -> 0 .. MaxCommits] BY DEF IInv, Typed
<1>2. CASE Crash
  <2>1. data' = data /\ \A q \in Pods : node'[q] = node[q] \/ node'[q] \in {"pending", "starting"}
    BY <1>2 DEF Crash
  <2>2. QED BY <2>1, FutileKept DEF Deaf
<1>3. ASSUME NEW p \in Pods, PodStep(p) \/ Commit(p) \/ Apply(p)
      PROVE  /\ \A q \in Pods : Deaf(q) => Deaf(q)'
             /\ \A q \in Pods : Deaf(q)' \/ data'[q] = data[q]
  <2>1. CASE PrintLastLine(p) \/ Place(p) BY <1>1, <2>1 DEF PrintLastLine, Place, Deaf
  <2>2. CASE FindPrimary(p) \/ NodeRecovery(p) \/ Bootstrap(p)
    BY <1>1, <2>2 DEF FindPrimary, NodeRecovery, Bootstrap, Deaf
  <2>3. CASE Join(p)
    <3>1. /\ node'[p] \in {"synced", "starting"}
          /\ \A q \in Pods \ {p} : node'[q] = node[q] /\ data'[q] = data[q]
      BY <1>1, <2>3 DEF Join
    <3>2. QED BY <3>1 DEF Deaf
  <2>4. CASE Commit(p) \/ Apply(p)
    <3>1. node[p] = "synced" /\ node' = node /\ \A q \in Pods \ {p} : data'[q] = data[q]
      BY <1>1, <2>4 DEF Commit, Apply, Synced
    <3>2. QED BY <3>1 DEF Deaf
  <2>5. CASE Start(p) BY <2>5 DEF Start
  <2>6. QED BY <1>3, <2>1, <2>2, <2>3, <2>4, <2>5 DEF PodStep
<1>4. QED BY <1>2, <1>3, FutileKept

\* ... and only the end of a wait makes a steady one futile: the signal of an
\* earlier pass, or another crash.
LEMMA PodsGoOnSteadily ==
    ASSUME IInv, Scanning, Steady, pass' = pass,
           Crash \/ \E p \in Pods : PodStep(p) \/ Commit(p) \/ Apply(p)
    PROVE  Steady' \/ Futile'
<1> USE PodsType DEF Becomes
<1>1. node \in [Pods -> Nodes] /\ data \in [Pods -> 0 .. MaxCommits] /\ MaxCommits \in Nat
  BY BoundsAssumption DEF IInv, Typed, BoundsAssumption
<1>2. pass.maxPod \in Pods
  <2>1. pass \in Records BY PassTypes DEF IInv, Scanning
  <2>2. QED BY <2>1 DEF Records
<1>3. Quiet /\ Synced = {} /\ {p \in Pods : node[p] \in {"synced", "joining"}} = {}
  BY DEF Steady, Quiet, Stalled, Synced
<1>4. \A q \in Pods : Read(q)' = Read(q) BY DEF Read
<1>5. CASE Crash
  <2>1. PICK down \in Crashes : \E homeless \in SUBSET Pods :
          /\ homeless \subseteq down
          /\ \/ down = Pods
             \/ 2 * Cardinality(Synced \ down)
                  > Cardinality({q \in Pods : node[q] \in {"synced", "joining"}})
          /\ node' = [q \in Pods |-> IF q \in homeless THEN "pending"
                                    ELSE IF q \in down THEN "starting" ELSE node[q]]
    BY <1>5, CrashTakes
  <2>2. down = Pods
    <3>1. Synced \ down = {} BY <1>3
    <3>2. Cardinality(Synced \ down) = 0 BY <3>1, FS_EmptySet
    <3>3. Cardinality({q \in Pods : node[q] \in {"synced", "joining"}}) = 0 BY <1>3, FS_EmptySet
    <3>4. QED BY <2>1, <3>2, <3>3
  <2>3. \A q \in Pods : Deaf(q)' BY <2>1, <2>2 DEF Deaf
  <2>4. PICK m \in Pods : m = pass.maxPod BY <1>2
  <2>5. QED BY <2>3, <2>4 DEF Futile
<1>6. ASSUME NEW p \in Pods, PodStep(p) \/ Commit(p) \/ Apply(p) PROVE Steady' \/ Futile'
  <2>1. CASE PrintLastLine(p) \/ Place(p)
    <3>1. /\ node[p] # "waiting" /\ node'[p] \in {"waiting", "starting"}
          /\ \A q \in Pods \ {p} : node'[q] = node[q]
          /\ data' = data
      BY <1>1, <2>1 DEF PrintLastLine, Place
    <3>2. Quiet' BY <1>3, <3>1 DEF Quiet, Stalled
    <3>3. ASSUME NEW q \in Pods, Read(q)' PROVE node'[q] = "waiting"
      BY <1>4, <3>1, <3>3 DEF Steady
    <3>4. IF \E q \in Pods : Read(q)
          THEN /\ Read(pass.maxPod)' /\ pass'.maxSeq = data'[pass'.maxPod]
               /\ \A q \in Pods : Read(q)' =>
                    data'[q] < data'[pass'.maxPod]
                    \/ (data'[q] = data'[pass'.maxPod] /\ pass'.maxPod <= q)
          ELSE pass'.maxSeq = NoSeq
      BY <3>1, <1>2, <1>4 DEF Steady, Read
    <3>5. QED BY <1>4, <3>2, <3>3, <3>4 DEF Steady
  <2>2. CASE NodeRecovery(p)
    <3>1. data' = data /\ Deaf(p)' BY <1>1, <2>2 DEF NodeRecovery, Deaf
    <3>2. Newest(p)
      <4>1. ~Bootstrapping BY <1>3 DEF Quiet, Stalled, Bootstrapping
      <4>2. ~Serving BY <1>3 DEF Serving, PrimaryExists
      <4>3. QED BY <2>2, <4>1, <4>2 DEF IInv, Waiting, NodeRecovery
    <3>3. CASE ~Read(p) BY <1>4, <3>1, <3>3 DEF Futile
    <3>4. CASE Read(p)
      <4>1. /\ pass.maxSeq = data[pass.maxPod]
            /\ data[p] < data[pass.maxPod] \/ (data[p] = data[pass.maxPod] /\ pass.maxPod <= p)
        BY <3>4 DEF Steady
      <4>2. data[pass.maxPod] < data[p] \/ (data[pass.maxPod] = data[p] /\ p <= pass.maxPod)
        BY <1>2, <3>2 DEF Newest
      <4>3. \A q \in Pods : data[q] \in Nat /\ q \in Int BY <1>1
      <4>4. p = pass.maxPod
        <5>1. data[p] \in Nat /\ data[pass.maxPod] \in Nat /\ p \in Int /\ pass.maxPod \in Int
          BY <1>2, <4>3
        <5>2. QED BY <4>1, <4>2, <5>1
      <4>5. ASSUME NEW q \in Pods PROVE data[q] <= pass.maxSeq
        <5>1. data[q] \in Nat /\ data[p] \in Nat BY <4>3
        <5>2. data[q] < data[p] \/ data[q] = data[p] BY <3>2 DEF Newest
        <5>3. QED BY <4>1, <4>4, <5>1, <5>2
      <4>6. QED BY <3>1, <4>4, <4>5 DEF Futile
    <3>5. QED BY <3>3, <3>4
  <2>3. CASE FindPrimary(p) \/ Start(p) BY <1>3, <2>3 DEF FindPrimary, PrimaryExists, Start
  <2>4. CASE Bootstrap(p) \/ Join(p) BY <1>3, <2>4 DEF Bootstrap, Join, Quiet, Stalled
  <2>5. CASE Commit(p) \/ Apply(p) BY <1>3, <2>5 DEF Commit, Apply
  <2>6. QED BY <1>6, <2>1, <2>2, <2>3, <2>4, <2>5 DEF PodStep
<1>7. QED BY <1>5, <1>6

LEMMA ScansStep ==
    ASSUME IInv, [Next]_vars
    PROVE  Scans'
<1> USE DEF Go
<1>1. CASE Begin BY <1>1 DEF Begin, Scans, Scanning
<1>2. CASE CheckRunning
  <2>1. pass \in Records /\ pass.maxSeq = NoSeq
    BY <1>2, PassTypes DEF CheckRunning, IInv, Scans
  <2>2. pass'.pc \in {"first", "list"} /\ pass'.maxSeq = NoSeq
    BY <1>2, <2>1 DEF CheckRunning, Records
  <2>3. QED BY <2>2 DEF Scans, Scanning
<1>3. CASE CheckFirst
  <2>1. pass \in Records /\ pass.maxSeq = NoSeq BY <1>3, PassTypes DEF CheckFirst, IInv, Scans
  <2>2. pass'.pc \in {"scan", "list"} /\ pass'.i = 0 /\ pass'.maxSeq = NoSeq /\ node' = node
    BY <1>3, <2>1 DEF CheckFirst, Records, Still, pods
  <2>3. \A q \in Pods : ~Read(q)' BY <2>2, PodsType DEF Read
  <2>4. CASE Quiet BY <2>2, <2>3, <2>4 DEF Scans, Steady, Quiet, Stalled
  <2>5. CASE ~Quiet
    <3>1. PICK p \in Pods : ~Stalled(p) BY <2>5 DEF Quiet
    <3>2. Deaf(p)' BY <2>2, <3>1 DEF Deaf, Stalled
    <3>3. QED BY <2>2, <2>3, <3>2 DEF Scans, Futile
  <2>6. QED BY <2>4, <2>5
<1>4. CASE Scan BY <1>4, ScanStep
<1>5. CASE SendSignal \/ CallFails \/ Dies \/ ListPods \/ ReadLogs \/ WriteStatus \/ ReportError
  <2>1. CASE Dies \/ WriteStatus \/ ReportError
    BY <2>1 DEF Dies, WriteStatus, ReportError, Idle, Scans, Scanning
  <2>2. CASE SendSignal \/ CallFails \/ ListPods \/ ReadLogs
    <3>1. pass \in Records
      BY <2>2, PassTypes DEF SendSignal, CallFails, ListPods, ReadLogs, IInv
    <3>2. CASE CallFails
      <4>1. pass' = Idle \/ pass'.pc \in {"list", "write"} BY <3>1, <3>2 DEF CallFails, Records
      <4>2. QED BY <4>1 DEF Idle, Scans, Scanning
    <3>3. CASE SendSignal \/ ListPods \/ ReadLogs
      <4>1. pass'.pc \in {"list", "logs", "write"}
        BY <3>1, <3>3 DEF SendSignal, ListPods, ReadLogs, Records
      <4>2. QED BY <4>1 DEF Scans, Scanning
    <3>4. QED BY <2>2, <3>2, <3>3
  <2>3. QED BY <1>5, <2>1, <2>2
<1>6. CASE UNCHANGED <<pods, pass>>
  BY <1>6 DEF IInv, pods, Scans, Scanning, Steady, Futile, Quiet, Stalled, Deaf, Read
<1>7. CASE Crash \/ \E p \in Pods : PodStep(p) \/ Commit(p) \/ Apply(p)
  <2>1. pass' = pass
    BY <1>7 DEF Crash, PodStep, Start, PrintLastLine, FindPrimary, NodeRecovery, Bootstrap, Join,
                Place, Commit, Apply
  <2>2. pass'.pc \in {"running", "first"} => pass'.maxSeq = NoSeq BY <2>1 DEF IInv, Scans
  <2>3. Scanning' => Scanning /\ (Steady \/ Futile) BY <2>1 DEF IInv, Scans, Scanning
  <2>4. Scanning' => Steady' \/ Futile' BY <1>7, <2>1, <2>3, PodsGoOn, PodsGoOnSteadily
  <2>5. QED BY <2>2, <2>4 DEF Scans
<1>8. CASE ProxyFails \/ ProxyServes \/ RollOut \/ RolledOut \/ UNCHANGED vars
  BY <1>6, <1>8 DEF ProxyFails, ProxyServes, RollOut, RolledOut, vars
<1>9. QED BY <1>1, <1>2, <1>3, <1>4, <1>5, <1>7, <1>8 DEF Next, PassStep

LEMMA IInvInit == Init => IInv
<1> SUFFICES ASSUME Init PROVE IInv
  OBVIOUS
<1>1. Typed BY BoundsAssumption, PodsType DEF Init, Typed, Nodes, Passes, Idle, BoundsAssumption
<1>2. Durable BY PodsType DEF Init, Durable
<1>3. Serving BY PodsType DEF Init, Serving, PrimaryExists, Synced, OneCluster
<1>4. Scans BY DEF Init, Idle, Scans, Scanning
<1>5. QED BY <1>1, <1>2, <1>3, <1>4 DEF IInv

LEMMA IInvStep == IInv /\ [Next]_vars => IInv'
BY TypedStep, DurableStep, RolesStep, ScansStep DEF IInv

LEMMA IInvAlways == Spec => []IInv
BY IInvInit, IInvStep, PTL DEF Spec
-----------------------------------------------------------------------------
(* The results.                                                             *)

\* The pods that serve are one cluster: whatever pods crash, calls fail and
\* operators die, doFullCrashRecovery has no pod bootstrap a cluster next to
\* another.
THEOREM OneClusterAlways == Spec => []OneCluster
<1>1. IInv => OneCluster
  BY DEF IInv, Waiting, Quiet, Bootstrapping, Serving, OneCluster, Synced, Stalled
<1>2. QED BY <1>1, IInvAlways, PTL

\* A cluster that serves has every transaction that was acknowledged before the
\* crash: doFullCrashRecovery has bootstrapped a pod that holds them all.
THEOREM NothingIsLost == Spec => []NothingLost
<1>1. IInv => NothingLost BY PrimaryServes DEF NothingLost, Serving
<1>2. QED BY <1>1, IInvAlways, PTL
=============================================================================
