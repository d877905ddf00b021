---------------------------- MODULE ClusterHealth ----------------------------
(***************************************************************************)
(* A crash of the whole cluster and what the operator does about it        *)
(* (pkg/controller/pxc/full_crash_recovery.go), the entry point of the     *)
(* pods it talks to by their logs and a signal (build/pxc-entrypoint.sh),  *)
(* and the status the pass ends with (pkg/controller/pxc/status.go).       *)
(*                                                                         *)
(* The scan reads every log by a call of its own, while the pods go on;    *)
(* a container takes longer to start than the scan lasts.  Transactions    *)
(* are numbered as they are acknowledged to clients.                       *)
(***************************************************************************)
EXTENDS Integers, FiniteSets, Sequences, SequencesExt

CONSTANTS
    Size,                      \* spec.pxc.size
    Proxy,                     \* "none", "haproxy" or "proxysql"
    Crashes,                   \* the sets of pods that may crash at once
    MaxConditions,             \* maxStatusesQuantity
    MaxCommits, MaxMishaps

Pods == 0 .. Size - 1

ASSUME SizeAssumption == Size \in Nat \ {0}
ASSUME ProxyAssumption == Proxy \in {"none", "haproxy", "proxysql"}
ASSUME CrashesAssumption == Crashes \subseteq SUBSET Pods
ASSUME BoundsAssumption ==
    /\ MaxCommits \in Nat /\ MaxMishaps \in Nat
    /\ MaxConditions \in Nat \ {0}

VARIABLES
    node,        \* of each pod: what its container does
    signalled,   \* pods whose script has been sent USR1
    data,        \* the last transaction on each pod's volume
    view,        \* the primary component a synced pod belongs to; 0: none
    committed,   \* the last transaction that was acknowledged
    reach,       \* the last one that the pods of the primary component have received
    proxy,       \* the proxy's pods: "ready", "initializing" or "error"
    outdated,    \* the database's first pod, the last to be updated, is of an older revision
    state, pxc, front, conditions,  \* the status of the object
    pass,        \* the reconcile worker
    mishaps      \* crashes, failures and rollouts so far

pods     == <<node, signalled, data, view, committed, reach>>
around   == <<proxy, outdated>>
reported == <<state, pxc, front, conditions>>
vars == <<pods, around, reported, pass, mishaps>>

\* pending: no machine takes the pod.  starting: the entry point looks for a
\* primary.  armed: it waits for the signal; waiting: and its log says so.
Nodes == {"pending", "starting", "armed", "waiting", "bootstrapping", "joining", "synced"}
AppStates == {"initializing", "ready", "error"}
Types == {"Initializing", "Ready", "Error"}

\* Slip: the search starts with the smallest number a pod can have.
NoSeq_Zero == 0

\* maxSeq before any log is read.
NoSeq == -100
Idle  == [pc |-> "idle"]
Passes == {Idle} \cup
    [pc: {"running", "first", "scan", "exec", "list", "logs", "write"}, i: Pods,
     maxSeq: {NoSeq} \cup 0 .. MaxCommits, maxPod: Pods, listed: SUBSET Pods,
     pending: BOOLEAN, ready: 0 .. Size, failed: BOOLEAN]

TypeOK ==
    /\ node \in [Pods -> Nodes] /\ signalled \subseteq Pods
    /\ data \in [Pods -> 0 .. MaxCommits] /\ view \in [Pods -> 0 .. Size + 1]
    /\ committed \in 0 .. MaxCommits /\ reach \in 0 .. committed
    /\ proxy \in AppStates /\ outdated \in BOOLEAN
    /\ state \in AppStates \cup {"unknown", "Error"} /\ pxc \in AppStates /\ front \in AppStates
    /\ conditions \in Seq(Types) /\ Len(conditions) <= MaxConditions + 1
    /\ pass \in Passes
    /\ mishaps \in 0 .. MaxMishaps

Init ==
    /\ node = [p \in Pods |-> "synced"] /\ signalled = {}
    /\ data = [p \in Pods |-> 0] /\ view = [p \in Pods |-> 1]
    /\ committed = 0 /\ reach = 0
    /\ proxy = "ready" /\ outdated = FALSE
    /\ state = "ready" /\ pxc = "ready" /\ front = "ready" /\ conditions = <<"Ready">>
    /\ pass = Idle
    /\ mishaps = 0

Mishap == mishaps < MaxMishaps /\ mishaps' = mishaps + 1

Synced == {p \in Pods : node[p] = "synced"}

\* get_primary: some node answers that it is synced and primary.
PrimaryExists == Synced # {}

\* readiness-check.sh: synced and primary, or armed for recovery.
Ready(p) == node[p] \in {"armed", "waiting", "synced"}

IsPodRunning(p) == node[p] # "pending" /\ Ready(p)

\* isPodWaitingForRecovery: LAST_LINE is among the last lines of the log, until
\* node_recovery has written more, or the container is another one.
LogSaysWaiting(p) == node[p] = "waiting"
-----------------------------------------------------------------------------
(* The pods.                                                                *)

\* From the reading of the first log to the signal: no time to recover a position.
Scanning == pass.pc \in {"scan", "exec"}

Becomes(p, n) == node' = [node EXCEPT ![p] = n]

\* The entry point of a pod with data: join a primary if there is one.
Start(p) ==
    /\ node[p] = "starting" /\ ~Scanning
    /\ Becomes(p, IF PrimaryExists THEN "joining" ELSE "armed")
    /\ UNCHANGED <<signalled, data, view, committed, reach, around, reported, pass, mishaps>>

PrintLastLine(p) ==
    /\ node[p] = "armed"
    /\ Becomes(p, "waiting")
    /\ UNCHANGED <<signalled, data, view, committed, reach, around, reported, pass, mishaps>>

\* The endless loop; the container exits and is started again.
FindPrimary(p) ==
    /\ node[p] = "waiting" /\ PrimaryExists
    /\ Becomes(p, "starting")
    /\ signalled' = signalled \ {p}
    /\ UNCHANGED <<data, view, committed, reach, around, reported, pass, mishaps>>

\* node_recovery, on USR1.
NodeRecovery(p) ==
    /\ node[p] = "waiting" /\ p \in signalled
    /\ Becomes(p, "bootstrapping")
    /\ signalled' = signalled \ {p}
    /\ UNCHANGED <<data, view, committed, reach, around, reported, pass, mishaps>>

FreshView == CHOOSE v \in 1 .. Size + 1 : \A q \in Pods : view[q] # v

\* mysqld starts with an empty cluster address: a component of its own.
Bootstrap(p) ==
    /\ node[p] = "bootstrapping"
    /\ Becomes(p, "synced")
    /\ view' = [view EXCEPT ![p] = FreshView]
    /\ reach' = data[p]
    /\ UNCHANGED <<signalled, data, committed, around, reported, pass, mishaps>>

\* A state transfer from a pod of the component, and all it has received since;
\* without such a pod mysqld gives up.
Join(p) ==
    /\ node[p] = "joining"
    /\ IF PrimaryExists
       THEN /\ Becomes(p, "synced")
            /\ data' = [data EXCEPT ![p] = reach]
            /\ \E q \in Synced : view' = [view EXCEPT ![p] = view[q]]
       ELSE Becomes(p, "starting") /\ UNCHANGED <<data, view>>
    /\ UNCHANGED <<signalled, committed, reach, around, reported, pass, mishaps>>

\* A client's transaction is durable on the pod that took it, and received by all.
Commit(p) ==
    /\ p \in Synced /\ data[p] = reach /\ committed < MaxCommits
    /\ committed' = committed + 1 /\ reach' = reach + 1
    /\ data' = [data EXCEPT ![p] = @ + 1]
    /\ UNCHANGED <<node, signalled, view, around, reported, pass, mishaps>>

Apply(p) ==
    /\ p \in Synced /\ data[p] < reach
    /\ data' = [data EXCEPT ![p] = @ + 1]
    /\ UNCHANGED <<node, signalled, view, committed, reach, around, reported, pass, mishaps>>

\* Pods crash together, and the last may not be placed again for a while: all of
\* them, or few enough for the rest of the component to go on.
Crash ==
    /\ Mishap
    /\ \E down \in Crashes : \E homeless \in SUBSET ({Size - 1} \cap down) :
         /\ down = Pods \/ 2 * Cardinality(Synced \ down) > Cardinality({p \in Pods : node[p] \in {"synced", "joining"}})
         /\ node' = [p \in Pods |-> IF p \in homeless THEN "pending"
                                   ELSE IF p \in down THEN "starting" ELSE node[p]]
         /\ view' = [p \in Pods |-> IF p \in down THEN 0 ELSE view[p]]
         /\ signalled' = signalled \ down
    /\ UNCHANGED <<data, committed, reach, around, reported, pass>>

Place(p) ==
    /\ node[p] = "pending"
    /\ Becomes(p, "starting")
    /\ UNCHANGED <<signalled, data, view, committed, reach, around, reported, pass, mishaps>>

\* The proxy's pods come and go; a change of a template is rolled out.
ProxyFails ==
    /\ Proxy # "none" /\ proxy = "ready" /\ Mishap
    /\ proxy' \in {"initializing", "error"}
    /\ UNCHANGED <<pods, outdated, reported, pass>>

ProxyServes ==
    /\ proxy # "ready"
    /\ proxy' = "ready"
    /\ UNCHANGED <<pods, outdated, reported, pass, mishaps>>

RollOut ==
    /\ ~outdated /\ Mishap
    /\ outdated' = TRUE
    /\ UNCHANGED <<pods, proxy, reported, pass>>

RolledOut ==
    /\ outdated
    /\ outdated' = FALSE
    /\ UNCHANGED <<pods, proxy, reported, pass, mishaps>>
-----------------------------------------------------------------------------
(* The pass: the crash recovery, the rest of Reconcile, the status.         *)

Go(step) == pass' = [pass EXCEPT !.pc = step, !.i = 0]
Still == UNCHANGED <<pods, around, reported, mishaps>>

Begin ==
    /\ pass.pc = "idle"
    /\ pass' = [pc |-> "running", i |-> 0, maxSeq |-> NoSeq, maxPod |-> 0, listed |-> {},
                pending |-> FALSE, ready |-> 0, failed |-> FALSE]
    /\ Still

\* The loop's next pod, or what comes after the loop.
NextPod(changed, after) ==
    IF pass.i < Size - 1 THEN [changed EXCEPT !.i = @ + 1] ELSE [changed EXCEPT !.i = 0, !.pc = after]

\* A pod missing now is missed by the scan too.
CheckIfPodsRunning == \A p \in Pods : IsPodRunning(p)

CheckRunning ==
    /\ pass.pc = "running"
    /\ Go(IF CheckIfPodsRunning THEN "first" ELSE "list")
    /\ Still

\* recoverFullClusterCrashIfNeeded asks the first pod...
CheckFirst ==
    /\ pass.pc = "first"
    /\ Go(IF LogSaysWaiting(0) THEN "scan" ELSE "list")
    /\ Still

\* Slips: a pod that does not wait is passed over; the smallest number wins.
Scanned_SkipOthers(p) ==
    NextPod(IF LogSaysWaiting(p) /\ data[p] > pass.maxSeq
            THEN [pass EXCEPT !.maxSeq = data[p], !.maxPod = p] ELSE pass, "exec")
Scanned_Smallest(p) ==
    IF ~LogSaysWaiting(p) THEN [pass EXCEPT !.i = 0, !.pc = "list"]
    ELSE NextPod(IF pass.maxSeq = NoSeq \/ data[p] < pass.maxSeq
                 THEN [pass EXCEPT !.maxSeq = data[p], !.maxPod = p] ELSE pass, "exec")

\* ... and doFullCrashRecovery all of them, for the largest sequence number.
Scanned(p) ==
    IF ~LogSaysWaiting(p) THEN [pass EXCEPT !.i = 0, !.pc = "list"]
    ELSE NextPod(IF data[p] > pass.maxSeq
                 THEN [pass EXCEPT !.maxSeq = data[p], !.maxPod = p] ELSE pass, "exec")

Scan ==
    /\ pass.pc = "scan"
    /\ pass' = Scanned(pass.i)
    /\ Still

\* kill -s USR1 1: without a handler process 1 ignores it.
Exec(p) == signalled' = IF node[p] \in {"armed", "waiting"} THEN signalled \cup {p} ELSE signalled

\* A pod must have been found.
SendSignal ==
    /\ pass.pc = "exec"
    /\ IF pass.maxSeq = NoSeq THEN UNCHANGED signalled ELSE Exec(pass.maxPod)
    /\ Go("list")
    /\ UNCHANGED <<node, data, view, committed, reach, around, reported, mishaps>>

\* An error of the recovery is logged; one of the rest of the pass is reported.
CallFails ==
    /\ Mishap
    /\ \/ pass.pc \in {"running", "first", "scan", "exec"} /\ Go("list")
       \/ pass.pc = "list" /\ pass' = [pass EXCEPT !.pc = "write", !.failed = TRUE]
       \/ pass.pc \in {"list", "logs", "write"} /\ pass' = Idle
    /\ UNCHANGED <<pods, around, reported>>

\* The operator dies and is started again.
Dies ==
    /\ pass # Idle /\ Mishap
    /\ pass' = Idle
    /\ UNCHANGED <<pods, around, reported>>

\* appStatus: one list of the pods, for those of the newest revision...
ListPods ==
    /\ pass.pc = "list"
    /\ pass' = [pass EXCEPT !.pc = "logs",
                            !.listed = {p \in Pods : Ready(p) /\ ~(outdated /\ p = 0)},
                            !.pending = \E p \in Pods : node[p] = "pending"]
    /\ Still

\* ... and the log of each that looks ready.
ReadLogs ==
    /\ pass.pc = "logs"
    /\ pass' = [pass EXCEPT !.pc = "write", !.listed = {},
                            !.ready = Cardinality({p \in pass.listed : ~LogSaysWaiting(p)})]
    /\ Still

\* Slip: an error of one pod stays when the pods are all ready again.
PxcStatus_Sticky == IF pass.pending \/ pxc = "error" THEN "error"
                    ELSE IF pass.ready = Size THEN "ready" ELSE "initializing"

PxcStatus == IF pass.ready = Size THEN "ready"
             ELSE IF pass.pending THEN "error" ELSE "initializing"

\* The switch of updateStatus: the state, and the condition that goes with it.
\* Both parts in one state other than ready leave the condition of the changes.
Summary(db, entry) ==
    CASE Proxy # "none" /\ db = entry /\ db = "ready" -> [state |-> "ready", type |-> "Ready"]
      [] Proxy # "none" /\ db = entry ->
           [state |-> db, type |-> IF db = "error" /\ (pxc # db \/ front # entry)
                                   THEN "Error" ELSE "Initializing"]
      [] Proxy = "none" /\ db = "ready" -> [state |-> "ready", type |-> "Ready"]
      [] db = "error" \/ (Proxy # "none" /\ entry = "error") -> [state |-> "error", type |-> "Error"]
      [] OTHER -> [state |-> "initializing", type |-> "Initializing"]

\* upgradeInProgress: of the database, whichever part is asked for.
UpgradeInProgress == outdated

Kept(list) == IF Len(list) > MaxConditions
              THEN SubSeq(list, Len(list) - MaxConditions + 1, Len(list)) ELSE list

\* updateStatus and writeStatus
WriteStatus ==
    /\ pass.pc = "write" /\ ~pass.failed
    /\ LET s == Summary(PxcStatus, proxy)
       IN  /\ state' = IF UpgradeInProgress THEN "initializing" ELSE s.state
           /\ conditions' = Kept(IF conditions # <<>> /\ Last(conditions) = s.type
                                 THEN conditions ELSE Append(conditions, s.type))
    /\ pxc' = PxcStatus /\ front' = proxy
    /\ pass' = Idle
    /\ UNCHANGED <<pods, around, mishaps>>

\* Only the first error of a row is added.
ReportError ==
    /\ pass.pc = "write" /\ pass.failed
    /\ IF state = "Error" THEN UNCHANGED <<state, conditions>>
       ELSE state' = "Error" /\ conditions' = Append(conditions, "Error")
    /\ pass' = Idle
    /\ UNCHANGED <<pods, around, pxc, front, mishaps>>

PassStep ==
    \/ CheckRunning \/ CheckFirst \/ Scan \/ SendSignal
    \/ ListPods \/ ReadLogs \/ WriteStatus \/ ReportError

PodStep(p) ==
    \/ Start(p) \/ PrintLastLine(p) \/ FindPrimary(p) \/ NodeRecovery(p)
    \/ Bootstrap(p) \/ Join(p) \/ Place(p)

Next ==
    \/ Begin \/ PassStep \/ CallFails \/ Dies
    \/ \E p \in Pods : PodStep(p) \/ Commit(p) \/ Apply(p)
    \/ Crash \/ ProxyFails \/ ProxyServes
    \/ RollOut \/ RolledOut

Spec == Init /\ [][Next]_vars

\* Passes come every five seconds; scripts, kubelet and rollouts go on.
Fairness ==
    /\ WF_vars(Begin) /\ WF_vars(PassStep) /\ WF_vars(ProxyServes)
    /\ \A p \in Pods : WF_vars(PodStep(p))
    /\ WF_vars(RolledOut)

FairSpec == Spec /\ Fairness
-----------------------------------------------------------------------------
\* The pods that serve are one cluster: no pod is told to start one of its own
\* while there is another (doFullCrashRecovery reads the logs one by one, and
\* the pods go on meanwhile).
OneCluster == \A p, q \in Synced : view[p] = view[q]

\* What was acknowledged to a client before the crash is there when the cluster
\* serves again (doFullCrashRecovery takes the largest sequence number).
NothingLost == PrimaryExists => reach = committed

\* After every crash all pods come to serve again, although passes fail and the
\* operator dies (recoverFullClusterCrashIfNeeded, the entry point).
CrashHeals == []<>(Synced = Pods)

\* When nothing fails any more, the status comes to say so and stays
\* (updateStatus, its conditions).
StatusFollows == <>[](state = "ready" /\ Last(conditions) = "Ready")
=============================================================================
