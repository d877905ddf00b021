------------------------------ MODULE SmartUpdate ------------------------------
(****************************************************************************)
(* The smart update of the PXC StatefulSet (pkg/controller/pxc/upgrade.go): *)
(* the cluster controller writes the pod template the user asks for, then   *)
(* replaces the pods itself, the secondaries one by one and the primary     *)
(* last, because the StatefulSet's update strategy is OnDelete.             *)
(*                                                                          *)
(* It races with the StatefulSet controller, whose status it reads, with    *)
(* the proxy, which decides who the primary is, with backups, with pods     *)
(* that die on their own and with the death of the operator.                *)
(****************************************************************************)
EXTENDS Integers, FiniteSets, Sequences

CONSTANTS
    Size,        \* number of pods, spec.pxc.size
    Revisions,   \* pod templates the user may ask for
    First,       \* the one the cluster runs at first
    Proxy,       \* the enabled proxy, "haproxy" or "proxysql"
    NoPod,       \* no pod of the cluster
    DropsNodes,  \* whether ProxySQL drops a node that is offline from its table
    \* bounds on what may happen in a behaviour
    MaxChanges, MaxCrashes, MaxErrors, MaxFailures, MaxSwitches, MaxBackups

ASSUME SizeAssumption == Size \in Nat \ {0} /\ NoPod \notin 0 .. Size - 1
ASSUME RevisionsAssumption == First \in Revisions
ASSUME ProxyAssumption == Proxy \in {"haproxy", "proxysql"} /\ DropsNodes \in BOOLEAN
ASSUME BoundsAssumption ==
    {MaxChanges, MaxCrashes, MaxErrors, MaxFailures, MaxSwitches, MaxBackups} \subseteq Nat

Pods   == 0 .. Size - 1
Phases == {"none", "starting", "ready", "synced"}
PodStates == [phase: Phases, rev: Revisions, dying: BOOLEAN]
Statuses  == [rev: Revisions, replicas: 0 .. Size, updated: 0 .. Size, ready: 0 .. Size]

VARIABLES
    want,      \* the template that the cluster object asks for
    template,  \* the template of the StatefulSet
    status,    \* the StatefulSet's status: its controller's last word
    pod,       \* the pods: how far each is up, its revision, whether it is going
    primary,   \* the pod the proxy sends writes to
    online,    \* the pods the proxy lists as ONLINE
    rows,      \* the pods that it has in its table of servers at all
    backup,    \* a backup is starting or running
    pc, read,  \* the reconcile worker: next call; the template it read
    seen,      \* the status that came back with the updated StatefulSet
    listed,    \* the pod objects it holds: from the List, refreshed by each Get
    main,      \* the primary that the proxy named when it was asked
    todo,      \* pods still to be handled, in order
    changes, crashes, errors, failures, switches, backups \* what happened so far

proxy   == <<primary, online, rows>>
cluster == <<want, template, status, pod, proxy, backup>>
pass    == <<read, seen, listed, main, todo>>
mishaps == <<changes, crashes, errors, failures, switches, backups>>
vars == <<cluster, pc, pass, mishaps>>

Steps == {"down", "idle", "apply", "backup", "list", "primary", "next", "restart", "sync", "online"}

Up(p)     == pod[p].phase \in {"ready", "synced"}
Serves(p) == pod[p].phase = "synced"

\* No status of the pod is other than ONLINE: it is, or there is no status of it.
NotOffline(p) == p \in online \/ p \notin rows

TypeOK ==
    /\ want \in Revisions /\ template \in Revisions /\ read \in Revisions
    /\ status \in Statuses /\ seen \in Statuses
    /\ pod \in [Pods -> PodStates] /\ listed \in [Pods -> PodStates]
    /\ primary \in Pods \cup {NoPod} /\ main \in Pods \cup {NoPod}
    /\ rows \subseteq Pods /\ online \subseteq rows /\ backup \in BOOLEAN
    /\ pc \in Steps /\ todo \in Seq(Pods \cup {NoPod}) /\ Len(todo) <= Size
    /\ changes \in 0 .. MaxChanges /\ crashes \in 0 .. MaxCrashes
    /\ errors \in 0 .. MaxErrors /\ failures \in 0 .. MaxFailures
    /\ switches \in 0 .. MaxSwitches /\ backups \in 0 .. MaxBackups

\* What the worker holds between two passes.
NoStatus == [rev |-> First, replicas |-> 0, updated |-> 0, ready |-> 0]
NoPods   == [p \in Pods |-> [phase |-> "none", rev |-> First, dying |-> FALSE]]

\* A cluster that runs.
Init ==
    /\ want = First /\ template = First /\ read = First /\ seen = NoStatus
    /\ status = [rev |-> First, replicas |-> Size, updated |-> Size, ready |-> Size]
    /\ pod = [p \in Pods |-> [phase |-> "synced", rev |-> First, dying |-> FALSE]]
    /\ listed = NoPods /\ todo = <<>>
    /\ primary \in Pods /\ main = NoPod /\ online = Pods /\ rows = Pods
    /\ backup = FALSE /\ pc = "idle"
    /\ changes = 0 /\ crashes = 0 /\ errors = 0
    /\ failures = 0 /\ switches = 0 /\ backups = 0

-----------------------------------------------------------------------------
(* The StatefulSet controller.                                              *)

\* What one pass of the StatefulSet controller does: it creates the first
\* missing pod, once every pod before it is ready, and counts the pods.
SyncedPods ==
    [p \in Pods |->
        IF pod[p].phase = "none" /\ \A q \in 0 .. p - 1 : Up(q) /\ ~pod[q].dying
        THEN [phase |-> "starting", rev |-> template, dying |-> FALSE] ELSE pod[p]]

StatusOf(f) ==
    LET created == {p \in Pods : f[p].phase # "none"}
    IN [rev      |-> template,
        replicas |-> Cardinality(created),
        updated  |-> Cardinality({p \in created : f[p].rev = template /\ ~f[p].dying}),
        ready    |-> Cardinality({p \in created : f[p].phase # "starting"})]

\* The StatefulSet controller has nothing left to do.
Settled == pod = SyncedPods /\ status = StatusOf(pod)

-----------------------------------------------------------------------------
(* The reconcile worker.  Every error ends the pass, to be tried again.     *)

Goto(step) == pc' = step /\ UNCHANGED mishaps

\* Reconcile is over; nothing of what it held is kept.
Forget ==
    /\ read' = First /\ seen' = NoStatus /\ listed' = NoPods /\ main' = NoPod /\ todo' = <<>>
Return == Goto("idle") /\ Forget /\ UNCHANGED <<template, pod>>

CallFails ==
    /\ errors < MaxErrors /\ errors' = errors + 1
    /\ UNCHANGED <<changes, crashes, failures, switches, backups>>
    /\ pc' = "idle" /\ Forget /\ UNCHANGED <<template, pod>>

\* One call of the worker: it does what it should, or is refused.
Call(step, Does) ==
    /\ pc = step /\ (Does \/ CallFails)
    /\ UNCHANGED <<want, status, proxy, backup>>

\* Reconcile reads the cluster object.
Begin ==
    /\ pc = "idle" /\ Goto("apply") /\ read' = want
    /\ UNCHANGED <<cluster, seen, listed, main, todo>>

\* Slip: an update of which any pod is done counts as done.
Apply_AnyUpdated ==
    Call("apply",
         /\ template' = read /\ UNCHANGED pod
         /\ IF status.updated > 0 THEN Goto("idle") /\ Forget
            ELSE Goto("backup") /\ seen' = status /\ UNCHANGED <<read, listed, main, todo>>)

\* updatePod writes the StatefulSet; the server's answer carries the status of
\* that moment, which the StatefulSet controller wrote before this change.
Apply ==
    Call("apply",
         /\ template' = read /\ UNCHANGED pod
         /\ IF status.updated >= status.replicas THEN Goto("idle") /\ Forget
            ELSE Goto("backup") /\ seen' = status /\ UNCHANGED <<read, listed, main, todo>>)

\* No update starts while a backup runs or a pod is not ready.
CheckBackup ==
    Call("backup", IF backup \/ seen.ready < seen.replicas THEN Return
                   ELSE Goto("list") /\ UNCHANGED <<template, pod, pass>>)

ListPods ==
    Call("list", /\ listed' = pod /\ Goto("primary")
                 /\ UNCHANGED <<template, pod, read, seen, main, todo>>)

\* Slip: the primary is not looked at.
UpdateOrder_ByName(found, host) ==
    LET others   == found \ {0}
        Place(p) == Cardinality({q \in others : q >= p})
    IN Append([i \in 1 .. Cardinality(others) |-> CHOOSE p \in others : Place(p) = i], 0)

\* The listed pods by descending name, the primary moved to the end; a primary
\* that is not listed leaves an empty pod object in its place.
UpdateOrder(found, host) ==
    LET others   == found \ {host}
        Place(p) == Cardinality({q \in others : q >= p})
    IN Append([i \in 1 .. Cardinality(others) |-> CHOOSE p \in others : Place(p) = i],
              IF host \in found THEN host ELSE NoPod)

\* HAProxy forwards the question to the primary, ProxySQL answers itself.
Answers == primary # NoPod /\ (Proxy = "haproxy" => Serves(primary))

FindPrimary ==
    Call("primary",
         IF Answers
         THEN /\ main' = primary /\ Goto("next") /\ UNCHANGED <<template, pod, read, seen, listed>>
              /\ todo' = UpdateOrder({p \in Pods : listed[p].phase # "none"}, primary)
         ELSE Return)

\* applyNWait up to its first wait: the label looked at is that of the List.
\* Deleting a pod that is going changes nothing; one that is gone, or the empty
\* object, is an error.
Replace(p) ==
    LET outdated == listed[p].rev # seen.rev
    IN IF outdated /\ pod[p].phase = "none" THEN Return
       ELSE /\ pod' = [pod EXCEPT ![p].dying = @ \/ outdated]
            /\ Goto("restart") /\ UNCHANGED <<template, pass>>

ReplaceNext ==
    Call("next", IF todo = <<>> \/ Head(todo) = NoPod THEN Return ELSE Replace(Head(todo)))

\* What the worker holds of a pod after one more Get: the object keeps its
\* content when there is no such pod.
Refreshed(p) == IF pod[p].phase = "none" THEN listed[p] ELSE pod[p]

\* Slip: any running pod will do.
Restarted_AnyRevision(object) == object.phase \in {"ready", "synced"}

Restarted(object) == object.rev = seen.rev /\ object.phase \in {"ready", "synced"}

\* waitPodRestart: until the pod runs the revision that the status named.
AwaitRestart ==
    Call("restart",
         LET p == Head(todo)
         IN /\ listed' = [listed EXCEPT ![p] = Refreshed(p)]
            /\ Goto(IF Restarted(Refreshed(p)) THEN "sync" ELSE "restart")
            /\ UNCHANGED <<template, pod, read, seen, main, todo>>)

\* waitPXCSynced: the connection is refused when the node is not up.
AwaitSync ==
    Call("sync", \/ Serves(Head(todo)) /\ Goto("online") /\ UNCHANGED <<template, pod, pass>>
                 \/ ~Up(Head(todo)) /\ Return)

\* Slip: nobody is asked.
AwaitOnline_Skipped ==
    Call("online", /\ todo' = Tail(todo) /\ Goto("next")
                   /\ UNCHANGED <<template, pod, read, seen, listed, main>>)

\* waitUntilOnline asks ProxySQL for the statuses of the pod, and goes on unless one
\* of them is not ONLINE: also when it has none.  With HAProxy it sleeps for a while.
AwaitOnline ==
    Call("online", /\ Proxy = "proxysql" => NotOffline(Head(todo))
                   /\ todo' = Tail(todo) /\ Goto("next")
                   /\ UNCHANGED <<template, pod, read, seen, listed, main>>)

Worker == Begin \/ Apply \/ CheckBackup \/ ListPods \/ FindPrimary \/ ReplaceNext
            \/ AwaitRestart \/ AwaitSync \/ AwaitOnline

\* The wait limit runs out and the pass fails.  It is the default of two hours:
\* long before, a pod that was deleted is gone (its grace period is 600 seconds)
\* and the StatefulSet controller has reacted.
WaitLimit ==
    /\ Settled /\ \A p \in Pods : ~pod[p].dying
    /\ \/ pc = "restart" /\ ~Restarted(Refreshed(Head(todo)))
       \/ pc = "sync" /\ ~Serves(Head(todo))
       \/ pc = "online" /\ Proxy = "proxysql" /\ ~NotOffline(Head(todo))
    /\ Return /\ UNCHANGED <<want, status, proxy, backup>>

-----------------------------------------------------------------------------
(* What goes on around the worker.                                          *)

SyncStatefulSet ==
    /\ pod' = SyncedPods /\ status' = StatusOf(SyncedPods)
    /\ UNCHANGED <<want, template, proxy, backup, pc, pass, mishaps>>

\* A pod comes up: its container is ready, then its node is synced.  A node takes
\* longer to come up than the proxy, with its checks every few seconds, to
\* notice that it went down.
PodAdvances(p) ==
    /\ ~pod[p].dying
    /\ \/ pod[p].phase = "starting" /\ p \notin online /\ pod' = [pod EXCEPT ![p].phase = "ready"]
       \/ pod[p].phase = "ready" /\ pod' = [pod EXCEPT ![p].phase = "synced"]
    /\ UNCHANGED <<want, template, status, proxy, backup, pc, pass, mishaps>>

Vanish(p) == pod' = [pod EXCEPT ![p] = NoPods[p]]

PodGone(p) ==
    /\ pod[p].dying /\ Vanish(p)
    /\ UNCHANGED <<want, template, status, proxy, backup, pc, pass, mishaps>>

\* A pod is lost: evicted, or its node died.
PodFails(p) ==
    /\ pod[p].phase # "none" /\ failures < MaxFailures /\ failures' = failures + 1
    /\ Vanish(p)
    /\ UNCHANGED <<want, template, status, proxy, backup, pc, pass,
                   changes, crashes, errors, switches, backups>>

\* The proxy finds out that a node serves, which it then has in its table, or that it
\* no longer does; then it also replaces a primary that is lost.
ProxyNotices(p) ==
    /\ (p \in online) # Serves(p)
    /\ online' = IF Serves(p) THEN online \cup {p} ELSE online \ {p}
    /\ rows' = rows \cup online'
    /\ IF primary \in online' THEN UNCHANGED primary
       ELSE primary' \in IF online' = {} THEN {NoPod} ELSE online'
    /\ UNCHANGED <<want, template, status, pod, backup, pc, pass, mishaps>>

\* ProxySQL's table of servers is written anew, without a node that left the cluster.
ProxyDrops(p) ==
    /\ DropsNodes /\ Proxy = "proxysql" /\ p \in rows \ online /\ rows' = rows \ {p}
    /\ UNCHANGED <<want, template, status, pod, primary, online, backup, pc, pass, mishaps>>

\* The proxy moves the writes for a reason of its own.
Switch ==
    /\ switches < MaxSwitches /\ switches' = switches + 1
    /\ primary' \in online \ {primary}
    /\ UNCHANGED <<want, template, status, pod, online, rows, backup, pc, pass,
                   changes, crashes, errors, failures, backups>>

StartBackup ==
    /\ ~backup /\ backup' = TRUE /\ backups < MaxBackups /\ backups' = backups + 1
    /\ UNCHANGED <<want, template, status, pod, proxy, pc, pass,
                   changes, crashes, errors, failures, switches>>

EndBackup ==
    /\ backup /\ backup' = FALSE
    /\ UNCHANGED <<want, template, status, pod, proxy, pc, pass, mishaps>>

Change ==
    /\ changes < MaxChanges /\ changes' = changes + 1
    /\ want' \in Revisions \ {want}
    /\ UNCHANGED <<template, status, pod, proxy, backup, pc, pass,
                   crashes, errors, failures, switches, backups>>

\* The operator dies.
Crash ==
    /\ pc \notin {"idle", "down"} /\ crashes < MaxCrashes /\ crashes' = crashes + 1
    /\ pc' = "down" /\ Forget
    /\ UNCHANGED <<cluster, changes, errors, failures, switches, backups>>

\* It is up again after a second at least; by then the StatefulSet controller
\* has seen the pods as they are.
Restart ==
    /\ pc = "down" /\ Settled /\ Goto("idle")
    /\ UNCHANGED <<cluster, pass>>

Environment ==
    \/ SyncStatefulSet \/ Switch \/ StartBackup \/ EndBackup \/ Change \/ Crash \/ Restart
    \/ \E p \in Pods : PodAdvances(p) \/ PodGone(p) \/ PodFails(p) \/ ProxyNotices(p)
                       \/ ProxyDrops(p)

Next == Worker \/ WaitLimit \/ Environment

Spec == Init /\ [][Next]_vars

Fairness ==
    /\ WF_vars(Worker) /\ WF_vars(WaitLimit)
    /\ WF_vars(SyncStatefulSet) /\ WF_vars(EndBackup) /\ WF_vars(Restart)
    /\ \A p \in Pods : /\ WF_vars(PodAdvances(p)) /\ WF_vars(PodGone(p))
                       /\ WF_vars(ProxyNotices(p))

FairSpec == Spec /\ Fairness

-----------------------------------------------------------------------------
(* What the smart update promises.                                          *)

\* The worker deletes a pod that was not already going.
Deletes(p) == pc = "next" /\ ~pod[p].dying /\ pod'[p].dying

\* No pod was lost, no call refused, and the primary moved only because its pod
\* was replaced.
Undisturbed == failures = 0 /\ errors = 0 /\ switches = 0

\* The pod that takes the writes is replaced last: when the worker deletes it
\* every other pod has the revision that the pass is after, or the one that the
\* template has changed to since the status was written (smartUpdate's order
\* and its waits, upgrade.go:239-259); whatever died, was lost or was refused
\* before, and whenever the user changes the template.  A primary that moved
\* after it was looked up is not known to the pass.
PrimaryLast ==
    [][\A p \in Pods : Deletes(p) /\ p = primary /\ p = main =>
         \A q \in Pods \ {p} : pod[q].phase = "none" \/ pod[q].rev \in {seen.rev, template}]_vars

\* One pass never takes a second pod down: when it deletes one, every other pod
\* is ready and not going (applyNWait, upgrade.go:266-288).
OneDownAtATime ==
    [][\A p \in Pods : Deletes(p) /\ Undisturbed /\ crashes = 0 =>
         \A q \in Pods \ {p} : Up(q) /\ ~pod[q].dying]_vars

\* Nor does a later pass, after the operator died during one: "can't
\* start/continue 'SmartUpdate': waiting for all replicas are ready"
\* (upgrade.go:205-208).
WaitsForAllReplicas ==
    [][\A p \in Pods : Deletes(p) /\ Undisturbed =>
         \A q \in Pods \ {p} : Up(q)]_vars

\* With ProxySQL, the worker never takes the last pod that serves: there is another
\* that does and that ProxySQL does not hold for offline (waitUntilOnline,
\* upgrade.go:303-320).  That is less than being ONLINE: a pod that ProxySQL dropped
\* from its table passes the wait, and the next one goes before ProxySQL has it back.
\* Excepted is an operator that has died as often as there are other pods: the pod in
\* hand at each death may be on its way out when the next pass reads the status, which
\* still counts it (205), and be gone when it lists the pods.
ServiceStaysUp ==
    [][\A p \in Pods :
         Deletes(p) /\ Proxy = "proxysql" /\ Undisturbed /\ crashes + 1 < Size =>
           \E q \in Pods \ {p} : NotOffline(q) /\ Serves(q)]_vars

\* Every change arrives: once the user stops changing the template, all pods
\* come to run it, whatever died or was refused on the way (the passes are
\* repeated until UpdatedReplicas reaches Replicas, upgrade.go:189).
EveryChangeArrives ==
    <>[](\A p \in Pods : pod[p].rev = want /\ Serves(p))
=============================================================================
