-------------------------- MODULE RestoreController --------------------------
(****************************************************************************)
(* The restore controller of the operator (pkg/controller/pxcrestore) and   *)
(* what it races with: the cluster controller that scales the PXC           *)
(* StatefulSet from the same cluster object (pkg/controller/pxc), the       *)
(* StatefulSet's pods and their volumes, the restore jobs, the user who     *)
(* creates and deletes restore objects, and the death of the operator.      *)
(*                                                                          *)
(* One PXC cluster.  A controller handles one object at a time              *)
(* (controller-runtime's default MaxConcurrentReconciles is 1), so the      *)
(* restore controller is one worker: pc says before which call to the API   *)
(* server it stands, cur which restore it handles.  The two controllers run *)
(* in one process and die together.                                         *)
(****************************************************************************)
EXTENDS Integers, FiniteSets

CONSTANTS
    Restores,        \* names of the PerconaXtraDBClusterRestore objects
    Plans,           \* what a restore may ask for
    Size,            \* spec.pxc.size of the cluster object
    AllowUnsafe,     \* spec.allowUnsafeConfigurations
    UpdateTries,     \* attempts of startCluster to write the cluster (5 in the code)
    NoRestore,       \* not the name of a restore
    \* bounds on what may go wrong in a behaviour
    MaxCrashes, MaxDeletes, MaxErrors, MaxTimeouts

ASSUME RestoresAssumption == NoRestore \notin Restores /\ "none" \notin Restores
ASSUME PlansAssumption ==
    Plans \subseteq [dest: {"pvc", "s3", "unknown"}, pitr: BOOLEAN, usable: BOOLEAN]
ASSUME SizeAssumption == Size \in Nat \ {0} /\ AllowUnsafe \in BOOLEAN
ASSUME BoundsAssumption ==
    /\ UpdateTries \in Nat \ {0}
    /\ {MaxCrashes, MaxDeletes, MaxErrors, MaxTimeouts} \subseteq Nat

VARIABLES
    state,        \* status.state of each restore object, or Absent or Gone
    plan,         \* what each restore asks for
    pc, cur,      \* the restore worker: next call, restore handled
    copy,         \* its copy of the cluster's spec, after CheckNSetDefaults
    fresh,        \* its copy has the resourceVersion of the stored object
    tries,        \* attempts made by startCluster
    spec,         \* the stored cluster object: [pause, size]
    observed,     \* status.observedGeneration = metadata.generation
    pxcReady,     \* status.pxc.state = ready
    rpc, rsize, rfresh,  \* the cluster controller: step, size read, copy is current
    replicas,     \* spec.replicas of the PXC StatefulSet
    pods, ready,  \* its pods: ordinals 0 .. pods-1 exist, 0 .. ready-1 are ready
    vol, doomed,  \* content of each pod's volume; the volumes being deleted
    source,       \* restores whose source pod and service exist: "none", "starting", "running"
    restoreJob, pitrJob, \* the jobs of each restore
    crashes, deletes, errors, timeouts  \* what went wrong so far

worker     == <<pc, cur, copy, tries>>
cluster    == <<spec, observed, pxcReady>>
reconciler == <<rpc, rsize>>
kubernetes == <<replicas, pods, ready, vol, doomed>>
jobs       == <<source, restoreJob, pitrJob>>
mishaps    == <<crashes, deletes, errors, timeouts>>
vars == <<state, plan, worker, fresh, cluster, reconciler, rfresh, kubernetes, jobs, mishaps>>

\* pxc_prestore_types.go; Absent: not created yet, Gone: deleted by the user.
Absent == "Absent"
Gone   == "Gone"
New    == ""
Starting     == "Starting"
StopCluster  == "Stopping Cluster"
Restoring    == "Restoring"
StartCluster == "Starting Cluster"
PITR         == "Point-in-time recovering"
Failed       == "Failed"
Succeeded    == "Succeeded"
Final  == {Failed, Succeeded}
Busy   == {Starting, StopCluster, Restoring, StartCluster, PITR}
States == {Absent, Gone, New} \cup Busy \cup Final

Steps == {"idle", "list", "prepare", "stopping", "pause", "podsDown", "dropVolumes",
          "volumesDown", "restoring", "launch", "source", "restoreJob", "starting",
          "getCluster", "unpause", "ready", "recovering", "launchPITR", "pitrJob",
          "succeed", "fail"}

\* CheckNSetDefaults on the size of the PXC part of a spec: what the
\* controllers work with, never what the stored spec says.
DefaultedSize(s) ==
    LET atLeast3 == IF s.size < 3 THEN 3 ELSE s.size
        safe     == IF atLeast3 % 2 = 0 THEN atLeast3 + 1 ELSE atLeast3
    IN IF s.pause THEN 0 ELSE IF AllowUnsafe THEN s.size ELSE safe

MaxPods  == DefaultedSize([pause |-> FALSE, size |-> Size])
Ordinals == 0 .. MaxPods - 1
Specs    == [pause: BOOLEAN, size: 0 .. MaxPods]
Present  == {k \in Ordinals : vol[k] # "none"}

Writing(r) == restoreJob[r] = "active"

TypeOK ==
    /\ state \in [Restores -> States] /\ plan \in [Restores -> Plans]
    /\ pc \in Steps /\ cur \in Restores \cup {NoRestore}
    /\ copy \in Specs /\ fresh \in BOOLEAN /\ tries \in 0 .. UpdateTries - 1
    /\ spec \in Specs /\ observed \in BOOLEAN /\ pxcReady \in BOOLEAN
    /\ rpc \in {"idle", "apply", "status"} /\ rsize \in 0 .. MaxPods /\ rfresh \in BOOLEAN
    /\ replicas \in 0 .. MaxPods /\ pods \in 0 .. MaxPods /\ ready \in 0 .. MaxPods
    /\ vol \in [Ordinals -> {"none", "old", "torn"} \cup Restores]
    /\ doomed \subseteq Ordinals
    /\ source \in [Restores -> {"none", "starting", "running"}]
    /\ restoreJob \in [Restores -> {"none", "active", "done", "failed"}]
    /\ pitrJob \in [Restores -> {"none", "active", "done", "failed"}]
    /\ crashes \in 0 .. MaxCrashes /\ deletes \in 0 .. MaxDeletes
    /\ errors \in 0 .. MaxErrors /\ timeouts \in 0 .. MaxTimeouts

\* A cluster that runs: the state in which restores are normally asked for.
Init ==
    /\ state = [r \in Restores |-> Absent] /\ plan \in [Restores -> Plans]
    /\ pc = "idle" /\ cur = NoRestore /\ tries = 0 /\ fresh = FALSE
    /\ spec = [pause |-> FALSE, size |-> Size] /\ copy = spec
    /\ observed = TRUE /\ pxcReady = TRUE
    /\ rpc = "idle" /\ rsize = MaxPods /\ rfresh = FALSE
    /\ replicas = MaxPods /\ pods = MaxPods /\ ready = MaxPods
    /\ vol = [k \in Ordinals |-> "old"] /\ doomed = {}
    /\ source = [r \in Restores |-> "none"]
    /\ restoreJob = [r \in Restores |-> "none"] /\ pitrJob = restoreJob
    /\ crashes = 0 /\ deletes = 0 /\ errors = 0 /\ timeouts = 0

-----------------------------------------------------------------------------
(* Calls to the API server.                                                 *)

\* A call that fails for a reason of the API server's own.
ApiFails == errors < MaxErrors /\ errors' = errors + 1 /\ UNCHANGED <<crashes, deletes, timeouts>>

\* setStatus on a restore that is still there, and its two ways to fail.
SetStatus(s) == /\ state[cur] # Gone
                /\ state' = [state EXCEPT ![cur] = s]
                /\ UNCHANGED mishaps
StatusLost == /\ \/ state[cur] = Gone /\ UNCHANGED mishaps
                 \/ ApiFails
              /\ UNCHANGED state

\* Update of the cluster object: refused unless the writer's copy is current.
\* A write that changes nothing makes no new version.
WriteSpec(s) ==
    /\ spec' = s
    /\ observed' = (observed /\ s = spec)
    /\ rfresh' = (rfresh /\ s = spec)
    /\ UNCHANGED pxcReady

Goto(step) == pc' = step

\* An error return of Reconcile goes through its deferred function.
Fails == Goto("fail") /\ UNCHANGED <<state, cluster, fresh, rfresh, kubernetes>>

\* A wait limit (300 polls, plus the pods' grace period) runs out.  By then the
\* cluster controller, which passes every 5 seconds, has acted on the spec as
\* it is, and the StatefulSet has its first pod if it is to have one.
WaitLimit ==
    /\ timeouts < MaxTimeouts /\ timeouts' = timeouts + 1
    /\ replicas = DefaultedSize(spec) /\ (rpc = "apply" => rsize = replicas)
    /\ replicas > 0 => pods > 0
    /\ UNCHANGED <<crashes, deletes, errors>>

-----------------------------------------------------------------------------
(* The restore worker, one action per call of Reconcile.                    *)

\* Only a New restore is handled; a failed write leaves it New, to be retried.
Pick(r) ==
    /\ pc = "idle" /\ state[r] = New
    /\ \/ /\ state' = [state EXCEPT ![r] = Starting] /\ UNCHANGED mishaps
          /\ Goto("list") /\ cur' = r
       \/ ApiFails /\ UNCHANGED <<state, pc, cur>>
    /\ UNCHANGED <<plan, copy, tries, fresh, cluster, reconciler, rfresh, kubernetes, jobs>>

\* Slip: only the restores not yet past the check count as concurrent.
Concurrent_Waiting(r) == \E q \in Restores \ {r} : state[q] \in {New, Starting}

\* The restore that the concurrency check finds "running now".
Concurrent(r) == \E q \in Restores \ {r} : state[q] \in {New} \cup Busy

\* An error of this List returns before the deferred function is registered:
\* the restore stays Starting for good.
ListRestores ==
    /\ pc = "list"
    /\ \/ /\ Goto(IF Concurrent(cur) THEN "fail" ELSE "prepare")
          /\ UNCHANGED <<cur, mishaps>>
       \/ ApiFails /\ Goto("idle") /\ cur' = NoRestore
    /\ UNCHANGED <<state, plan, copy, tries, fresh, cluster, reconciler, rfresh, kubernetes, jobs>>

\* The checks of the restore, the backup and the cluster; the copy of the
\* spec that startCluster writes back is taken after CheckNSetDefaults.
Prepare ==
    /\ pc = "prepare"
    /\ \/ /\ plan[cur].usable /\ Goto("stopping") /\ UNCHANGED mishaps
          /\ copy' = [spec EXCEPT !.size = DefaultedSize(spec)] /\ fresh' = TRUE
       \/ /\ \/ ~plan[cur].usable /\ UNCHANGED mishaps
             \/ ApiFails
          /\ Goto("fail") /\ UNCHANGED <<copy, fresh>>
    /\ UNCHANGED <<state, plan, cur, tries, cluster, reconciler, rfresh, kubernetes, jobs>>

\* The progress reports between the phases: if one cannot be written, the
\* restore fails there.
Report(from, s, to) ==
    /\ pc = from
    /\ \/ SetStatus(s) /\ Goto(to)
       \/ StatusLost /\ Goto("fail")
    /\ UNCHANGED <<plan, cur, copy, tries, fresh, cluster, reconciler, rfresh, kubernetes, jobs>>

ReportPhase ==
    \/ Report("stopping", StopCluster, "pause")
    \/ Report("restoring", Restoring, "launch")
    \/ Report("starting", StartCluster, "getCluster")
    \/ Report("recovering", PITR, "launchPITR")

Pause ==
    /\ pc = "pause"
    /\ \/ /\ fresh /\ WriteSpec([copy EXCEPT !.pause = TRUE])
          /\ fresh' = FALSE /\ Goto("podsDown")
          /\ UNCHANGED <<state, kubernetes, mishaps>>
       \/ ((~fresh /\ UNCHANGED mishaps) \/ ApiFails) /\ Fails
    /\ UNCHANGED <<plan, cur, copy, tries, reconciler, jobs>>

\* waitForPodsShutdown, waitForPVCShutdown and the wait of startCluster: poll
\* until done, give up at the limit or when the API server fails.
WaitFor(step, done, next) ==
    /\ pc = step
    /\ \/ done /\ Goto(next) /\ UNCHANGED <<state, cluster, fresh, rfresh, kubernetes, mishaps>>
       \/ ~done /\ WaitLimit /\ Fails
       \/ ApiFails /\ Fails
    /\ UNCHANGED <<plan, cur, copy, tries, reconciler, jobs>>

\* Slips: a wait that is not made; a wait for a status that may be an old one.
AwaitPodsDown_Skipped    == WaitFor("podsDown", TRUE, "dropVolumes")
AwaitVolumesDown_Skipped == WaitFor("volumesDown", TRUE, "restoring")
AwaitReady_AnyGeneration == WaitFor("ready", pxcReady,
                                    IF plan[cur].pitr THEN "recovering" ELSE "succeed")

AwaitPodsDown    == WaitFor("podsDown", pods = 0, "dropVolumes")
AwaitVolumesDown == WaitFor("volumesDown", Cardinality(Present) = 1, "restoring")
AwaitReady       == WaitFor("ready", observed /\ pxcReady,
                            IF plan[cur].pitr THEN "recovering" ELSE "succeed")

\* Every volume of the cluster but that of pod 0 is deleted, one by one.
DropVolumes ==
    /\ pc = "dropVolumes"
    /\ \/ /\ doomed' = doomed \cup (Present \ {0})
          /\ Goto("volumesDown") /\ UNCHANGED mishaps
       \/ \E some \in SUBSET (Present \ {0}) :
            ApiFails /\ doomed' = doomed \cup some /\ Goto("fail")
    /\ UNCHANGED <<state, plan, cur, copy, tries, fresh, cluster, reconciler, rfresh,
                   replicas, pods, ready, vol, jobs>>

\* restore: the destination decides between restorePVC, which first needs a
\* pod that serves the backup's volume, and restoreS3.
Launch ==
    /\ pc = "launch"
    /\ \/ /\ plan[cur].dest = "s3" /\ Goto("restoreJob") /\ UNCHANGED <<source, mishaps>>
          /\ restoreJob' = [restoreJob EXCEPT ![cur] = "active"]
       \/ /\ plan[cur].dest = "pvc" /\ Goto("source") /\ UNCHANGED <<restoreJob, mishaps>>
          /\ source' = [source EXCEPT ![cur] = "starting"]
       \/ /\ plan[cur].dest = "unknown" /\ Goto("fail")
          /\ UNCHANGED <<source, restoreJob, mishaps>>
       \/ ApiFails /\ Goto("fail") /\ UNCHANGED <<source, restoreJob>>
    /\ UNCHANGED <<state, plan, cur, copy, tries, fresh, cluster, reconciler, rfresh,
                   kubernetes, pitrJob>>

DeleteSource == source' = [source EXCEPT ![cur] = "none"]

\* The deferred deletion of the source is registered only once its pod runs.
AwaitSource ==
    /\ pc = "source"
    /\ \/ /\ source[cur] = "running" /\ Goto("restoreJob") /\ UNCHANGED <<source, mishaps>>
          /\ restoreJob' = [restoreJob EXCEPT ![cur] = "active"]
       \/ /\ source[cur] = "running" /\ ApiFails /\ DeleteSource /\ Goto("fail")
          /\ UNCHANGED restoreJob
       \/ /\ source[cur] = "none" /\ Goto("fail") /\ UNCHANGED <<source, restoreJob, mishaps>>
       \/ ApiFails /\ Goto("fail") /\ UNCHANGED <<source, restoreJob>>
    /\ UNCHANGED <<state, plan, cur, copy, tries, fresh, cluster, reconciler, rfresh,
                   kubernetes, pitrJob>>

\* createJob polls for the Complete condition and for nothing else: a job that
\* failed, or is gone, is waited for without end.
AwaitRestoreJob ==
    /\ pc = "restoreJob"
    /\ \/ restoreJob[cur] = "done" /\ Goto("starting") /\ UNCHANGED mishaps
       \/ ApiFails /\ Goto("fail")
    /\ DeleteSource
    /\ UNCHANGED <<state, plan, cur, copy, tries, fresh, cluster, reconciler, rfresh,
                   kubernetes, restoreJob, pitrJob>>

GetCluster ==
    /\ pc = "getCluster"
    /\ \/ fresh' = TRUE /\ Goto("unpause") /\ UNCHANGED mishaps
       \/ ApiFails /\ Goto("fail") /\ UNCHANGED fresh
    /\ UNCHANGED <<state, plan, cur, copy, tries, cluster, reconciler, rfresh, kubernetes, jobs>>

\* Slip: what was read again is written back, with the pause in it.
Unpause_AsFound ==
    /\ pc = "unpause" /\ fresh /\ WriteSpec(spec) /\ fresh' = FALSE
    /\ Goto("ready") /\ tries' = 0
    /\ UNCHANGED <<state, plan, cur, copy, reconciler, kubernetes, jobs, mishaps>>

\* "tryin several times just to avoid possible conflicts with the main controller"
Unpause ==
    /\ pc = "unpause"
    /\ \/ /\ fresh /\ WriteSpec(copy) /\ fresh' = FALSE
          /\ Goto("ready") /\ tries' = 0 /\ UNCHANGED mishaps
       \/ /\ (~fresh /\ UNCHANGED mishaps) \/ ApiFails
          /\ IF tries + 1 < UpdateTries
             THEN Goto("getCluster") /\ tries' = tries + 1
             ELSE Goto("fail") /\ tries' = 0
          /\ UNCHANGED <<cluster, fresh, rfresh>>
    /\ UNCHANGED <<state, plan, cur, copy, reconciler, kubernetes, jobs>>

\* Replaying binlogs needs the S3 section of the backup's status.
LaunchPITR ==
    /\ pc = "launchPITR"
    /\ \/ /\ plan[cur].dest = "s3" /\ Goto("pitrJob") /\ UNCHANGED mishaps
          /\ pitrJob' = [pitrJob EXCEPT ![cur] = "active"]
       \/ /\ (plan[cur].dest # "s3" /\ UNCHANGED mishaps) \/ ApiFails
          /\ Goto("fail") /\ UNCHANGED pitrJob
    /\ UNCHANGED <<state, plan, cur, copy, tries, fresh, cluster, reconciler, rfresh,
                   kubernetes, source, restoreJob>>

AwaitPITRJob ==
    /\ pc = "pitrJob"
    /\ \/ pitrJob[cur] = "done" /\ Goto("succeed") /\ UNCHANGED mishaps
       \/ ApiFails /\ Goto("fail")
    /\ UNCHANGED <<state, plan, cur, copy, tries, fresh, cluster, reconciler, rfresh,
                   kubernetes, jobs>>

\* Slip: the deferred function reports success only.
Finish_Silent ==
    /\ \/ pc = "succeed" /\ (SetStatus(Succeeded) \/ StatusLost)
       \/ pc = "fail" /\ UNCHANGED <<state, mishaps>>
    /\ Goto("idle") /\ cur' = NoRestore
    /\ UNCHANGED <<plan, copy, tries, fresh, cluster, reconciler, rfresh, kubernetes, jobs>>

\* The deferred function; what its own setStatus returns is not looked at.
Finish ==
    /\ \/ pc = "succeed" /\ (SetStatus(Succeeded) \/ StatusLost)
       \/ pc = "fail" /\ (SetStatus(Failed) \/ StatusLost)
    /\ Goto("idle") /\ cur' = NoRestore
    /\ UNCHANGED <<plan, copy, tries, fresh, cluster, reconciler, rfresh, kubernetes, jobs>>

Worker ==
    \/ \E r \in Restores : Pick(r)
    \/ ListRestores \/ Prepare \/ ReportPhase \/ Pause
    \/ AwaitPodsDown \/ DropVolumes \/ AwaitVolumesDown
    \/ Launch \/ AwaitSource \/ AwaitRestoreJob
    \/ GetCluster \/ Unpause \/ AwaitReady
    \/ LaunchPITR \/ AwaitPITRJob \/ Finish

-----------------------------------------------------------------------------
(* The cluster controller, as far as a restore can tell: it reads the       *)
(* cluster object, sets the StatefulSet's replicas from what it read, and   *)
(* writes the status it found.                                              *)

ReadCluster ==
    /\ rpc = "idle" /\ rpc' = "apply"
    /\ rsize' = DefaultedSize(spec) /\ rfresh' = TRUE
    /\ UNCHANGED <<state, plan, worker, fresh, cluster, kubernetes, jobs, mishaps>>

\* updatePod; a pass that fails before it changes neither replicas nor status.pxc.
ScalePXC ==
    /\ rpc = "apply"
    /\ \/ replicas' = rsize /\ rpc' = "status" /\ UNCHANGED mishaps
       \/ ApiFails /\ rpc' = "idle" /\ UNCHANGED replicas
    /\ UNCHANGED <<state, plan, worker, fresh, cluster, rsize, rfresh, pods, ready, vol, doomed, jobs>>

\* updateStatus: refused by the API server if the object changed since it was
\* read, and then only logged.  What it says of the proxies may have changed even
\* if this has not.
WriteStatus ==
    /\ rpc = "status" /\ rpc' = "idle"
    /\ IF rfresh
       THEN /\ observed' = TRUE /\ pxcReady' = (ready = rsize)
            /\ \/ fresh' = (fresh /\ observed' = observed /\ pxcReady' = pxcReady)
               \/ fresh' = FALSE
       ELSE UNCHANGED <<observed, pxcReady, fresh>>
    /\ UNCHANGED <<state, plan, worker, spec, rsize, rfresh, kubernetes, jobs, mishaps>>

Reconciler == ReadCluster \/ ScalePXC \/ WriteStatus

-----------------------------------------------------------------------------
(* Kubernetes, the user, and the death of the operator.                     *)

\* Pods start in order, each once the one before it is ready.  Pod 0 initialises
\* an empty volume; every other pod takes its data from the running cluster.
StartPod ==
    /\ pods < replicas /\ ready = pods /\ pods \notin doomed /\ pods' = pods + 1
    /\ vol' = [vol EXCEPT ![pods] =
                 IF pods > 0 THEN vol[0] ELSE IF @ = "none" THEN "old" ELSE @]
    /\ UNCHANGED <<replicas, ready, doomed, jobs>>

PodReady ==
    /\ ready < pods /\ ready' = pods
    /\ UNCHANGED <<replicas, pods, vol, doomed, jobs>>

StopPod ==
    /\ pods > replicas /\ pods' = pods - 1
    /\ ready' = IF ready > pods' THEN pods' ELSE ready
    /\ UNCHANGED <<replicas, vol, doomed, jobs>>

\* A volume is removed once no pod uses it.
RemoveVolume(k) ==
    /\ k \in doomed /\ k >= pods
    /\ doomed' = doomed \ {k} /\ vol' = [vol EXCEPT ![k] = "none"]
    /\ UNCHANGED <<replicas, pods, ready, jobs>>

SourceRuns(r) ==
    /\ source[r] = "starting" /\ source' = [source EXCEPT ![r] = "running"]
    /\ UNCHANGED <<restoreJob, pitrJob, kubernetes>>

\* The restore job empties volume 0 and fills it from the backup.
RestoreJobEnds(r) ==
    /\ Writing(r) /\ vol[0] # "none"
    /\ \/ /\ plan[r].dest = "pvc" => source[r] = "running"
          /\ restoreJob' = [restoreJob EXCEPT ![r] = "done"]
          /\ LET alone == pods = 0 /\ \A q \in Restores \ {r} : ~Writing(q)
             IN vol' = [vol EXCEPT ![0] = IF alone THEN r ELSE "torn"]
       \/ /\ restoreJob' = [restoreJob EXCEPT ![r] = "failed"]
          /\ vol' = [vol EXCEPT ![0] = "torn"]
    /\ UNCHANGED <<replicas, pods, ready, doomed, source, pitrJob>>

\* The PITR job replays binlogs through a running node.
PITRJobEnds(r) ==
    /\ pitrJob[r] = "active"
    /\ \/ ready > 0 /\ pitrJob' = [pitrJob EXCEPT ![r] = "done"]
       \/ pitrJob' = [pitrJob EXCEPT ![r] = "failed"]
    /\ UNCHANGED <<kubernetes, source, restoreJob>>

\* What a deleted restore owns is removed, some time after it.
CollectGarbage(r) ==
    /\ state[r] = Gone
    /\ {source[r], restoreJob[r], pitrJob[r]} # {"none"}
    /\ source' = [source EXCEPT ![r] = "none"]
    /\ restoreJob' = [restoreJob EXCEPT ![r] = "none"]
    /\ pitrJob' = [pitrJob EXCEPT ![r] = "none"]
    /\ vol' = IF Writing(r) THEN [vol EXCEPT ![0] = "torn"] ELSE vol
    /\ UNCHANGED <<replicas, pods, ready, doomed>>

\* Kubernetes touches nothing the controllers own.
Kube(A) == A /\ UNCHANGED <<state, plan, worker, fresh, cluster, reconciler, rfresh, mishaps>>

Kubernetes ==
    \/ Kube(StartPod) \/ Kube(PodReady) \/ Kube(StopPod)
    \/ \E k \in Ordinals : Kube(RemoveVolume(k))
    \/ \E r \in Restores : \/ Kube(SourceRuns(r)) \/ Kube(RestoreJobEnds(r))
                           \/ Kube(PITRJobEnds(r)) \/ Kube(CollectGarbage(r))

Create(r) ==
    /\ state[r] = Absent /\ state' = [state EXCEPT ![r] = New]
    /\ UNCHANGED <<plan, worker, fresh, cluster, reconciler, rfresh, kubernetes, jobs, mishaps>>

Delete(r) ==
    /\ state[r] \notin {Absent, Gone} /\ state' = [state EXCEPT ![r] = Gone]
    /\ deletes < MaxDeletes /\ deletes' = deletes + 1
    /\ UNCHANGED <<plan, worker, fresh, cluster, reconciler, rfresh, kubernetes, jobs,
                   crashes, errors, timeouts>>

\* Nothing of either controller survives but what it wrote.
Crash ==
    /\ crashes < MaxCrashes /\ crashes' = crashes + 1
    /\ Goto("idle") /\ cur' = NoRestore /\ tries' = 0 /\ rpc' = "idle"
    /\ UNCHANGED <<state, plan, copy, fresh, cluster, rsize, rfresh, kubernetes, jobs,
                   deletes, errors, timeouts>>

Next ==
    \/ Worker \/ Reconciler \/ Kubernetes \/ Crash
    \/ \E r \in Restores : Create(r) \/ Delete(r)

Spec == Init /\ [][Next]_vars

\* Both controllers keep being scheduled; Kubernetes starts and stops pods,
\* removes volumes and runs jobs to an end, good or bad.
Fairness ==
    /\ WF_vars(Worker) /\ WF_vars(Reconciler)
    /\ WF_vars(Kube(StartPod)) /\ WF_vars(Kube(PodReady)) /\ WF_vars(Kube(StopPod))
    /\ \A k \in Ordinals : WF_vars(Kube(RemoveVolume(k)))
    /\ \A r \in Restores : /\ WF_vars(Kube(SourceRuns(r)))
                           /\ WF_vars(Kube(RestoreJobEnds(r)))
                           /\ WF_vars(Kube(PITRJobEnds(r)))

FairSpec == Spec /\ Fairness

-----------------------------------------------------------------------------
(* What the restore controller promises.                                    *)

\* States in which a restore has begun to act on the cluster.
Acting == {StopCluster, Restoring, StartCluster, PITR}

\* Nobody but the cluster's user took a restore out of the way: the operator
\* lived, or the restore it left unfinished still blocks the others; and the
\* API server answered every call.
Undisturbed == errors = 0 /\ ~(crashes > 0 /\ deletes > 0)

\* Two restores never act on the cluster at the same time, also when the
\* operator died in the middle of one, when the API server lost a status, or
\* when restores are created and deleted meanwhile (Reconcile's state check,
\* its concurrency check and its deferred status, controller.go:102-142).
OneRestoreAtATime ==
    \A q, r \in Restores : state[q] \in Acting /\ state[r] \in Acting => q = r

\* No PXC pod runs on volume 0 while a restore job rewrites it: the cluster is
\* paused, its pods are gone before the job starts, and the cluster controller
\* does not bring them back (stopCluster, controller.go:261-314).
VolumeExclusive ==
    Undisturbed => \A r \in Restores : Writing(r) => pods = 0

\* At most one restore job writes to volume 0.  After a crash the job of an
\* abandoned restore goes on; the abandoned restore then keeps every other
\* restore out (controller.go:135-142).
JobsExclusive ==
    Undisturbed => \A q, r \in Restores : Writing(q) /\ Writing(r) => q = r

\* Once a restore starts the cluster, no volume holds data from before the
\* restore or a half-written backup: pods 1.. cannot come up with old data
\* (stopCluster deletes their volumes and waits until one is left,
\* controller.go:296-311, and the job's completion is awaited).
FreshVolumes ==
    Undisturbed =>
        \A r \in Restores : state[r] \in {StartCluster, PITR} =>
            \A k \in Ordinals : vol[k] \in {"none", r}

\* A restore is reported Succeeded only when its backup was copied, its binlogs
\* replayed if it asked for that, and the cluster controller has brought the
\* cluster to the size its spec now asks for (startCluster's wait compares
\* observedGeneration with generation because the status of the paused cluster
\* is "ready" too, controller.go:347-357).  Where it asks for none, a pod that a
\* refused call left behind may still come up after the wait.
SuccessIsComplete ==
    [][\A r \in Restores : state[r] # Succeeded /\ state'[r] = Succeeded =>
         /\ restoreJob[r] = "done" /\ (plan[r].pitr => pitrJob[r] = "done")
         /\ observed /\ ((spec.pause => Undisturbed) => ready = DefaultedSize(spec))]_vars

\* What may keep the worker, or a restore, from ever ending.
Obstructed ==
    \/ crashes > 0 \/ deletes > 0 \/ errors > 0
    \/ \E r \in Restores : "failed" \in {restoreJob[r], pitrJob[r]}

\* Every restore that is asked for ends, with success or with failure, unless
\* a job failed, the operator died, a restore was deleted or the API server
\* refused a call (Reconcile has no other way to leave a restore unfinished).
EveryRestoreEnds ==
    \A r \in Restores : state[r] = New ~> (state[r] \in Final \/ Obstructed)

\* The restore has just paused a cluster that was not paused when it took its copy.
HasPaused(r) == cur = r /\ pc = "podsDown" /\ ~copy.pause

\* A restore that pauses a running cluster starts it again, also while the cluster
\* controller writes the object in between, unless this restore fails from here on
\* (startCluster, controller.go:316-345; a failure returns without it, 153-159).  A
\* restore that was refused before it paused anything excuses nothing.
PauseEnds ==
    \A r \in Restores : HasPaused(r) ~> (~spec.pause \/ state[r] = Failed \/ Obstructed)

\* After a restore that succeeded the cluster runs with all its pods: what the
\* end-to-end tests wait for, once the restore is Succeeded
\* (e2e-tests/functions:842-846).
RunningAfterSuccess ==
    [][\A r \in Restores : state[r] # Succeeded /\ state'[r] = Succeeded =>
         ~spec.pause /\ ready = MaxPods]_vars
=============================================================================
