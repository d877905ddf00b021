# A TLA+ model of the Percona XtraDB Cluster operator in `iac-scripts`

`src/` is an infrastructure repository: Terraform for several clouds, Kubernetes
manifests, and one program, the Percona XtraDB Cluster (PXC) operator with its
point-in-time-recovery tool, under `src/k8s/percona`. This project is about that
program. Everything else is declarations and is listed as not modelled.

The operator watches a `PerconaXtraDBCluster` object and keeps a Galera cluster,
its proxy and its backups the way the object asks for. It talks to the world
through the Kubernetes API server, which other actors (the StatefulSet
controller, the kubelet, the garbage collector, users, the operator's own other
controllers) write at the same time. Nearly everything that can go wrong in it
comes from that: what it read is old when it acts on it, it dies between two
calls, a call is refused, something it waits for never comes.

Contents: [inventory](#1-inventory), [plan](#2-plan),
[restore controller](#3-restorecontroller), [smart update](#4-smartupdate),
[binlogs](#5-binlogcollector-and-binlogrecoverer),
[backups](#6-backups-and-backupoutcome), [users](#7-userrotation),
[crash and status](#8-clusterhealth), [deployment and deletion](#9-clusterreconcile),
[versions](#10-versionjobs), [runs](#11-runs), [proofs](#12-proofs),
[disagreements and observations](#13-disagreements-and-observations),
[assumptions](#14-assumptions), [not modelled](#15-not-modelled).

## 1. Inventory

All paths are under `src/k8s/percona`.

| Component | State it keeps | Operations | What is hard | Module |
|---|---|---|---|---|
| Cluster controller, `pkg/controller/pxc/controller.go` | The cluster object (spec, status, finalizers); one lock and one `updateSync` flag per cluster; a global `syncUsersState` | `Reconcile` every 5 s: defaults, recovery, users, finalizers, deploy, update, status | A pass works from one read of the object and may block for hours in a smart update; deferred status with shadowed errors | `ClusterReconcile` |
| Smart update, `upgrade.go` | The StatefulSet's template and status, the pods | `updatePod`, `smartUpdate`, `applyNWait` and its three waits | Replaces pods one by one, primary last, from lists and statuses that age | `SmartUpdate` |
| Version service, `version.go`, `vs.go` | A map of cron jobs, images and versions in spec and status | schedule/remove a job, the job itself, `ensurePXCVersion`, `fetchVersionFromPXC` | The job runs concurrently with `Reconcile`; two writes of the object of which the second may fail | `VersionJobs` |
| Cluster status, `status.go` | Conditions, state and sizes per part | `updateStatus`, `appStatus`, `writeStatus` | Written from the object read at the start of the pass | `ClusterHealth` |
| Full crash recovery, `full_crash_recovery.go`, `build/pxc-entrypoint.sh` | Log tails of pods, signals | find the pod with the highest sequence number, signal it to bootstrap | A stale log line can make it signal a second pod | `ClusterHealth` |
| Users and secrets, `users.go`, `secrets.go`, `pkg/pxc/users` | The users' secret, the internal copy, passwords in the database and ProxySQL | create, rotate, restart pods and proxies | Four stores change one after the other, a failure leaves them apart | `UserRotation` |
| TLS, `tls.go` | Issuers, certificates, secrets | create in order, wait | Order of creation | `ClusterReconcile` |
| Scheduled backups, `backup.go`, `pkg/pxc/backup` | Cron jobs and backup objects | create, update, remove, retention | Retention counts objects in any order | `Backups` |
| Backup controller, `pkg/controller/pxcbackup` | Backup objects, their jobs and volumes | create a job, follow it | Final states are never revisited | `Backups`, `BackupOutcome` |
| Restore controller, `pkg/controller/pxcrestore` | Restore objects, their jobs, the cluster's `pause` | one long `Reconcile` per restore | Stops and starts the cluster behind the cluster controller's back | `RestoreController` |
| Binlog collector, `cmd/pitr/collector`, `cmd/pitr/pxc` | The last uploaded binlog and the last GTID set, in object storage | collect every n seconds | Three puts per binlog; the source host may change | `BinlogCollector` |
| Binlog recoverer, `cmd/pitr/recoverer` | Position in the list of binlogs | select, replay up to a target | Order of binlogs, last transaction | `BinlogRecoverer` |
| Graceful shutdown, `pkg/k8s/graceful_shutdown.go` | - | wait for clusters with finalizers | Races with clusters being deleted | `ClusterReconcile` |
| Defaults and validation, `pkg/apis/pxc/v1/pxc_types.go` | - (pure) | `CheckNSetDefaults`, `Validate` | Results depend on `pause`; the `changed` flag is overwritten | `DefaultedSize` only |
| Remote commands, `clientcmd` | - | logs, pod state, exec | Calls that fail | in `ClusterHealth` |
| Peer list, `cmd/peer-list`; validating webhook, `pkg/webhook`; object builders; API scheme; probes | - | - | - | not modelled |

How they interact. The cluster controller and the restore controller share the
cluster object: the restore controller sets `spec.pause`, the cluster controller
scales the StatefulSet to 0, the restore controller sees the pods go, deletes
volumes, runs a job, unsets `pause` and waits for `status`. The smart update is
called in the middle of a cluster-controller pass, reads the StatefulSet
controller's status, deletes pods and asks the proxy who the primary is. The
version service job and a pass share the cluster object, a mutex and a flag. The
backup controller follows objects that the cron jobs create and that a pass
retires; its objects hold smart updates off. The crash recovery reads the logs
that the pods' entry points write and answers with a signal. The change of
passwords writes a secret, two servers and another secret, which the pods read
when they start. The collector and the recoverer meet only in object storage.

What makes each correct; all of these are checked:

* restore controller: one restore acts at a time; no pod runs on a volume that is
  rewritten; one job writes it; no old data comes back; success is complete;
  every restore ends; the cluster is unpaused;
* smart update: the primary goes last; one pod is down at a time; the proxy
  always has a node; every change arrives;
* version service: two jobs never run without a pass in between; images change
  only at rest; spec, status and pods name the same version in the end; the
  registered job follows the object;
* full crash recovery: the pods that serve are one cluster; what was acknowledged
  survives; every crash heals;
* status: it comes to say what is, and stays;
* users: the operator keeps its login; after a rotation the two secrets, the
  database and the proxy agree and everything that holds a password has been
  restarted;
* backups: a backup's final state says what its job did and is final; every
  backup ends; retention spares the newest and catches up; cron jobs and the
  collector follow the specification;
* binlogs: the archive has no gap; every transaction gets into it; a death between
  two puts loses nothing; what is replayed is what was archived after the backup,
  in order, up to the target;
* finalizers: pods go in order; no volume goes that was not asked for; a deleted
  cluster goes with all it owns;
* deployment: what exists comes to be what is asked for, and the database runs
  with the configuration of the object.

## 2. Plan

In this order: what can lose data or service first.

| # | Module | Models | State |
|---|---|---|---|
| 1 | `RestoreController` (+ `MC`, `_proofs`) | the restore controller composed with the cluster controller, the StatefulSet, volumes, jobs | done, six properties proved |
| 2 | `SmartUpdate` (+ `MC`, `_proofs`) | the smart update with the StatefulSet controller, the proxy, backups | done, three properties proved |
| 3 | `BinlogCollector`, `ArchiveLog`, `BinlogRecoverer` (+ `MCBinlogs`, `Binlogs_proofs`) | uploads against nodes that rotate, stop and are rebuilt; what a recovery makes of the archive | done, refinement and four properties proved |
| 4 | `Backups`, `BackupOutcome` (+ `MC`, `_proofs`) | both controllers of backups, and what a backup object promises | done, refinement and two properties proved |
| 5 | `UserRotation` (+ `MC`, `_proofs`) | secrets, database, proxy, restarts | done, one property proved |
| 6 | `ClusterHealth` (+ `MC`, `_proofs`) | pods' logs, the operator's reading of them, signals, the status | done, two properties proved |
| 7 | `ClusterReconcile` (+ `MC`, `_proofs`) | deployment, TLS, configuration, finalizers, shutdown | done, two properties proved |
| 8 | `VersionJobs` (+ `MC`, `_proofs`) | jobs, passes, the API server | done, three properties proved |

What the plan has left: an abstract specification of the rolling replacement (a set
of pods that only shrinks, primary last); a second collector during an update of its Deployment.

## 3. RestoreController

One cluster, several restore objects, one worker. controller-runtime handles one
object at a time per controller unless told otherwise (`pxcrestore/controller.go`
does not), so the restore controller is a single sequential process: `pc` is the
call of `Reconcile` it stands before and `cur` the restore it handles. Every
action is one call to the API server, or one wait with its exits, and includes
the error path of that call.

| State | In the code |
|---|---|
| `state[r]` | `status.state` of the restore object (`Absent`, `Gone`: there is none) |
| `plan[r]` | what the restore's spec and its backup make the code do: destination, PITR, whether the checks before `stopCluster` pass |
| `copy`, `fresh`, `tries` | `cluster`, deep-copied before `stopCluster`; whether its resourceVersion is current; the loop counter in `startCluster` |
| `spec`, `observed`, `pxcReady` | the stored cluster object: pause and size, `observedGeneration = generation`, `status.pxc.status = ready` |
| `rpc`, `rsize`, `rfresh` | the cluster controller's pass: read, scale, status |
| `replicas`, `pods`, `ready`, `vol`, `doomed` | the StatefulSet, its pods, their volumes and those being deleted |
| `source`, `restoreJob`, `pitrJob` | what `restore`, `restorePVC`, `pitr` create |

The cluster controller appears as three actions, `ReadCluster`, `ScalePXC`,
`WriteStatus`: between them the restore controller may pause, so `ScalePXC` may
bring pods back for a moment from a stale read, and `WriteStatus` may write an
old status (only if its copy is current, else the server refuses it).
`DefaultedSize` is what `CheckNSetDefaults` does to the size of the PXC part: 0
if paused, at least 3 and odd unless unsafe configurations are allowed.

Errors: every call may be refused (`ApiFails`), every wait may expire
(`WaitLimit`), the operator may die anywhere (`Crash`), the user may delete a
restore in any state (`Delete`). The deferred function that reports failure is
registered after the `List` of `ListRestores`, as in the code: an error of that
call leaves the restore `Starting` for good.

`Concurrent` is the check for a restore that is "running now"
(`controller.go:139`) as it stands: it also counts restores nobody has started.

## 4. SmartUpdate

One cluster of `Size` pods, one worker. A pass begins with the read of the
cluster object (`Begin`), writes the StatefulSet (`Apply`), and, unless all pods
are updated, goes through `CheckBackup`, `ListPods`, `FindPrimary` and then, pod by
pod, `ReplaceNext`, `AwaitRestart`, `AwaitSync`, `AwaitOnline`. Any error ends the
pass; the next pass starts from nothing.

| State | In the code |
|---|---|
| `want`, `template` | the pod template the cluster object asks for, that of the StatefulSet |
| `status`, `seen` | the StatefulSet's status; the copy that came back with the update and is used until the end of the pass |
| `pod` | the pods: phase, revision label, deletion timestamp |
| `listed` | the pod objects of the `List`, each refreshed by the `Get`s of `waitPodRestart` |
| `primary`, `online`, `rows`, `main` | the proxy's view: whom it sends writes to, which pods it lists as `ONLINE`, which it has in its table at all; the primary as looked up |
| `todo` | the loop: pods by descending name, the primary last |

The StatefulSet controller is `SyncStatefulSet`: it creates the first missing pod
and counts. The worker may see any lag of it, since the step is free to come
late. With HAProxy the question for the primary is forwarded to the primary and
fails with it, and `waitUntilOnline` only sleeps. With ProxySQL it answers itself,
and the wait goes on only while one of the pod's statuses is other than `ONLINE`: a
pod of which ProxySQL has no row passes at once (`upgrade.go:307-319`, `NotOffline`).
Whether ProxySQL drops a node that left the cluster from its table, until it sees
it again, is up to its scheduler, so both are modelled (`DropsNodes`,
`ProxyDrops`).

The check for "all replicas are ready" is made on a status that counts a
terminating pod as ready, and backups are looked at once per pass, so one that
starts during an update does not keep it from continuing, whatever the message at
`upgrade.go:201` says; both are as in the code.

## 5. BinlogCollector and BinlogRecoverer

The collector is a loop: each round it takes the first synced node by name, lists
that node's binlogs, flushes them, finds the binlog that holds what was uploaded
last and uploads from there. `pc` is the call it stands before; every action is
one call with its errors, after which the round ends and `lastSet` is all that is
kept in memory (`EndRound`). Each binlog takes `PutObject`, `PutSet`, `PutLast`.

| State | In the code |
|---|---|
| `committed`, `at` | the cluster's transactions, and when they committed; a number stands for a GTID, a set of numbers for a GTID set |
| `starts`, `born`, `applied`, `status` | each node's binlogs by the first transaction they may hold, when they were created, how far the node is, and its state |
| `objects`, `sets`, `lost`, `last` | the storage: binlogs (the GTID set of each, and the time in its name), those with a `-gtid-set` object, the transactions that an object does not hold though its GTID set names them, `last-binlog-set.txt` |
| `host`, `todo`, `named`, `upload`, `lastSet`, `current` | `c.db`, the rest of `list`, `binlogName`, `upload`, `c.lastSet`, the binlog in `manageBinlog` |

All nodes write the same transactions to binlogs of their own that are cut
elsewhere, and that is what makes the component hard: after a change of the node
the archive holds overlapping binlogs, and where to resume is found by content.
Nodes commit, rotate, are desynced, stop, return (with a new binlog for what they
missed) or are rebuilt from another node, then with no older binlogs or only that
node's newest one. `used` counts each kind of mishap against `Allowed`.

An upload may leave out the end of a binlog and be taken for complete: it reads a
buffer that is still being filled and ends when that is empty (`Tails`,
`collector.go:275-313`). So the model tells apart what the GTID sets say is archived
(`Archived`) and what the objects hold (`Held`, `Holds(o)` of one). The collector
goes by the first, the recoverer selects by the first and replays the second.

The recoverer keeps no state while the collector works, so `BinlogRecoverer` is
what it computes from an archive: `Selected` (the binlogs), `Possible` (it does not
fail), `Recovered` (the outcome), and the properties are stated of every archive
the collector can leave, for every backup and every target. A backup is the
number of transactions it holds. What they promise is said of what the archive
really holds: all of `Held` is replayed, and each transaction after all before it,
except those that the archive is said to hold and does not. That these are lost, and
without a message, is an [observation](#13-disagreements-and-observations), and no property
covers it up: `CatchesUp` asks for each transaction in `Held`, and names those that an
upload left out as what it excepts.

`ArchiveLog` is what the archive promises whoever recovers from it: a piece of the
cluster's history that only grows, by transactions that adjoin it or lie in it, and
that begins where the history does unless nodes are rebuilt. The collector
implements it (`ArchiveIsALog`), with `log` read off the GTID sets in the storage.

If the collector dies after its very first upload and before `PutLast`, and the
node is rebuilt before the next round, the archive gets a gap: `NoGap` is checked
with rebuilds and no deaths, `LeftoversHeal` and `CatchesUp` with deaths and one
node. That no other combination of mishaps leaves a gap is [proved](#12-proofs).

## 6. Backups and BackupOutcome

Two workers of one process: the backup controller's, which takes one backup
object at a time (`Look`, `MakeVolume`, `MakeJob`, `ReadJob`, `WriteStatus`), and
the cluster controller's pass through `reconcileBackups` (`BeginPass`,
`PassCollector`, `PassSchedule`, `PassCron`, `PassRetire`). Every action is a call
with its early returns; `WorkerFails` and `PassFails` end either at any call.
Around them jobs run, fail and are retried, the garbage collector removes what
lost its owner, cron jobs create objects, users edit and delete.

| State | In the code |
|---|---|
| `spec`, `ready` | `spec.backup` (section, PITR, schedules, storages, `keep`, bucket), `spec.pause`; the cluster's status |
| `backup`, `made`, `from` | backup objects and their status (state, destination), `creationTimestamp`, the label `ancestor` |
| `job`, `volume`, `uploads` | the jobs and claims by the name `genName63` gives, with their owners; complete uploads by job and destination |
| `cron`, `collector` | the CronJobs and the collector's Deployment |
| `worker` | `instance`, the destination and the status computed by `updateJobStatus` in the backup controller's `Reconcile` |
| `pass` | the copy of the object, the schedules still to go and the list of `oldScheduledBackups` |
| `retired`, `withdrawn` | history: what retention and what users deleted |

`BackupOutcome` is what a reader of a backup object may rely on: pending until it
is reported, reports are final, success means a complete upload, and no volume
is lost under a success. `Backups` implements it (`BackupOutcomes`), with
`outcome` read off the objects and `uploaded` off the uploads.

## 7. UserRotation

The pass as far as passwords go. The users' secret is made if it is missing
(`EnsureSecret`), copied on first sight (`ReadSecrets`), completed with the
operator's account on clusters made before it existed (`AdminUser` and its two
writes), grants are done once (`Grant`, `GrantDone`), and a change is carried to
the database (`AlterUsers`), ProxySQL (`AlterProxyUsers`, `SyncUsers`), the
internal secret (`WriteInternal`) and, by an annotation, the pods (`UpdatePods`).
The synchronisation that runs beside the passes is `Deploy` (start) and `Resynced`.
A password is a number, the n-th of its user.

| State | In the code |
|---|---|
| `sys`, `internal`, `granted` | the two secrets and the annotations of the internal one |
| `db`, `rights` | accounts of the database and their grants |
| `proxy`, `synced` | ProxySQL's own accounts, and the password of root it lets clients in with |
| `syncing` | `syncUsersState` and its goroutine |
| `forgotten` | history: the PXC or ProxySQL pods whose restart was lost with a pass |
| `template`, `pods` | the annotation `last-applied-secret`; of the running pods, that and what they read from the secret |
| `pass` | `sysUsersSecretObj`, `internalSysSecretObj`, `restartPXC`, `restartProxy` |

`plan` is the environment of a behaviour: which passwords the user changes,
whether the secret is deleted, whether it comes from a version without the
operator's account, and which steps may fail. `OperatorLogsIn` speaks of the
behaviours whose plan is `Uninterrupted`: the operator's own password never
changes (`Steady`), or nothing fails between the change and the write of the
internal secret (`Changing`), or the account is made for an older cluster while
the users' secret is left alone (`Upgraded`). Outside of these the code locks
itself out (see [below](#13-disagreements-and-observations)).

A pass may also fail after the write of the internal secret (`users.go:110`), before
it has annotated PXC's StatefulSet or ProxySQL's. No later pass sees the change
again, so those pods keep the old passwords: the model does that too, and notes
the groups in `forgotten`. `PodsFollow` is claimed of the others, and of these
again once they are restarted for any other reason.

## 8. ClusterHealth

The database's pods run the entry point: look for a primary, wait with a line in
the log, bootstrap on a signal, or join. The operator's pass checks that all pods
run, reads the log of the first, then all of them one by one, and signals the pod
with the highest number; it ends with the status, computed from another read of
the pods and their logs.

| State | In the code |
|---|---|
| `node[p]` | where the entry point is: `starting` up to the first look for a primary, `armed` once USR1 is trapped, `waiting` once LAST_LINE is printed; then mysqld |
| `signalled` | pods that got USR1 |
| `data`, `view`, `committed`, `reach` | the last transaction on each volume, Galera's primary component, what clients were told, what the component has received |
| `proxy`, `outdated` | the proxy's pods; whether a change of the template is on its way |
| `state`, `pxc`, `front`, `conditions` | the object's status |
| `pass` | the loop variables of `doFullCrashRecovery` and `appStatus`, the error of the pass |

A crash takes any of the given sets of pods at any moment, also in the middle of
the scan or of a recovery. `CallFails` ends a pass with an error, `Dies` without a
status.

## 9. ClusterReconcile

A pass reads the object and then makes a list of calls, `deploy` and the updates
of the parts, or the finalizers in their order (`Begin` computes the list, each
call is a step). Everything may change between two calls, and each may fail.

| State | In the code |
|---|---|
| `object` | the proxy and the configuration asked for, deletion, finalizers |
| `objects` | what exists: per part the StatefulSet, services and disruption budget; certificates and secrets |
| `replicas`, `template`, `configMap` | of the database's StatefulSet: size and configuration hash; the ConfigMap |
| `pods`, `first` | the pods; the configuration the first one has loaded |
| `volumes`, `dying` | claims, and those with a deletion timestamp |
| `operator` | up, stopping (it got the signal and waits for clusters), down |
| `pass` | the calls still to make, the finalizers kept so far, the error |
| `history` | the finalizers the object was deleted with; where a pass was cut short |

`CHECK_DEADLOCK FALSE`: the system really stops once the cluster is gone and the
operator with it.

## 10. VersionJobs

One cluster's mutex (`holder`): a pass or a job of the version service has it. Both
ask the service (`Ask`), store the images (`StoreImages`, refused if the object has
changed since it was read) and then the versions (`StoreVersions`, after a new
read). A pass asks only while no version is known; then it deploys, asks the
database for its version (`FetchVersion`), registers or removes the job
(`Schedule`) and stores the status (`EndPass`). A version stands for its image.

| State | In the code |
|---|---|
| `object` | image and schedule of the specification; version, image, readiness and `observedGeneration` of the status |
| `set`, `pods` | the StatefulSet's template and whether its status counts with it; what each pod runs |
| `recommended` | the service's answer |
| `job` | `crons.jobs` and the registered function |
| `updateSync`, `holder` | the flag and the mutex of `lock`; `holder.cr` is the copy, `holder.read` what it was read as |
| `history` | whether a pass came since the last change by a job; whether the last status was stored; whether a version was fetched early |

## 11. Runs

| Run | Instance | Shows |
|---|---|---|
| `restore_mishaps` | 2 restores of any of 5 plans, safe size (3 pods), 1 crash, 1 deletion, 1 refused call | `OneRestoreAtATime`, `VolumeExclusive`, `JobsExclusive`, `FreshVolumes`, `SuccessIsComplete` |
| `restore_liveness` | 2 restores, size 2 unsafe, 1 expired wait, fair | `EveryRestoreEnds`; `PauseEnds`: whoever has paused a running cluster starts it again or has itself failed since |
| `update_order` | 3 pods, ProxySQL that drops nodes that are offline, 2 changes, 1 crash | `PrimaryLast`, `OneDownAtATime`, `ServiceStaysUp` |
| `update_liveness` | 2 pods, HAProxy, 1 change, 1 lost pod, 1 move of the primary, 1 backup, 1 refused call, fair | `EveryChangeArrives` |
| `archive_faults` | 2 nodes, 4 transactions, 1 rotation, 1 outage, 1 rebuild | `NoGap`, `RecoversLaterBackups`, `ArchiveIsALog` |
| `archive_alone` | 1 node, 4 transactions, 2 cut uploads, 1 crash, 1 refused call, 1 rotation, 1 desync, fair | `RecoversLatest`, `RecoversToDate`, `LeftoversHeal`, `CatchesUp` |
| `backups` | up to 2 backups, of a schedule in a bucket or the user's on a volume, 1 replaced pod, 1 deletion, 1 refused call | `SuccessHasData`, `RetentionSparesNewest`, `BackupOutcomes` |
| `backups_follow` | 2 firings of a schedule of which 1 is kept, 1 edit, 1 spell of a cluster that is not ready, fair | `EveryBackupEnds`, `RetentionCatchesUp`, `SchedulesFollow` |
| `users` | PMM and ProxySQL, 3 plans, 2 changes, 1 failing step, also after the internal secret is written, fair | `OperatorLogsIn`, `RotationsEnd`, `PodsFollow` |
| `health` | 3 pods that crash together or the last alone, HAProxy, 2 conditions, 1 commit, 2 mishaps, fair | `OneCluster`, `NothingLost`, `CrashHeals`, `StatusFollows` |
| `cluster` | 2 pods, 2 lists of finalizers, HAProxy or ProxySQL, 2 configurations, cert-manager, 1 edit, 1 mishap, fair | `VolumesKept`, `InOrder`, `DeletionEnds`, `Follows` |
| `versions` | 2 pods, 2 versions, 2 schedules, 2 edits, 1 mishap, fair | `TypeOK`, `JobsApart`, `ImagesChangeAtRest`, `VersionFollows`, `JobFollows` |

Every module has a type invariant that TLC has found to hold on these instances;
those of the restore controller and of the versions are kept in their runs, as
both are proved, too.

Why the bounds suffice. Two restores are the least that can conflict, and a third
adds nothing: a restore relates to the others only through "some other is busy".
Two pods give one volume that is kept and one that is dropped; size 2 under safe
configurations gives three pods, so defaulting is not the identity. Three pods
give a primary, a secondary to be replaced before it and one that must serve
meanwhile. Two changes allow a template to be replaced during its roll-out, also
by the one before it. One mishap of each kind, anywhere, covers a failure between
any two calls; two crashes differ from one only in what a later pass sees, which
is the state alone. Two nodes are the least with a change of the node, and with
one first by name; four transactions are the least with two binlogs that no
single one covers and two more whose order matters; two cut uploads let one binlog
after another miss its end, or the same one twice. Two backups of a schedule
that keeps one give one to retire and one to spare, with creation times equal or
not. Two changes of passwords allow the second to come before the first has
arrived everywhere. Three pods of a crash are the least with two that the scan
reads after the first; two mishaps are a crash and another, or a failure, in the
middle of the recovery; two conditions make the list overflow. Two edits allow a
schedule to be taken away and given back between two passes.

Fairness. controller-runtime queues a changed object and the controllers ask to be
called again after 5 seconds, so the worker of each is scheduled again and again
(weak fairness of the workers' steps). The backup controller's worker takes
objects from a queue that repeats while they stay in it; another backup may be
taken first any number of times but not forever (`SF_vars(Look(b))`). A job may end
badly, a wait may expire; both are fair only in that they end. Kubernetes starts,
stops and removes what it should, cert-manager issues what is asked, cron jobs of
the operator fire. Nothing is assumed to succeed: `EveryRestoreEnds` holds unless
a job failed, because the code then polls without end (`createJob` looks for the
`Complete` condition only). Crashes, edits, deletions, lost pods, cron firings of
backups have no fairness. The collector's loop never ends (`main.go:43`), so
`WF_vars(Collector)`; a node that is down or desynced comes back, by a pod restart
or the end of the transfer. Deadlock is checked everywhere but in `cluster`,
whose system stops when it is gone: the other models keep passing.

## 12. Proofs

Every proof holds for all values of the constants that the module's named
assumptions allow: any numbers of objects, pods, edits, mishaps.

`RestoreController_proofs`:

* `TypeCorrect`: `Spec => []TypeOK`. By cases over the actions (`TypeStep`). It
  rests on `DefaultedSizeType`: defaulting keeps any size within 0 and the default
  of the configured one.
* `RestoresExclude`: `Spec => []OneRestoreAtATime`. The property is not inductive:
  a second restore may not be `Stopping Cluster` because of what its worker saw
  before. `Inv` adds that when the worker is past the concurrency check, no other
  restore is in a busy state. `MostStepsProceed` shows that all steps but six
  leave the states of the restores alone; `InvStep` treats those six: picking,
  the check (which establishes the new conjunct), the reports (which rely on it),
  the end, creation and deletion, and the crash, after which the conjunct is void
  and the busy restore it left is exactly why the check refuses all others.

Its second part proves what the two properties of the volume say under their
reservation (`Undisturbed`: no call was refused, and the operator did not die where
a restore was deleted too; `Calm` says it is never regained):

* `JobsExclude`: `Spec => []JobsExclusive`. `AtWork` says whose a writing job is:
  that of the restore in hand, or of one that a crash left `Restoring`. By `Inv`
  nobody passes the check beside one that was left behind.
* `NoPodBesideRestore`: `Spec => []VolumeExclusive`. A pass of the cluster
  controller may have read the cluster before the pause and scale it up after it,
  so that "paused and no pods" is not enough for a job to start. `Scaled` says why
  it is: a cluster that is not paused has its pods, unless a restore waits for
  them, so that when a pause begins there are some, and the last of them goes only
  when a later pass has read the pause (`Down`). It needs to know that a wait for
  the restarted cluster ends only with pods (`StartingUpStays`), hence what a
  status that is current says (`Passed`), and that the spec written back asks for
  some (`Sized`). `Stopped` then follows the worker from the pause to the job.

* `FreshVolumesAlways`: `Spec => []FreshVolumes`. `Cleaned` says that volume 0 is
  never deleted, that from the end of the wait for the others to the end of the job
  it is the only one, that a job that is done has filled it, and that from there on
  a volume is either missing or a copy of it. The wait counts volumes, so that the
  one left must be volume 0 (`OneLeft`); and while pods come up nobody writes
  (`NobodyWrites`, from `AtWork`).

Its third part is about what a success stands for:

* `SuccessAlwaysComplete`: `Spec => SuccessIsComplete`, an action property, from
  `Awaited`: the jobs the worker has waited for are done (`JobsAwaited`), and the
  size it has seen is still the size asked for (`SizeAwaited`). A pass of the
  cluster controller that read an older spec could undo the size after the wait;
  it cannot, as the generation is observed only by a pass that has read it, and
  passes do not overlap. `Configured` is what defaulting makes of a default
  (`DefaultedTwice`). The attempt to prove the property for every spec failed for
  a reason: see the second observation [below](#13-disagreements-and-observations).

`VersionJobs_proofs`:

* `TypeCorrect`: `Spec => []TypeOK`, which includes that a job holds the mutex
  only while the flag says `wait`.
* `JobsStayApart`: `Spec => JobsApart`. The invariant `Alternate` says that
  while a job may change the object there was a pass since the last that did, and
  that no job is due before there was one: the flag says `wait`, or no job is
  registered, or a pass has the mutex. Passes may end, be killed and fail in any
  way; the flag goes back to `done` only where `history.passed` becomes true, or
  with the operator, which takes the registered jobs along.
* `JobsFindRest`: `Spec => ImagesChangeAtRest`. A job begins when the stored status
  says ready. `AtRest` and `Settled` say what that stored status is worth: unless
  the last pass was blind, a ready object has no pods on their way, and neither
  the pods nor the template can leave that state before the next pass.

`Backups_proofs`:

* `OutcomesKept`: `Spec => BackupOutcomes`, that the two controllers, the jobs,
  the garbage collector and the users together implement `BackupOutcome`, for any
  number of backups, schedules, storages and retries, provided that no two
  backups share the name of their job (`Distinct`; see
  [below](#13-disagreements-and-observations) for what happens otherwise). The
  invariant behind it has four parts: `Typed`; `Owned` (a job and a volume under a
  name are of a backup that was made and has that name); `VolumesApart` (an upload
  to a volume is one to the volume of its own name, so that the collector takes no
  other's); `Followed` (the worker is at a backup that is not over, and where
  success is seen, at the job, by the worker or in the status, the upload is
  complete). Every step of `Backups` is then a step of `BackupOutcome` or leaves
  what it sees unchanged.

* `SuccessBacked`: `Spec => []SuccessHasData`, provided `Distinct` and that no bucket
  is replaced (`"bucket" \notin Edits`; it fails without, see below). Where a
  backup goes is then settled when it is made (`Settled`), what the worker carries
  and what a job was made for is that place (`Destined`), and success stands for the
  upload to it wherever it is seen (`Arrived`). A volume that is collected is one
  whose owner is gone, and by `Distinct` no other backup's data (`DataKept`).

* `NewestSpared`: `Spec => []RetentionSparesNewest`, without any proviso. A pass
  finds what is to go and deletes it one by one, while the user deletes others, so
  the property is not inductive. `Spared` says the same of the backups that are
  going to be deleted: of each there is one, not itself on the way out, that outlives
  it. When a later pass takes that one as well, it leaves a newer one in turn
  (`OneIsKept`, which counts: of more than `k` all but `k` go, and `k` is not 0).
  `Lasting` says why it stays good: its name is not used again and the worker
  never writes the status of a backup that is over. TLC checked `Spared` on three
  backups of a schedule, one deletion and a change of the number (12.5 million states).

`Binlogs_proofs`:

* `NoGapEver`: `Spec => []NoGap`, if no node is rebuilt (or there is one only, which
  the model never lets go down), or if the collector never
  dies and no call is refused; outages, rotations, desynced nodes and cut copies
  may happen in either case. `NoGap` says nothing of a round, so `IInv` adds: after
  the flush the list is a run of closed binlogs (`Listed`), and what closed binlogs
  hold never changes, whatever commits, rotates or comes back (`ClosedKept`); the
  next upload adjoins the archive (`Resumes`), since it starts with a binlog that
  shares a transaction with the last set, with one that starts where the uploaded
  one ends (`NextStart`), or with the first of all; the last set is archived
  (`Known`); and without a last set there is no archive, or it begins where every
  node does (`Floor`). The last is the only part that needs the assumption.
  `Joined` is the fact on intervals behind it. TLC checked `IInv` on two nodes and
  3 transactions under either assumption before the proof.
* `ArchiveIsALogEver`: `Spec => ArchiveIsALog`, the refinement of `ArchiveLog`, under the
  same assumptions and from the same invariant. Only `PutSet` moves the log, and what
  it adds is the binlog of `Resumes` from its start to its greatest transaction
  (`Appended`); every other step leaves both variables alone or is `Commit` (`LogStep`).
* `LaterBackupsRecover`: `Spec => []RecoversLaterBackups`, if no node goes down, for
  any nodes and every other mishap; `LatestRecovered` and `DateRecovered`: `Spec =>
  []RecoversLatest` and `Spec => []RecoversToDate` for one node. Cut uploads are among
  the mishaps, any number of them: what is proved is that all the objects hold is
  replayed, and each transaction after all before it but those that an upload left
  out. The three follow from one invariant, `RInv`, which adds to `IInv` what the
  archive is made of: every uploaded binlog is still a closed binlog of some node
  (`Kept`), and every binlog is younger than the transactions before its first one and
  older than those from there on (`Dated`), which is what an outage breaks; and what
  is missing of a binlog is its end (`Tailed`), so that an object that holds a
  transaction holds those before it in that binlog. So a transaction that a binlog
  does not hold, though it holds a later one, is older than it, and the binlog it is
  in is older still (`Between`): it has been replayed before. That the archive has no
  gap says that there is such a binlog (`AllReplayed`). With one node two binlogs that
  begin with the first transaction are the same, so that the search never stops before
  the first binlog (`NothingLeftOut`). TLC has checked `RInv` on two nodes, 3
  transactions and one each of cut upload, death, rotation and desync (784,199
  states).

`SmartUpdate_proofs`:

* `PrimaryIsLast`: `Spec => PrimaryLast`, for any size, either proxy and any bounds.
  When the primary is deleted only its name is left in `todo`; what that says of
  the other pods is in three parts of `IInv`. The primary is in the last place of
  the order only (`Ordered`); a pod that was listed waits for its turn or was seen
  with the revision of the status (`Handled`); and a pod that is no longer what the
  worker holds of it was created since, from the template (`Fresh`), which is why
  the property allows the template's revision beside the status's. `Places` and
  `OrderOf` are the facts on the order: every pod found has a place, and no two
  share one. `Moves` is what goes on around the worker as far as this matters, and
  `DeletedInTurn` that nobody but the worker deletes.
* `OneDownAlways`: `Spec => OneDownAtATime`, for any size, either proxy and any bounds.
  As long as nothing else takes pods down, `OneByOne` says at which calls all pods are
  ready and at which all but the one being replaced are. It rests on what the status
  counts: it is as new as the last write, so that a pass that goes on has read of a
  full set (`Recorded`, `Counted`), and none of its pods leaves by itself
  (`StaysCalm`). TLC checked it on 3 pods, HAProxy, 2 changes, 1 switch and 1 backup
  (458,550 states) before the proof.
* `ServiceAlwaysUp`: `Spec => ServiceStaysUp`, for any size and bounds. Each death of
  the operator may leave one pod behind that nobody waits for, so `SInv` counts.
  `Lost`, `Away`, `Doubtful`, `Missing` and `AtRisk` are the sets of pods that do not
  serve or that the worker may still delete before they do, each with the number of
  deaths that explains it (`Served`). `Headed` says that the proxy has a primary that
  serves, or none and only good pods to choose from; it and the wait go by
  `NotOffline`, as the code does, so that nothing rests on a pod being listed.
  `Noticed` says that the proxy notices a node that went before it is back.
  Cardinalities change by at most one in a step (`Fewer`, `OneMore`), and with fewer
  deaths than pods but one something is left (`Room`, `RoomBeside`, `AnotherServes`).
  TLC has checked `SInv` in the instance of `update_order` (858,358 states).

`ClusterHealth_proofs`:

* `OneClusterAlways` and `NothingIsLost`: `Spec => []OneCluster` and
  `Spec => []NothingLost`, for any number of pods, sets of pods that crash together
  and bounds. Both follow from one invariant, `IInv`. Its first part says that the
  cluster is in one of three situations: nobody serves, and whoever has a signal on
  its way waits for it and is the newest (`Waiting`); the newest is at bootstrapping,
  alone (`Bootstrapping`); or the cluster serves, and nobody has a signal
  (`Serving`). `Newest` is the order of the scan, the largest number and of equal ones
  the first pod, so that no two are (`OnlyNewest`); by `Durable` it has all that was
  acknowledged. The second part is about the scan, which reads one log after the
  other while the pods go on. While nothing happens it has found the newest of what it
  has read (`Steady`). When something does, because the signal of an earlier pass
  arrives late, or the cluster crashes again, the scan comes to nothing (`Futile`):
  a pod it has yet to read does not wait, or the one it will choose no longer hears
  the signal. That a container takes longer to start than a scan lasts is needed
  here: else the restarted pod would hear it. TLC checked `IInv` on three pods with
  any set of them crashing (680,000 states) before the proof.

`ClusterReconcile_proofs`:

* `VolumesAlwaysKept`: `Spec => []VolumesKept`. The property is not inductive: a
  volume is marked by a call that a pass worked out from a copy read long before.
  `Licensed` adds that every call a pass still has to make is licensed by what the
  object is now. A pass that works off finalizers has only calls of
  `FinalizeCalls`, for finalizers that were asked for, and its object is deleted;
  one that deploys has only `DeployCalls`, in which the only claims are ProxySQL's
  and only with their finalizer (`DeployLicensed`). What is licensed stays so,
  because deletion is never taken back (`StaysLicensed`), and the finalizers kept
  after an error, which the next pass reads, were asked for too (`KeepOK`,
  `UnfinalizeLicensed`).

* `PodsGoInOrder`: `Spec => InOrder`, an action property. `Shrinking` says that from the
  deletion on the database's pods are the first `n`, that some are missing only once
  the set asks for one, and that the finalizer stays until they are few for good:
  it is on the object's list, and each pass has it before it, keeps it, or finds few
  pods. A pass that began before the deletion still deploys, and would scale up
  again; it ends before the first that takes pods down (`PassInOrder`). `Founded` says
  that the set is there as long as its pods are: nothing but the finalizer for the
  claims drops it, and the garbage collector comes only when the object is gone,
  which `LastOnly` lets no pass bring about before its last call. TLC checked the
  invariant on 3 pods and three lists of finalizers (257,221 states) before the proof.

`UserRotation_proofs`:

* `OperatorAlwaysLogsIn`: `Spec => []OperatorLogsIn`, for any plans. The property says
  where the four places of a password stand between two passes; `IInv` says it for
  every step of one. What a pass has read is there, the database lives in every step
  that logs in, and users are changed only on a cluster that was ready (`Orderly`).
  Then one part for each kind of plan: the password is the first one everywhere
  (`Same`); the copy of the internal secret is the secret itself, the database agrees
  with it up to `ALTER USER` and the proxy's administrator up to `UpdateProxyUsers`,
  and from there on both agree with what will be written (`Held`), which also says
  that neither login is refused in between; the new account of an older cluster is
  ahead of the users' secret by one write and of the internal one by two
  (`Introduced`). `EndKeeps` treats every error at once, and `AlteredOperator` says what
  becomes of the operator when the changes stop midway. TLC checked `IInv` with
  failures of every step that the plans allow (211,158 states) before the proof.
* `WellFormed`: `Spec => []TypeOK`, from the same invariant; it includes that what is
  in `forgotten` are groups of pods.

Only model-checked: everything that must eventually happen: that every change
arrives, that rotations end, that the archive catches up, and that deployment and
deletion come to an end. Liveness under fairness and `ENABLED` are out of the prover's
reach and stay with TLC. So does `RecoversLaterBackups` with an outage, which its
theorem leaves out and the run has.

## 13. Disagreements and observations

What the code does against its own comments, messages and tests, or what a
reader would not expect. The models do the same unless noted; no run is kept for
these, the definitions named here are in the modules and TLC refutes each on the
instance given.

* `RunningAfterSuccess` (2 restores, plans `S3AndBad`, size 2): a restore after
  a failed one copies the paused spec, so it never unpauses, and succeeds because
  a cluster of size 0 with 0 ready pods is ready. Of two restores created together
  the first one fails, as the check for one "running now" counts the other.
* `SuccessIsComplete` without the reservation for a paused spec (3 restores, plans `S3AndBad`, size 1
  unsafe, 1 refused call): a restore whose wait for the restarted cluster is
  refused leaves a pod on its way; the next one pauses, sees 0 pods before it has come
  up and fails at its destination; a third copies the paused spec and succeeds on
  0 of 0 ready pods while that pod comes up.
* `WaitsForAllReplicas` (3 pods, HAProxy, 1 crash): after a restart of the operator
  the next pass of a smart update deletes a second pod while the first is missing.
* `ServiceStaysUp` without `crashes + 1 < Size` (2 pods, ProxySQL, 1 crash, 2
  changes): the operator dies when it has deleted the secondary. The pod is still on
  its way out when the next pass reads a status that counts it as ready
  (`upgrade.go:205`), and gone when the pods are listed (210-219). Only the primary is
  listed, and it is deleted next: no pod serves. With 3 pods it takes two deaths.
* `ServiceStaysUp` with a pod that ProxySQL lists as `ONLINE` in place of
  `NotOffline` (the instance of `update_order`): the operator dies when it has
  deleted one secondary; the next pass replaces the other, and its wait takes that
  pod, of which ProxySQL has no row, for online (`upgrade.go:307-319`). Then it
  deletes the primary, while the only other pod that serves is not yet back in
  ProxySQL's table, so that clients get through to nobody.
* `PauseEnds` without `state[r] = Failed`: a restore that fails after it has paused the
  cluster returns without `startCluster` (`controller.go:153-159`), and the cluster
  stays paused until somebody unpauses it by hand.
* `PodsFollow` without `forgotten`: a pass that ends after `users.go:110` takes the
  annotations it had yet to write along. The next one finds the secrets equal, and
  the pods keep the old passwords.
* `RecoversLatest` (2 nodes, `OneSwitch`): names sort by when a binlog was created, whatever its
  node. A later binlog of another node that ends earlier, but holds all that the
  backup holds, stops the search, and a binlog with newer transactions behind it
  is never replayed.
* `RecoversLaterBackups` (2 nodes, 5 transactions, one each of desync, outage and
  rotation): a node that comes back writes what it missed to a binlog that is younger
  than its transactions. When the collector takes that one and then a binlog of the
  other node that starts later but was created before, the order of the names
  replays the later transactions first.
* `CatchesUp` (2 nodes, `OneLoss`): once the first node was rebuilt, none of its
  binlogs holds anything of the last set, and every later round fails there.
* `UploadsAreWhole` (1 node, `OneCut`): the upload reads a buffer that is still being filled and ends
  when it is empty, without an error. The GTID set is written all the same, so the
  end is not uploaded again as long as the next round goes by that set, and a recovery leaves it out: the failure of
  `mysqlbinlog` at the end of the file is lost in the pipe to `mysql`
  (`recoverer.go:224-244`). With two nodes an upload that was interrupted
  before its GTID set may never be completed, and then fails recoveries. A
  recovery to a transaction replays everything (`recoverer.go:194` is empty).
* `SuccessHasData` with `SameName`: names are cut at 29 characters, "which won't be
  conflicting with other jobs' names" (`names.go:17`); two names that agree so far
  share one job, and one backup is reported with the other's outcome. It also
  fails when the bucket is edited under a running backup: the destination is made
  anew in each pass (`pxcbackup/controller.go:177`).
* `FinishedIsOver` (`BackoffLimit` 1): a job with one failed pod and retries left is
  Failed (`controller.go:254`) and may still upload.

Seen while reading, by part:

* Backups. An object created again under the name of a deleted one meets its job
  until the garbage collector has come (`pxcbackup/controller.go:195`). A running
  backup is not followed while the cluster is not ready (129). Bucket paths hold
  whole seconds. Two clusters with the same schedule name in a namespace fight
  over the CronJob (`backup.go:83-97`). A schedule with a missing storage ends the
  later ones and the retention (67-70). Without the backup section the collector is
  never deleted (32, 58).
* Users. `ALTER USER` commits by itself, so a failure between the operator's own
  password and the internal secret (`users.go:336`, 110) locks the operator out:
  `OperatorLogsIn` excepts it (`Uninterrupted`). A secret
  without the operator's entry on a cluster that has the account gets a new
  password that `CREATE USER IF NOT EXISTS` does not set (422-452). The log
  rotation reads the monitor's password from its environment (`node.go:272`) and
  is not restarted; HAProxy's pods never get the annotation.
* Crash recovery. The readiness probe is satisfied from `/tmp/recovery-case` on,
  before the line is printed. A human who follows the printed advice and the
  operator may bootstrap two pods. A pod without `grastate.dat` never prints the
  line and blocks the recovery. A scan takes exactly the last eight lines.
* Status. The conditions `PXCReady` and `ProxyReady` are never stored; both parts
  in error give no condition `Error`; "Error" and "error" are different constants
  (`pxc_types.go:93`, 127); conditions are not capped on the error path;
  `upgradeInProgress` ignores its argument `appName` (`status.go:288-290`); a refused
  status update falls back to an update of the whole object (280).
* Deployment and deletion. Claims are not retried once their set is gone
  (`controller.go:980`), nor the second TLS secret once the first exists
  (`tls.go:33`). An error of one finalizer is carried to the next of another owner
  (278). With `delete-pxc-pvc` listed as well the order is lost (270-287).
  "only 0 left" (273) is at most one in the code, and while pods still start up
  that is at once (948). A configuration that was emptied leaves its ConfigMap
  (838). An error of `reconcileUsers` or an object that is not valid any more
  blocks the finalizers; an operator stopped before the deletion leaves them.
* Versions. The map of jobs is written by passes and jobs of different clusters
  without a lock (`version.go:27`). The job and the write of `changed` defaults
  store sizes of 0 on a paused cluster (202). `changed` is overwritten
  (`pxc_types.go:578`, 631). A job keeps the operator version it was created with
  (62). After a job's second write has failed only the database's version is ever
  repaired (222); a pass keeps the versions in memory and stores them with its
  status (214-220). A version may be fetched from a pod of the old template while the
  StatefulSet's status lags, and stays (`history.early`).

## 14. Assumptions

* One replica of the operator acts (leader election, `cmd/manager/main.go`), and
  each controller has one worker.
* The operator's cached reads are current, except where the model keeps the copy
  a pass read before, or says so (`VersionJobs.AskFails`).
* A wait limit of the restore (300 polls of a second and the grace period) leaves
  the cluster controller, which passes every 5 s, and the StatefulSet controller
  the time to react (`WaitLimit`).
* The smart update's limit is its default of two hours, longer than a pod's grace
  period of 600 s, and by then the StatefulSet controller has settled.
* An operator that starts again does so after the StatefulSet controller has seen
  the pods (`Restart`).
* A proxy, checking every few seconds, notices that a node is down before the
  node has come up again (`PodAdvances`).
* A terminating pod counts as ready in the StatefulSet's status until it is gone.
* No two commits and no two new binlogs share a second: names hold seconds, and
  binlogs of the same second are sorted by a hash.
* Nodes that are up apply in step; a node is behind only while it is down.
* A binlog is not purged before the collector has seen it, and a node is not
  rebuilt within one round of the collector on it.
* A backup holds at least one transaction (the empty set would be a subset of any).
* One collector runs at a time.
* No two backups have the same job name in the runs, and no backup is created again
  under a name that was used before.
* A container takes longer to start than the scan of the logs lasts up to its
  signal (`ClusterHealth!Scanning`); nobody else sends the signal; a loss of
  quorum without a crash of all pods is left to Galera.
* Passwords of accounts that the operator itself logs in with change in behaviours
  in which no step fails between the database and the internal secret.
* The version service's parts other than the database follow its image; the
  cluster of `VersionJobs` is not paused.
* The operator's stop signal comes after the deletion of the cluster; any other
  end of it is `Dies`.

`VolumeExclusive`, `JobsExclusive` and `FreshVolumes` are claimed while
`Undisturbed`: if a status write is lost or the user deletes the object of a
restore whose operator died, nothing in the code keeps the next restore from
running over the first one's job.

## 15. Not modelled

Object builders, generated code, API scheme, version service client: functions or
registration without state of their own. The defaults other than the database's
size and the validation: assignments and checks of single fields. Peer list and
webhook: one loop and one handler with nothing to interleave. Terraform, manifests
and tests: no program.

In the modelled parts: schedules that do not parse (the job that is registered is
removed and none takes its place, `version.go`), the content of specs and of a pod
template beyond what the tables above name, the polling periods, log messages, the
recovery type `skip`, a replay that fails half way, the creation of the database's
binlog functions, a named certificate issuer, host names in the status, messages of
conditions, the user `clustercheck` (which nothing but the probe reads, from a
mounted file), and the sizes that a pass stores on a paused cluster.
