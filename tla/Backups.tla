------------------------------ MODULE Backups ------------------------------
(***************************************************************************)
(* Backups: the controller that runs a backup object as a job             *)
(* (pkg/controller/pxcbackup) and the part of the cluster controller that *)
(* keeps the schedule, retires old backups and deploys the binlog         *)
(* collector (pkg/controller/pxc/backup.go).                              *)
(*                                                                         *)
(* The two run in one process but in workers of their own.  They race with *)
(* the jobs, the garbage collector, the cron jobs and the user, who edits  *)
(* the cluster and deletes backups while they are being made.              *)
(***************************************************************************)
EXTENDS Naturals, FiniteSets, Sequences

CONSTANTS
    OnDemand, Scheduled,  \* names of backup objects: the user's, the cron jobs'
    ScheduleList,         \* spec.backup.schedule, in its order: names of cron jobs
    StorageOf,            \* StorageOf[x]: the storage a schedule or an object of the user's names
    Volumes,              \* the storages that are volumes; the others are buckets
    NameOf,               \* NameOf[b]: the name of b's job and volume
    Keep,                 \* the numbers of backups to keep that the user tries
    Edits,                \* the fields of the cluster object that the user edits
    NoObject, Nobody,
    BackoffLimit,         \* how often the job controller replaces a failed pod
    \* bounds on what may happen in a behaviour
    MaxBackups, MaxEdits, MaxDeletes, MaxErrors, MaxUnready

Backups   == OnDemand \cup Scheduled
Schedules == {ScheduleList[i] : i \in DOMAIN ScheduleList}
Storages  == {StorageOf[x] : x \in DOMAIN StorageOf}
Names     == {NameOf[b] : b \in Backups}

ASSUME NamesAssumption ==
    /\ OnDemand \cap Scheduled = {}
    /\ NoObject \notin Backups \cup Names \cup Schedules /\ Nobody \notin Backups
    /\ DOMAIN NameOf = Backups
    /\ DOMAIN StorageOf = OnDemand \cup Schedules
ASSUME EditsAssumption ==
    Edits \subseteq {"section", "pitr", "pause", "bucket", "keep", "listed", "storages"}
ASSUME BoundsAssumption ==
    {BackoffLimit, MaxBackups, MaxEdits, MaxDeletes, MaxErrors, MaxUnready} \cup Keep \subseteq Nat

Finished == {"Succeeded", "Failed"}
States   == {"New", "Starting", "Running"} \cup Finished

VARIABLES
    spec,      \* the cluster object, as far as backups go
    ready,     \* its status: the cluster serves
    backup,    \* the backup objects that exist
    made,      \* creationTimestamp, in whole seconds; 0: never created
    from,      \* the label "ancestor": the schedule it came from, or "user"
    clock,     \* the time in seconds at the last creation
    job,       \* the jobs, by name
    volume,    \* the volumes made for backups, by name: who owns them
    uploads,   \* complete uploads: <<name of the job, destination>>
    cron,      \* the CronJobs, by name: the storage they ask for
    collector, \* the binlog collector's Deployment: where it stores, or NoObject
    worker,    \* the backup controller's worker
    pass,      \* the cluster controller's pass through reconcileBackups
    \* history
    retired,   \* backups that the retention deleted
    withdrawn, \* backups that the user deleted
    edits, errors, unready

objects == <<spec, ready, backup, made, from, clock>>
outside == <<job, volume, uploads, cron, collector>>
history == <<retired, withdrawn>>
mishaps == <<edits, errors, unready>>
vars == <<objects, outside, worker, pass, history, mishaps>>

IsVolume(s) == s \in Volumes
\* genName63: the names of on-demand backups are cut at 29 characters.
JobName(b) == NameOf[b]

\* Slip: the time of the pass in place of the object's.
BucketPath_Now(b) == <<"s3", spec.bucket, clock>>

\* A bucket holds one path a second; a volume is named like the job.
BucketPath(b) == <<"s3", spec.bucket, made[b]>>
VolumePath(b) == <<"pvc", JobName(b), 0>>
StorageFor(b) == IF from[b] = "user" THEN StorageOf[b] ELSE StorageOf[from[b]]
Destination(b) == IF IsVolume(StorageFor(b)) THEN VolumePath(b) ELSE BucketPath(b)

Exists(b)     == backup[b] # NoObject
Unfinished(b) == Exists(b) /\ backup[b].state \notin Finished
Listed(c)     == SelectSeq(ScheduleList, LAMBDA s : s \in c.listed)

Paths    == ({"s3"} \X Nat \X Nat) \cup ({"pvc"} \X Names \X {0})
Specs    == [section: BOOLEAN, storages: SUBSET Storages, bucket: Nat,
             listed: SUBSET Schedules, keep: Keep, pitr: BOOLEAN, pause: BOOLEAN]
Statuses == [state: States, dest: Paths \cup {NoObject}]
Jobs     == [owner: Backups, phase: {"waiting", "active", "succeeded", "failed"},
             fails: Nat, dest: Paths]

ASSUME NoObjectAssumption == NoObject \notin Statuses \cup Jobs

Idle == [pc |-> "idle", on |-> Nobody, dest |-> NoObject, state |-> "New"]

NoPass == [pc |-> "idle"]

\* What stands for an object is one, or NoObject.
ObjectsOK ==
    /\ backup \in [Backups -> Statuses \cup {NoObject}]
    /\ made \in [Backups -> Nat] /\ clock \in Nat
    /\ from \in [Backups -> Schedules \cup {"user"}]
    /\ job \in [Names -> Jobs \cup {NoObject}]
    /\ volume \in [Names -> Backups \cup {NoObject}]
    /\ uploads \subseteq Names \X Paths

TypeOK ==
    /\ spec \in Specs /\ ready \in BOOLEAN
    /\ ObjectsOK
    /\ cron \in [Schedules -> Storages \cup {NoObject}]
    /\ collector \in Nat \cup {NoObject}
    /\ worker \in [pc: {"idle", "volume", "job", "read", "write"}, on: Backups \cup {Nobody},
                   dest: Paths \cup {NoObject}, state: States]
    /\ worker.pc # "idle" => worker.on \in Backups /\ worker.dest \in Paths
    /\ pass \in {NoPass} \cup
                [pc: {"collector", "schedule", "clean"},
                 spec: Specs, ready: BOOLEAN, todo: Seq(Schedules),
                 items: SUBSET Schedules, old: SUBSET Backups]
    /\ retired \cup withdrawn \subseteq Backups
    /\ edits \in 0 .. MaxEdits /\ errors \in 0 .. MaxErrors /\ unready \in 0 .. MaxUnready

\* A cluster with every schedule and the collector asked for, before its first pass.
Init ==
    /\ \E k \in Keep :
         spec = [section |-> TRUE, storages |-> Storages, bucket |-> 1, listed |-> Schedules,
                 keep |-> k, pitr |-> TRUE, pause |-> FALSE]
    /\ ready = TRUE
    /\ backup = [b \in Backups |-> NoObject]
    /\ made = [b \in Backups |-> 0]
    /\ from = [b \in Backups |-> "user"]
    /\ clock = 0
    /\ job = [n \in Names |-> NoObject]
    /\ volume = [n \in Names |-> NoObject]
    /\ uploads = {}
    /\ cron = [s \in Schedules |-> NoObject]
    /\ collector = NoObject
    /\ worker = Idle
    /\ pass = NoPass
    /\ retired = {} /\ withdrawn = {}
    /\ edits = 0 /\ errors = 0 /\ unready = 0
-----------------------------------------------------------------------------
(* The backup controller: Reconcile, one backup at a time.                  *)

\* Slips: a finished backup is run again, one that was begun is not looked at.
Skipped_Never(b) == FALSE
Skipped_Begun(b) == backup[b].state # "New"

Skipped(b) == backup[b].state \in Finished

\* The object and the cluster are read; a finished backup is left alone, and
\* whatever is not as it should be ends the pass with an error.
Look(b) ==
    /\ worker.pc = "idle"
    /\ Exists(b) /\ ~Skipped(b)
    /\ spec.section /\ ready
    /\ StorageFor(b) \in spec.storages
    /\ worker' = [pc |-> IF IsVolume(StorageFor(b)) THEN "volume" ELSE "job",
                  on |-> b, dest |-> Destination(b), state |-> backup[b].state]
    /\ UNCHANGED <<objects, outside, pass, history, mishaps>>

\* A volume of that name is taken for this backup's, whoever owns it.
MakeVolume ==
    /\ worker.pc = "volume"
    /\ volume' = IF volume[JobName(worker.on)] # NoObject THEN volume
                 ELSE [volume EXCEPT ![JobName(worker.on)] = worker.on]
    /\ worker' = [worker EXCEPT !.pc = "job"]
    /\ UNCHANGED <<objects, job, uploads, cron, collector, pass, history, mishaps>>

\* Job, JobSpec: what the properties tell apart of it.
NewJob(b, d) == [owner |-> b, phase |-> "waiting", fails |-> 0, dest |-> d]

\* And so is a job: AlreadyExists is no error.
MakeJob ==
    /\ worker.pc = "job"
    /\ LET n == JobName(worker.on)
       IN  job' = IF job[n] # NoObject THEN job
                  ELSE [job EXCEPT ![n] = NewJob(worker.on, worker.dest)]
    /\ worker' = [worker EXCEPT !.pc = "read"]
    /\ UNCHANGED <<objects, volume, uploads, cron, collector, pass, history, mishaps>>

\* What a job's counters of active, succeeded and failed pods are taken for.
StateOfJob(j) ==
    CASE j.phase = "active"    -> "Running"
      [] j.phase = "succeeded" -> "Succeeded"
      [] j.phase \notin {"active", "succeeded"} /\ j.fails >= 1 -> "Failed"
      [] OTHER -> "Starting"

\* The first half of updateJobStatus.
ReadJob ==
    /\ worker.pc = "read"
    /\ LET j == job[JobName(worker.on)]
       IN  worker' = IF j = NoObject THEN Idle
                     ELSE [worker EXCEPT !.pc = "write", !.state = StateOfJob(j)]
    /\ UNCHANGED <<objects, outside, pass, history, mishaps>>

\* The second half: both updates it tries are refused when the object is gone.
WriteStatus ==
    /\ worker.pc = "write"
    /\ backup' = IF ~Exists(worker.on) THEN backup
                 ELSE [backup EXCEPT ![worker.on] =
                         [state |-> worker.state, dest |-> worker.dest]]
    /\ worker' = Idle
    /\ UNCHANGED <<spec, ready, made, from, clock, outside, pass, history, mishaps>>
-----------------------------------------------------------------------------
(* The cluster controller: reconcileBackups, one pass at a time, on the     *)
(* object that the pass has read.                                           *)

BeginPass ==
    /\ pass.pc = "idle"
    /\ pass' = [pc |-> "collector", spec |-> spec, ready |-> ready,
                todo |-> <<>>, items |-> {}, old |-> {}]
    /\ UNCHANGED <<objects, outside, worker, history, mishaps>>

Collecting(c) == c.pitr /\ ~c.pause

\* GetBinlogCollectorDeployment: the bucket is what can differ.
CollectorFor(c) == c.bucket

\* The collector is made or updated when the cluster serves, and deleted, by
\* deletePITR, when it is paused or no longer wants one.
PassCollector ==
    /\ pass.pc = "collector"
    /\ LET c == pass.spec
       IN  /\ collector' = IF ~c.section THEN collector
                           ELSE IF ~Collecting(c) THEN NoObject
                           ELSE IF pass.ready THEN CollectorFor(c) ELSE collector
           /\ pass' = [pass EXCEPT !.pc = "schedule",
                                   !.todo = IF c.section THEN Listed(c) ELSE <<>>,
                                   !.ready = FALSE]  \* not needed any more
    /\ UNCHANGED <<objects, job, volume, uploads, cron, worker, history, mishaps>>

CronJob(s) == StorageOf[s]

\* One schedule of the list: its CronJob is created, or updated when it
\* differs; a storage that does not exist ends the pass.  After the last the
\* CronJobs of the cluster are listed.
PassSchedule ==
    /\ pass.pc = "schedule"
    /\ IF pass.todo = <<>>
       THEN /\ pass' = [pass EXCEPT !.pc = "clean",
                                   !.items = {s \in Schedules : cron[s] # NoObject}]
            /\ UNCHANGED cron
       ELSE LET s == Head(pass.todo)
            IN  IF StorageOf[s] \in pass.spec.storages
                THEN /\ cron' = [cron EXCEPT ![s] = CronJob(s)]
                     /\ pass' = [pass EXCEPT !.todo = Tail(@)]
                ELSE pass' = NoPass /\ UNCHANGED cron
    /\ UNCHANGED <<objects, job, volume, uploads, collector, worker, history, mishaps>>

SucceededOf(s) == {b \in Backups : Exists(b) /\ backup[b].state = "Succeeded" /\ from[b] = s}

Older(o, y) == made[o] <= made[y]

\* Slips: the newest go; one too many stays.
OldestBeyond_Newest(s, keep) ==
    LET done == SucceededOf(s)
        n    == IF Cardinality(done) <= keep THEN 0 ELSE Cardinality(done) - keep
    IN  {O \in SUBSET done : /\ Cardinality(O) = n
                             /\ \A o \in O, y \in done \ O : Older(y, o)}

OldestBeyond_OneMore(s, keep) ==
    LET done == SucceededOf(s)
    IN  IF Cardinality(done) <= keep + 1 THEN {{}}
        ELSE {O \in SUBSET done : /\ Cardinality(O) + keep = Cardinality(done)
                                  /\ \A o \in O, y \in done \ O : Older(o, y)}

\* The sets oldScheduledBackups may return: among backups of the same second
\* the heap takes any.
OldestBeyond(s, keep) ==
    LET done == SucceededOf(s)
        n    == IF Cardinality(done) <= keep THEN 0 ELSE Cardinality(done) - keep
    IN  {O \in SUBSET done : /\ Cardinality(O) = n
                             /\ \A o \in O, y \in done \ O : Older(o, y)}

\* Slip: CronJobs are never taken away.
Wanted_All(c, s) == TRUE

Wanted(c, s) == c.section /\ s \in c.listed

\* One CronJob of the list: one that no schedule names goes; of the others
\* the backups beyond the number to keep are found.
PassCron ==
    /\ pass.pc = "clean" /\ pass.old = {}
    /\ \/ pass.items = {} /\ pass' = NoPass /\ UNCHANGED cron
       \/ \E s \in pass.items :
            IF Wanted(pass.spec, s)
            THEN /\ \E O \in IF pass.spec.keep > 0 THEN OldestBeyond(s, pass.spec.keep) ELSE {{}} :
                      pass' = [pass EXCEPT !.items = @ \ {s}, !.old = O]
                 /\ UNCHANGED cron
            ELSE /\ cron' = [cron EXCEPT ![s] = NoObject]
                 /\ pass' = [pass EXCEPT !.items = @ \ {s}]
    /\ UNCHANGED <<objects, job, volume, uploads, collector, worker, history, mishaps>>

\* One delete of the loop over them; a delete that fails is not looked at.
PassRetire(b) ==
    /\ b \in pass.old
    /\ backup' = [backup EXCEPT ![b] = NoObject]
    /\ retired' = IF Exists(b) THEN retired \cup {b} ELSE retired
    /\ pass' = [pass EXCEPT !.old = @ \ {b}]
    /\ UNCHANGED <<spec, ready, made, from, clock, outside, worker, withdrawn, mishaps>>
-----------------------------------------------------------------------------
(* Around them: errors, jobs, the garbage collector, cron jobs, the user.   *)

\* Any call may fail, and the operator may restart: a pass is then dropped.
WorkerFails ==
    /\ worker.pc # "idle" /\ errors < MaxErrors
    /\ worker' = Idle
    /\ errors' = errors + 1
    /\ UNCHANGED <<objects, outside, pass, history, edits, unready>>

PassFails ==
    /\ pass.pc # "idle" /\ errors < MaxErrors
    /\ pass' = NoPass
    /\ errors' = errors + 1
    /\ UNCHANGED <<objects, outside, worker, history, edits, unready>>

\* The job controller starts a pod, again after each that failed, until the limit.
JobStarts(n) ==
    /\ job[n] # NoObject /\ job[n].phase = "waiting"
    /\ job' = [job EXCEPT ![n].phase = "active"]
    /\ UNCHANGED <<objects, volume, uploads, cron, collector, worker, pass, history, mishaps>>

JobSucceeds(n) ==
    /\ job[n] # NoObject /\ job[n].phase = "active"
    /\ job' = [job EXCEPT ![n].phase = "succeeded"]
    /\ uploads' = uploads \cup {<<n, job[n].dest>>}
    /\ UNCHANGED <<objects, volume, cron, collector, worker, pass, history, mishaps>>

JobPodFails(n) ==
    /\ job[n] # NoObject /\ job[n].phase = "active"
    /\ LET next == IF job[n].fails < BackoffLimit THEN "waiting" ELSE "failed"
       IN  job' = [job EXCEPT ![n] = [job[n] EXCEPT !.fails = @ + 1, !.phase = next]]
    /\ UNCHANGED <<objects, volume, uploads, cron, collector, worker, pass, history, mishaps>>

\* What is owned by an object that is gone goes some time later.
CollectJob(n) ==
    /\ job[n] # NoObject /\ ~Exists(job[n].owner)
    /\ job' = [job EXCEPT ![n] = NoObject]
    /\ UNCHANGED <<objects, volume, uploads, cron, collector, worker, pass, history, mishaps>>

CollectVolume(n) ==
    /\ volume[n] # NoObject /\ ~Exists(volume[n])
    /\ volume' = [volume EXCEPT ![n] = NoObject]
    /\ uploads' = {u \in uploads : u[2] # <<"pvc", n, 0>>}
    /\ UNCHANGED <<objects, job, cron, collector, worker, pass, history, mishaps>>

\* Objects of two sources may be created in one second; a CronJob fires once
\* a minute at most.
Create(b, by) ==
    /\ made[b] = 0
    /\ Cardinality({x \in Backups : made[x] # 0}) < MaxBackups
    /\ \E t \in {clock, clock + 1} \ {0} :
         /\ \A x \in Backups : from[x] = by => made[x] # t
         /\ made' = [made EXCEPT ![b] = t] /\ clock' = t
    /\ backup' = [backup EXCEPT ![b] = [state |-> "New", dest |-> NoObject]]
    /\ from' = [from EXCEPT ![b] = by]
    /\ UNCHANGED <<spec, ready, outside, worker, pass, history, mishaps>>

UserCreates(b) == b \in OnDemand /\ Create(b, "user")

Fresh == {b \in Scheduled : made[b] = 0}

\* The pod of a CronJob applies a backup object named after the time: a name
\* that was not used before, whichever.
CronFires(s) ==
    /\ cron[s] # NoObject
    /\ Fresh # {}
    /\ Create(CHOOSE b \in Fresh : TRUE, s)

UserDeletes(b) ==
    /\ Exists(b)
    /\ Cardinality(withdrawn) < MaxDeletes
    /\ backup' = [backup EXCEPT ![b] = NoObject]
    /\ withdrawn' = withdrawn \cup {b}
    /\ UNCHANGED <<spec, ready, made, from, clock, outside, worker, pass, retired, mishaps>>

\* One edit of one field; schedules and storages are only taken away.
Edited(field) ==
    CASE field = "keep"     -> {[spec EXCEPT !.keep = k] : k \in Keep \ {spec.keep}}
      [] field = "bucket"   -> {[spec EXCEPT !.bucket = @ + 1]}
      [] field = "listed"   -> {[spec EXCEPT !.listed = @ \ {s}] : s \in spec.listed}
      [] field = "storages" -> {[spec EXCEPT !.storages = @ \ {s}] : s \in spec.storages}
      [] field = "section"  -> {[spec EXCEPT !.section = ~@]}
      [] field = "pitr"     -> {[spec EXCEPT !.pitr = ~@]}
      [] field = "pause"    -> {[spec EXCEPT !.pause = ~@]}

UserEdits ==
    /\ edits < MaxEdits
    /\ edits' = edits + 1
    /\ \E field \in Edits : spec' \in Edited(field)
    /\ UNCHANGED <<ready, backup, made, from, clock, outside, worker, pass, history,
                   errors, unready>>

ClusterFails ==
    /\ ready /\ unready < MaxUnready
    /\ ready' = FALSE
    /\ unready' = unready + 1
    /\ UNCHANGED <<spec, backup, made, from, clock, outside, worker, pass, history, edits, errors>>

ClusterServes ==
    /\ ~ready
    /\ ready' = TRUE
    /\ UNCHANGED <<spec, backup, made, from, clock, outside, worker, pass, history, mishaps>>

WorkerStep == MakeVolume \/ MakeJob \/ ReadJob \/ WriteStatus
PassStep   ==
    \/ PassCollector \/ PassSchedule \/ PassCron
    \/ pass.pc = "clean" /\ \E b \in Backups : PassRetire(b)

Next ==
    \/ \E b \in Backups : Look(b) \/ UserCreates(b) \/ UserDeletes(b)
    \/ WorkerStep \/ WorkerFails
    \/ BeginPass \/ PassStep \/ PassFails
    \/ \E n \in Names :
         JobStarts(n) \/ JobSucceeds(n) \/ JobPodFails(n) \/ CollectJob(n) \/ CollectVolume(n)
    \/ \E s \in Schedules : CronFires(s)
    \/ UserEdits \/ ClusterFails \/ ClusterServes

Spec == Init /\ [][Next]_vars

\* The worker takes backups from a queue and so comes to each that stays in
\* it; passes come every five seconds; pods end, one way or the other.
Fairness ==
    /\ \A b \in Backups : SF_vars(Look(b))
    /\ WF_vars(WorkerStep)
    /\ WF_vars(BeginPass) /\ WF_vars(PassStep)
    /\ \A n \in Names : WF_vars(JobStarts(n)) /\ WF_vars(JobSucceeds(n) \/ JobPodFails(n))
    /\ WF_vars(ClusterServes)

FairSpec == Spec /\ Fairness
-----------------------------------------------------------------------------
\* A backup that is reported Succeeded has a complete upload where its status
\* says, made by the job of its name (updateJobStatus), as long as no bucket is
\* replaced and no two objects share a name of a job.
SuccessHasData ==
    \A b \in Backups :
        Exists(b) /\ backup[b].state = "Succeeded" => <<JobName(b), backup[b].dest>> \in uploads

\* Retention (oldScheduledBackups) never takes the newest good backup of a
\* schedule: of each backup it deleted there is one of the same schedule, not
\* older, that is still there or that the user deleted.
RetentionSparesNewest ==
    \A b \in retired : \E n \in Backups \ retired :
        /\ from[n] = from[b] /\ made[n] >= made[b]
        /\ n \in withdrawn \/ (Exists(n) /\ backup[n].state = "Succeeded")

\* What BackupOutcome sees of a state.
Reports ==
    [b \in Backups |-> IF ~Exists(b) THEN "absent"
                       ELSE IF Unfinished(b) THEN "pending" ELSE backup[b].state]
Uploaded == {b \in Backups : \E u \in uploads : u[1] = JobName(b)}

Outcome == INSTANCE BackupOutcome WITH outcome <- Reports, uploaded <- Uploaded

\* The two controllers together keep what BackupOutcome promises: reports are
\* final, success means a complete upload, and no volume is lost under it.
BackupOutcomes == Outcome!Spec

\* A backup whose storage is configured ends, whatever the passes, pods and
\* the cluster's health do in between (Reconcile of the backup controller).
EveryBackupEnds ==
    \A b \in Backups :
        Unfinished(b) ~> ~Unfinished(b) \/ ~spec.section \/ StorageFor(b) \notin spec.storages

StoragesExist == \A s \in spec.listed : StorageOf[s] \in spec.storages

\* When the user rests no schedule has more good backups than it is to keep
\* (reconcileBackups, from the list of CronJobs on).
RetentionCatchesUp ==
    <>[](spec.section /\ StoragesExist /\ spec.keep > 0 =>
           \A s \in spec.listed : Cardinality(SucceededOf(s)) <= spec.keep)

\* When the user rests the CronJobs are those of the schedule, and none when
\* the backup section is gone; the collector runs if and only if the section asks
\* for it and the cluster is not paused, and stores where the section says
\* (reconcileBackups, deletePITR).
SchedulesFollow ==
    <>[](/\ StoragesExist => {s \in Schedules : cron[s] # NoObject} =
                                IF spec.section THEN spec.listed ELSE {}
         /\ spec.section =>
              collector = IF spec.pitr /\ ~spec.pause THEN spec.bucket ELSE NoObject)

\* A backup that is over has no job that still tries (Reconcile: "Skip
\* finished backups").
FinishedIsOver ==
    \A b \in Backups :
        Exists(b) /\ ~Unfinished(b) /\ job[JobName(b)] # NoObject =>
            job[JobName(b)].phase \in {"succeeded", "failed"}
=============================================================================
