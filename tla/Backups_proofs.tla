--------------------------- MODULE Backups_proofs ---------------------------
(***************************************************************************)
(* The two controllers keep what BackupOutcome promises, for any backups,  *)
(* schedules, storages and bounds, if no two backups share the name of a   *)
(* job; a backup that is reported Succeeded has its data where its status  *)
(* says, if no bucket is replaced either; and the retention never deletes  *)
(* the newest good backup of a schedule.                                   *)
(***************************************************************************)
EXTENDS Backups, FiniteSetTheorems, TLAPS

Distinct == \A a, b \in Backups : JobName(a) = JobName(b) => a = b

Has(b) == \E u \in uploads : u[1] = JobName(b)

\* What an object was made for stays what it was made for, and is not made twice.
Owned ==
    /\ \A b \in Backups : Exists(b) => made[b] # 0
    /\ \A n \in Names : job[n] # NoObject => JobName(job[n].owner) = n /\ made[job[n].owner] # 0
    /\ \A n \in Names : volume[n] # NoObject => JobName(volume[n]) = n
    /\ worker.pc # "idle" => made[worker.on] # 0

\* An upload to a volume is one to the volume of its own name.
VolumesApart ==
    /\ worker.pc # "idle" /\ worker.dest[1] = "pvc" => worker.dest[2] = JobName(worker.on)
    /\ \A n \in Names : job[n] # NoObject /\ job[n].dest[1] = "pvc" => job[n].dest[2] = n
    /\ \A u \in uploads : u[2][1] = "pvc" => u[2][2] = u[1]

\* The worker is at a backup that is not over, and success is seen where it is:
\* at the job, by the worker, in the status.
Followed ==
    /\ worker.pc # "idle" /\ Exists(worker.on) => backup[worker.on].state \notin Finished
    /\ \A n \in Names : job[n] # NoObject /\ job[n].phase = "succeeded" /\ Exists(job[n].owner)
                        => Has(job[n].owner)
    /\ worker.pc = "write" /\ worker.state = "Succeeded" /\ Exists(worker.on) => Has(worker.on)

\* The part of the type invariant these need.
Typed ==
    /\ spec \in Specs /\ ObjectsOK
    /\ worker.pc # "idle" => worker.on \in Backups /\ worker.dest \in Paths
    /\ worker \in [pc: {"idle", "volume", "job", "read", "write"}, on: Backups \cup {Nobody},
                   dest: Paths \cup {NoObject}, state: States]

LEMMA Paths1 ==
    /\ \A b \in Backups : JobName(b) \in Names
    /\ \A p \in Paths : p[1] = "pvc" => p = <<"pvc", p[2], 0>>
BY DEF JobName, Names, Paths

LEMMA NoObject1 ==
    /\ \A s \in Statuses : s # NoObject
    /\ \A j \in Jobs : j # NoObject
    /\ \A b \in Backups : b # NoObject /\ b # Nobody
BY NoObjectAssumption, NamesAssumption DEF NoObjectAssumption, NamesAssumption

\* What happens to a job leaves it a job.
LEMMA JobKept ==
    ASSUME NEW j \in Jobs, NEW ph \in {"waiting", "active", "succeeded", "failed"}
    PROVE  /\ [j EXCEPT !.phase = ph] \in Jobs
           /\ LET again == [j EXCEPT !.fails = @ + 1, !.phase = ph]
              IN  /\ again \in Jobs
                  /\ again.owner = j.owner /\ again.dest = j.dest /\ again.phase = ph
<1>1. j.fails + 1 \in Nat BY DEF Jobs
<1>2. [j EXCEPT !.phase = ph] \in Jobs BY DEF Jobs
<1>3. ASSUME NEW f \in Nat
      PROVE  LET again == [j EXCEPT !.fails = f, !.phase = ph]
             IN  /\ again \in Jobs
                 /\ again.owner = j.owner /\ again.dest = j.dest /\ again.phase = ph
  BY DEF Jobs
<1>4. QED BY <1>1, <1>2, <1>3

LEMMA TypedInit == Init => Typed
<1> SUFFICES ASSUME Init PROVE Typed
  OBVIOUS
<1>1. ObjectsOK BY DEF Init, ObjectsOK
<1>2. worker = Idle BY DEF Init
<1>3. spec \in Specs BY DEF Init, Specs
<1>4. QED BY <1>1, <1>2, <1>3 DEF Typed, Idle, States

\* A step keeps the types of objects and of the worker.
LEMMA TypedStep == Typed /\ [Next]_vars => Typed'
<1> SUFFICES ASSUME Typed, [Next]_vars PROVE Typed'
  OBVIOUS
<1> USE DEF objects, outside, history, mishaps
<1>1. CASE \E b \in Backups : Look(b)
  <2>1. PICK b \in Backups : Look(b) BY <1>1
  <2>2. Destination(b) \in Paths
    <3>1. made[b] \in Nat /\ spec.bucket \in Nat BY DEF Typed, ObjectsOK, Specs
    <3>2. QED BY <3>1, Paths1 DEF Destination, Paths, BucketPath, VolumePath
  <2>3. backup[b].state \in States BY <2>1 DEF Look, Exists, Typed, ObjectsOK, Statuses
  <2>4. QED BY <2>1, <2>2, <2>3 DEF Look, Typed, ObjectsOK
<1>2. CASE MakeVolume
  <2>1. worker.on \in Backups /\ JobName(worker.on) \in Names BY <1>2, Paths1 DEF MakeVolume, Typed
  <2>2. volume' \in [Names -> Backups \cup {NoObject}]
    BY <1>2, <2>1 DEF MakeVolume, Typed, ObjectsOK
  <2>3. QED BY <1>2, <2>1, <2>2 DEF MakeVolume, Typed, ObjectsOK
<1>3. CASE MakeJob
  <2>1. worker.on \in Backups /\ worker.dest \in Paths /\ JobName(worker.on) \in Names
    BY <1>3, Paths1 DEF MakeJob, Typed
  <2>2. NewJob(worker.on, worker.dest) \in Jobs BY <2>1 DEF NewJob, Jobs
  <2>3. job' \in [Names -> Jobs \cup {NoObject}] BY <1>3, <2>1, <2>2 DEF MakeJob, Typed, ObjectsOK
  <2>4. QED BY <1>3, <2>1, <2>3 DEF MakeJob, Typed, ObjectsOK
<1>4. CASE ReadJob
  <2>1. \A j : StateOfJob(j) \in States BY DEF StateOfJob, States, Finished
  <2>2. worker' = Idle \/ \E st \in States : worker' = [worker EXCEPT !.pc = "write", !.state = st]
    BY <1>4, <2>1 DEF ReadJob
  <2>3. worker.on \in Backups /\ worker.dest \in Paths BY <1>4 DEF ReadJob, Typed
  <2>4. CASE worker' = Idle
    BY <1>4, <2>4 DEF ReadJob, Typed, ObjectsOK, Idle, States
  <2>5. CASE worker' # Idle
    <3>1. PICK st \in States : worker' = [worker EXCEPT !.pc = "write", !.state = st]
      BY <2>2, <2>5
    <3>2. QED BY <1>4, <2>3, <3>1 DEF ReadJob, Typed, ObjectsOK
  <2>6. QED BY <2>4, <2>5
<1>5. CASE WriteStatus
  <2>1. [state |-> worker.state, dest |-> worker.dest] \in Statuses
    BY <1>5 DEF WriteStatus, Typed, Statuses
  <2>2. backup' \in [Backups -> Statuses \cup {NoObject}]
    BY <1>5, <2>1 DEF WriteStatus, Typed, ObjectsOK
  <2>3. QED BY <1>5, <2>2 DEF WriteStatus, Typed, ObjectsOK, Idle, States
<1>6. CASE WorkerFails
  BY <1>6 DEF WorkerFails, Typed, ObjectsOK, Idle, States
<1>7. CASE BeginPass \/ PassFails
  BY <1>7 DEF BeginPass, PassFails, Typed, ObjectsOK
<1>8. CASE PassCollector
  BY <1>8 DEF PassCollector, Typed, ObjectsOK
<1>9. CASE PassSchedule
  BY <1>9 DEF PassSchedule, Typed, ObjectsOK
<1>10. CASE PassCron
  BY <1>10 DEF PassCron, Typed, ObjectsOK
<1>11. CASE \E b \in Backups : PassRetire(b) \/ UserDeletes(b)
  BY <1>11 DEF PassRetire, UserDeletes, Typed, ObjectsOK
<1>12. CASE \E n \in Names : JobStarts(n) \/ JobPodFails(n) \/ CollectJob(n)
  <2>1. PICK n \in Names : JobStarts(n) \/ JobPodFails(n) \/ CollectJob(n) BY <1>12
  <2>2. job[n] \in Jobs \cup {NoObject} BY DEF Typed, ObjectsOK
  <2>3. CASE JobStarts(n)
    <3>1. [job[n] EXCEPT !.phase = "active"] \in Jobs BY <2>2, <2>3, JobKept DEF JobStarts
    <3>2. QED BY <2>3, <3>1 DEF JobStarts, Typed, ObjectsOK
  <2>4. CASE JobPodFails(n)
    <3>1. PICK ph \in {"waiting", "failed"} :
            job' = [job EXCEPT ![n] = [job[n] EXCEPT !.fails = @ + 1, !.phase = ph]]
      BY <2>4, Zenon DEF JobPodFails
    <3>2. [job[n] EXCEPT !.fails = @ + 1, !.phase = ph] \in Jobs
      BY <2>2, <2>4, JobKept DEF JobPodFails
    <3>3. job' \in [Names -> Jobs \cup {NoObject}] BY <3>1, <3>2 DEF Typed, ObjectsOK
    <3>4. QED BY <2>4, <3>3 DEF JobPodFails, Typed, ObjectsOK
  <2>5. CASE CollectJob(n) BY <2>5 DEF CollectJob, Typed, ObjectsOK
  <2>6. QED BY <2>1, <2>3, <2>4, <2>5
<1>13. CASE \E n \in Names : JobSucceeds(n)
  <2>1. PICK n \in Names : JobSucceeds(n) BY <1>13
  <2>2. job[n] \in Jobs BY <2>1 DEF JobSucceeds, Typed, ObjectsOK
  <2>3. [job[n] EXCEPT !.phase = "succeeded"] \in Jobs /\ job[n].dest \in Paths
    BY <2>2 DEF Jobs
  <2>4. QED BY <2>1, <2>3 DEF JobSucceeds, Typed, ObjectsOK
<1>14. CASE \E n \in Names : CollectVolume(n)
  BY <1>14 DEF CollectVolume, Typed, ObjectsOK
<1>15. CASE \E b \in Backups, by \in Schedules \cup {"user"} : Create(b, by)
  <2>1. PICK b \in Backups, by \in Schedules \cup {"user"} : Create(b, by) BY <1>15
  <2>2. [state |-> "New", dest |-> NoObject] \in Statuses BY DEF Statuses, States
  <2>3. made' \in [Backups -> Nat] /\ clock' \in Nat BY <2>1 DEF Create, Typed, ObjectsOK
  <2>4. backup' \in [Backups -> Statuses \cup {NoObject}]
    BY <2>1, <2>2 DEF Create, Typed, ObjectsOK
  <2>5. QED BY <2>1, <2>3, <2>4 DEF Create, Typed, ObjectsOK
<1>16. CASE UserEdits
  <2>1. PICK field \in Edits : spec' \in Edited(field) BY <1>16 DEF UserEdits
  <2>2. /\ field \in {"section", "pitr", "pause", "bucket", "keep", "listed", "storages"}
        /\ spec \in Specs
    BY EditsAssumption DEF EditsAssumption, Typed
  <2>3. spec' \in Specs
    <3>1. CASE field = "keep" BY <2>1, <2>2, <3>1 DEF Edited, Specs
    <3>2. CASE field = "bucket" BY <2>1, <2>2, <3>2 DEF Edited, Specs
    <3>3. CASE field = "listed" BY <2>1, <2>2, <3>3 DEF Edited, Specs
    <3>4. CASE field = "storages" BY <2>1, <2>2, <3>4 DEF Edited, Specs
    <3>5. CASE field = "section" BY <2>1, <2>2, <3>5 DEF Edited, Specs
    <3>6. CASE field = "pitr" BY <2>1, <2>2, <3>6 DEF Edited, Specs
    <3>7. CASE field = "pause" BY <2>1, <2>2, <3>7 DEF Edited, Specs
    <3>8. QED BY <2>2, <3>1, <3>2, <3>3, <3>4, <3>5, <3>6, <3>7
  <2>4. QED BY <1>16, <2>3 DEF UserEdits, Typed, ObjectsOK
<1>17. CASE ClusterFails \/ ClusterServes \/ UNCHANGED vars
  BY <1>17 DEF ClusterFails, ClusterServes, vars, Typed, ObjectsOK
<1>18. QED
  BY <1>1, <1>2, <1>3, <1>4, <1>5, <1>6, <1>7, <1>8, <1>9, <1>10, <1>11, <1>12, <1>13,
     <1>14, <1>15, <1>16, <1>17
     DEF Next, WorkerStep, PassStep, UserCreates, CronFires, Fresh, Backups
-----------------------------------------------------------------------------
(* What belongs to whom.                                                    *)

\* What the steps that touch neither backups, jobs, volumes nor the worker leave.
Frame == <<backup, made, job, volume, uploads, worker>>

\* The steps that do, and the others.
LEMMA Steps ==
    ASSUME [Next]_vars
    PROVE  \/ \E b \in Backups : Look(b) \/ PassRetire(b) \/ UserDeletes(b)
           \/ MakeVolume \/ MakeJob \/ ReadJob \/ WriteStatus \/ WorkerFails
           \/ \E n \in Names :
                JobStarts(n) \/ JobPodFails(n) \/ CollectJob(n) \/ JobSucceeds(n) \/ CollectVolume(n)
           \/ \E b \in Backups, by \in Schedules \cup {"user"} : Create(b, by)
           \/ UNCHANGED Frame
<1> USE DEF objects, outside, history, mishaps, Frame
<1>1. CASE BeginPass \/ PassFails \/ PassCollector \/ PassSchedule \/ PassCron
  BY <1>1 DEF BeginPass, PassFails, PassCollector, PassSchedule, PassCron
<1>2. CASE UserEdits \/ ClusterFails \/ ClusterServes \/ UNCHANGED vars
  BY <1>2 DEF UserEdits, ClusterFails, ClusterServes, vars
<1>3. QED
  BY <1>1, <1>2 DEF Next, WorkerStep, PassStep, UserCreates, CronFires, Fresh, Backups

\* Deleting an object takes that one away and nothing else.
LEMMA Deleted ==
    ASSUME Typed, NEW b \in Backups, PassRetire(b) \/ UserDeletes(b)
    PROVE  /\ ~Exists(b)'
           /\ \A x \in Backups \ {b} : backup'[x] = backup[x]
           /\ UNCHANGED <<made, job, volume, uploads, worker>>
BY DEF Typed, ObjectsOK, PassRetire, UserDeletes, Exists, objects, outside

\* What jobs do to each other's entries, and to their own.
LEMMA JobsChange ==
    ASSUME Typed, NEW n \in Names,
           JobStarts(n) \/ JobPodFails(n) \/ CollectJob(n) \/ JobSucceeds(n)
    PROVE  /\ \A m \in Names \ {n} : job'[m] = job[m]
           /\ job[n] \in Jobs
           /\ job'[n] = NoObject \/ (/\ job'[n] \in Jobs
                                     /\ job'[n].owner = job[n].owner
                                     /\ job'[n].dest = job[n].dest)
           /\ job'[n] # NoObject /\ job'[n].phase = "succeeded" => JobSucceeds(n)
           /\ UNCHANGED <<backup, made, volume, worker>>
<1> USE DEF objects, outside
<1>1. job[n] \in Jobs
  BY DEF Typed, ObjectsOK, JobStarts, JobPodFails, CollectJob, JobSucceeds
<1>2. CASE JobStarts(n)
  BY <1>1, <1>2 DEF JobStarts, Typed, ObjectsOK, Jobs
<1>3. CASE JobSucceeds(n)
  BY <1>1, <1>3 DEF JobSucceeds, Typed, ObjectsOK, Jobs
<1>4. CASE CollectJob(n)
  BY <1>1, <1>4 DEF CollectJob, Typed, ObjectsOK
<1>5. CASE JobPodFails(n)
  <2>1. PICK ph \in {"waiting", "failed"} :
          job' = [job EXCEPT ![n] = [job[n] EXCEPT !.fails = @ + 1, !.phase = ph]]
    BY <1>5, Zenon DEF JobPodFails
  <2>2. job'[n] = [job[n] EXCEPT !.fails = @ + 1, !.phase = ph] BY <2>1 DEF Typed, ObjectsOK
  <2>3. /\ job'[n] \in Jobs /\ job'[n].owner = job[n].owner
        /\ job'[n].dest = job[n].dest /\ job'[n].phase = ph
    <3>1. job[n].fails + 1 \in Nat BY <1>1 DEF Jobs
    <3>2. PICK f \in Nat : job'[n] = [job[n] EXCEPT !.fails = f, !.phase = ph] BY <2>2, <3>1
    <3>3. QED BY <1>1, <3>2 DEF Jobs
  <2>4. \A m \in Names \ {n} : job'[m] = job[m] BY <2>1 DEF Typed, ObjectsOK
  <2>5. QED BY <1>1, <1>5, <2>3, <2>4 DEF JobPodFails
<1>6. QED BY <1>2, <1>3, <1>4, <1>5

LEMMA SucceededJob ==
    ASSUME Typed, NEW n \in Names, JobSucceeds(n)
    PROVE  job'[n] \in Jobs
<1>1. job[n] \in Jobs BY DEF Typed, ObjectsOK, JobSucceeds
<1>2. job'[n] = [job[n] EXCEPT !.phase = "succeeded"] BY DEF JobSucceeds, Typed, ObjectsOK
<1>3. QED BY <1>1, <1>2, JobKept

LEMMA OwnedInit == Init => Owned
BY DEF Init, Owned, Exists, Idle

LEMMA OwnedStep == Typed /\ Owned /\ [Next]_vars => Owned'
<1> SUFFICES ASSUME Typed, Owned, [Next]_vars PROVE Owned'
  OBVIOUS
<1> USE DEF objects, outside
<1>1. ASSUME NEW b \in Backups, Look(b) PROVE Owned'
  BY <1>1 DEF Look, Owned, Exists
<1>2. ASSUME NEW b \in Backups, PassRetire(b) \/ UserDeletes(b) PROVE Owned'
  BY <1>2, Deleted DEF Owned, Exists
<1>3. CASE MakeVolume
  BY <1>3, Paths1 DEF MakeVolume, Owned, Exists, Typed, ObjectsOK
<1>4. CASE MakeJob
  BY <1>4, Paths1 DEF MakeJob, NewJob, Owned, Exists, Typed, ObjectsOK
<1>5. CASE ReadJob
  <2>1. worker'.pc = "idle" \/ worker'.on = worker.on
    BY <1>5 DEF ReadJob, Idle, Typed
  <2>2. QED BY <1>5, <2>1 DEF ReadJob, Owned, Exists
<1>6. CASE WriteStatus
  <2>1. \A b \in Backups : Exists(b)' => Exists(b)
    BY <1>6 DEF WriteStatus, Exists, Typed, ObjectsOK
  <2>2. QED BY <1>6, <2>1 DEF WriteStatus, Owned, Idle
<1>7. CASE WorkerFails
  BY <1>7 DEF WorkerFails, Owned, Exists, Idle
<1>8. ASSUME NEW n \in Names, JobStarts(n) \/ JobPodFails(n) \/ CollectJob(n) \/ JobSucceeds(n)
      PROVE  Owned'
  BY <1>8, JobsChange, NoObject1 DEF Owned, Exists
<1>9. ASSUME NEW n \in Names, CollectVolume(n) PROVE Owned'
  BY <1>9 DEF CollectVolume, Owned, Exists, Typed, ObjectsOK
<1>10. ASSUME NEW b \in Backups, NEW by \in Schedules \cup {"user"}, Create(b, by) PROVE Owned'
  <2>1. \A x \in Backups : /\ made[x] # 0 => made'[x] # 0
                           /\ x # b => backup'[x] = backup[x]
                           /\ made'[b] # 0
    BY <1>10 DEF Create, Typed, ObjectsOK
  <2>2. \A n \in Names : job[n] # NoObject => job[n].owner \in Backups
    BY DEF Typed, ObjectsOK, Jobs
  <2>3. \A x \in Backups : Exists(x)' => made'[x] # 0 BY <2>1 DEF Owned, Exists
  <2>4. UNCHANGED <<job, volume, worker>> BY <1>10 DEF Create
  <2>5. QED BY <2>1, <2>2, <2>3, <2>4 DEF Owned, Typed
<1>11. CASE UNCHANGED Frame
  BY <1>11 DEF Frame, Owned, Exists
<1>12. QED BY <1>1, <1>2, <1>3, <1>4, <1>5, <1>6, <1>7, <1>8, <1>9, <1>10, <1>11, Steps

LEMMA VolumesInit == Init => VolumesApart
BY DEF Init, VolumesApart, Idle

LEMMA VolumesStep == Typed /\ VolumesApart /\ [Next]_vars => VolumesApart'
<1> SUFFICES ASSUME Typed, VolumesApart, [Next]_vars PROVE VolumesApart'
  OBVIOUS
<1> USE DEF objects, outside
<1>1. ASSUME NEW b \in Backups, Look(b) PROVE VolumesApart'
  <2>1. Destination(b)[1] = "pvc" => Destination(b)[2] = JobName(b)
    BY DEF Destination, BucketPath, VolumePath
  <2>2. QED BY <1>1, <2>1 DEF Look, VolumesApart
<1>2. ASSUME NEW b \in Backups, PassRetire(b) \/ UserDeletes(b) PROVE VolumesApart'
  BY <1>2, Deleted DEF VolumesApart
<1>3. CASE MakeVolume
  BY <1>3 DEF MakeVolume, VolumesApart, Typed
<1>4. CASE MakeJob
  <2>1. worker'.on = worker.on /\ worker'.dest = worker.dest BY <1>4 DEF MakeJob, Typed
  <2>2. JobName(worker.on) \in Names BY <1>4, Paths1 DEF MakeJob, Typed
  <2>3. \A n \in Names : \/ job'[n] = job[n]
                         \/ n = JobName(worker.on) /\ job'[n].dest = worker.dest
    BY <1>4, <2>2 DEF MakeJob, NewJob, Typed, ObjectsOK
  <2>4. QED BY <1>4, <2>1, <2>3 DEF MakeJob, VolumesApart
<1>5. CASE ReadJob
  <2>1. worker'.pc = "idle" \/ (worker'.on = worker.on /\ worker'.dest = worker.dest)
    BY <1>5 DEF ReadJob, Idle, Typed
  <2>2. QED BY <1>5, <2>1 DEF ReadJob, VolumesApart
<1>6. CASE WriteStatus \/ WorkerFails
  BY <1>6 DEF WriteStatus, WorkerFails, VolumesApart, Idle
<1>7. ASSUME NEW n \in Names, JobStarts(n) \/ JobPodFails(n) \/ CollectJob(n) \/ JobSucceeds(n)
      PROVE  VolumesApart'
  <2>1. \A u \in uploads' : u \in uploads \/ u = <<n, job[n].dest>>
    BY <1>7 DEF JobStarts, JobPodFails, CollectJob, JobSucceeds
  <2>2. job[n] # NoObject BY <1>7, JobsChange, NoObject1
  <2>3. \A u \in uploads' : u[2][1] = "pvc" => u[2][2] = u[1] BY <2>1, <2>2 DEF VolumesApart
  <2>4. \A m \in Names : job'[m] # NoObject => job[m] # NoObject /\ job'[m].dest = job[m].dest
    BY <1>7, <2>2, JobsChange
  <2>5. QED BY <1>7, <2>3, <2>4, JobsChange DEF VolumesApart
<1>8. ASSUME NEW n \in Names, CollectVolume(n) PROVE VolumesApart'
  BY <1>8 DEF CollectVolume, VolumesApart
<1>9. ASSUME NEW b \in Backups, NEW by \in Schedules \cup {"user"}, Create(b, by) PROVE VolumesApart'
  BY <1>9 DEF Create, VolumesApart
<1>10. CASE UNCHANGED Frame
  BY <1>10 DEF Frame, VolumesApart
<1>11. QED BY <1>1, <1>2, <1>3, <1>4, <1>5, <1>6, <1>7, <1>8, <1>9, <1>10, Steps

\* A volume goes with its owner, and with no other backup's upload.
LEMMA VolumeGone ==
    ASSUME Distinct, Typed, Owned, VolumesApart, NEW n \in Names, CollectVolume(n)
    PROVE  \E v \in Backups : /\ ~Exists(v)
                              /\ \A b \in Backups \ {v} : Has(b)' <=> Has(b)
                              /\ Has(v)' => Has(v)
<1>1. volume[n] \in Backups /\ ~Exists(volume[n]) /\ JobName(volume[n]) = n
  BY DEF CollectVolume, Typed, ObjectsOK, Owned
<1>2. \A u \in uploads : u \in uploads' \/ u[1] = n
  BY DEF CollectVolume, VolumesApart
<1>3. uploads' \subseteq uploads BY DEF CollectVolume
<1>4. \A b \in Backups \ {volume[n]} : JobName(b) # n BY <1>1 DEF Distinct
<1>5. QED BY <1>1, <1>2, <1>3, <1>4 DEF Has, JobName

LEMMA FollowedInit == Init => Followed
BY DEF Init, Followed, Idle

LEMMA FollowedStep ==
    ASSUME Distinct
    PROVE  Typed /\ Owned /\ VolumesApart /\ Followed /\ [Next]_vars => Followed'
<1> SUFFICES ASSUME Typed, Owned, VolumesApart, Followed, [Next]_vars PROVE Followed'
  OBVIOUS
<1> USE DEF objects, outside
<1>0. \A n \in Names : job[n] # NoObject => job[n].owner \in Backups
  BY DEF Typed, ObjectsOK, Jobs
<1>1. ASSUME NEW b \in Backups, Look(b) PROVE Followed'
  BY <1>1 DEF Look, Skipped, Followed, Exists, Has
<1>2. ASSUME NEW b \in Backups, PassRetire(b) \/ UserDeletes(b) PROVE Followed'
  <2>1. \A x \in Backups : Exists(x)' => Exists(x) /\ backup'[x] = backup[x]
    BY <1>2, Deleted DEF Exists
  <2>2. \A x \in Backups : Has(x)' = Has(x) BY <1>2, Deleted DEF Has
  <2>3. QED BY <1>0, <1>2, <2>1, <2>2, Deleted DEF Followed, Typed
<1>3. CASE MakeVolume
  BY <1>3 DEF MakeVolume, Followed, Exists, Has, Typed
<1>4. CASE MakeJob
  <2>1. JobName(worker.on) \in Names BY <1>4, Paths1 DEF MakeJob, Typed
  <2>2. \A n \in Names : job'[n] = job[n] \/ job'[n].phase = "waiting"
    BY <1>4, <2>1 DEF MakeJob, NewJob, Typed, ObjectsOK
  <2>3. worker'.pc = "read" /\ worker'.on = worker.on BY <1>4 DEF MakeJob, Typed
  <2>4. QED BY <1>4, <2>2, <2>3 DEF MakeJob, Followed, Exists, Has
<1>5. CASE ReadJob
  <2>1. UNCHANGED <<backup, job, uploads>> BY <1>5 DEF ReadJob
  <2>2. CASE worker' = Idle BY <2>1, <2>2 DEF Followed, Exists, Has, Idle
  <2>3. CASE worker' # Idle
    <3>1. worker.on \in Backups /\ JobName(worker.on) \in Names /\ worker.pc = "read"
      BY <1>5, Paths1 DEF ReadJob, Typed
    <3>2. LET j == job[JobName(worker.on)]
          IN  j # NoObject /\ worker' = [worker EXCEPT !.pc = "write", !.state = StateOfJob(j)]
      BY <1>5, <2>3 DEF ReadJob
    <3>3. job[JobName(worker.on)].owner = worker.on BY <1>0, <3>1, <3>2 DEF Owned, Distinct
    <3>4. worker'.on = worker.on /\ worker'.state = StateOfJob(job[JobName(worker.on)])
      BY <3>2 DEF Typed
    <3>5. StateOfJob(job[JobName(worker.on)]) = "Succeeded"
          => job[JobName(worker.on)].phase = "succeeded"
      BY DEF StateOfJob
    <3>6. worker'.state = "Succeeded" /\ Exists(worker.on) => Has(worker.on)
      BY <3>1, <3>2, <3>3, <3>4, <3>5 DEF Followed
    <3>7. QED BY <2>1, <3>1, <3>4, <3>6 DEF Followed, Exists, Has
  <2>4. QED BY <2>2, <2>3
<1>6. CASE WriteStatus
  <2>1. \A b \in Backups : Exists(b)' => Exists(b)
    BY <1>6 DEF WriteStatus, Exists, Typed, ObjectsOK
  <2>2. QED BY <1>0, <1>6, <2>1 DEF WriteStatus, Followed, Idle, Has
<1>7. CASE WorkerFails
  BY <1>7 DEF WorkerFails, Followed, Idle, Exists, Has
<1>8. ASSUME NEW n \in Names, JobStarts(n) \/ JobPodFails(n) \/ CollectJob(n) \/ JobSucceeds(n)
      PROVE  Followed'
  <2>1. \A x \in Backups : Has(x) => Has(x)'
    BY <1>8 DEF Has, JobStarts, JobPodFails, CollectJob, JobSucceeds
  <2>2. JobSucceeds(n) => Has(job[n].owner)'
    <3>1. job'[n] # NoObject => job'[n].owner = job[n].owner BY <1>8, JobsChange
    <3>2. JobSucceeds(n) => <<n, job[n].dest>> \in uploads' /\ JobName(job[n].owner) = n
      BY DEF JobSucceeds, Owned
    <3>3. JobSucceeds(n) => job'[n] # NoObject BY SucceededJob, NoObject1
    <3>4. QED BY <3>1, <3>2, <3>3 DEF Has, JobName
  <2>3. QED BY <1>0, <1>8, <2>1, <2>2, JobsChange DEF Followed, Exists, Typed
<1>9. ASSUME NEW n \in Names, CollectVolume(n) PROVE Followed'
  <2>1. \A b \in Backups : Exists(b) /\ Has(b) => Has(b)' BY <1>9, VolumeGone
  <2>2. QED BY <1>0, <1>9, <2>1 DEF CollectVolume, Followed, Exists, Typed
<1>10. ASSUME NEW b \in Backups, NEW by \in Schedules \cup {"user"}, Create(b, by) PROVE Followed'
  <2>1. \A x \in Backups : made[x] # 0 => (Exists(x)' <=> Exists(x)) /\ backup'[x] = backup[x]
    BY <1>10 DEF Create, Typed, ObjectsOK, Exists
  <2>2. UNCHANGED <<job, uploads, worker>> BY <1>10 DEF Create
  <2>3. QED BY <1>0, <2>1, <2>2 DEF Followed, Owned, Typed, Has
<1>11. CASE UNCHANGED Frame
  BY <1>11 DEF Frame, Followed, Exists, Has
<1>12. QED BY <1>1, <1>2, <1>3, <1>4, <1>5, <1>6, <1>7, <1>8, <1>9, <1>10, <1>11, Steps
-----------------------------------------------------------------------------
(* The refinement.                                                          *)

Promised == Typed /\ Owned /\ VolumesApart /\ Followed

\* A step that leaves what is reported and what is uploaded is a stutter.
LEMMA Stutters ==
    ASSUME \A b \in Backups : backup'[b] = backup[b], uploads' = uploads
    PROVE  UNCHANGED Outcome!vars
BY DEF Outcome!vars, Reports, Uploaded, Exists, Unfinished, Has, JobName

\* A step that changes the report of one backup.
LEMMA OneReport ==
    ASSUME NEW b \in Backups, \A x \in Backups \ {b} : backup'[x] = backup[x], uploads' = uploads
    PROVE  /\ Uploaded' = Uploaded
           /\ Reports' = [Reports EXCEPT ![b] = Reports'[b]]
           /\ Reports'[b] = IF ~Exists(b)' THEN "absent"
                            ELSE IF Unfinished(b)' THEN "pending" ELSE backup'[b].state
BY DEF Reports, Uploaded, Exists, Unfinished, JobName

LEMMA RefinedInit == Init => Outcome!Init
BY DEF Init, Outcome!Init, Reports, Uploaded, Exists

LEMMA RefinedStep ==
    ASSUME Distinct
    PROVE  Promised /\ [Next]_vars => [Outcome!Next]_(Outcome!vars)
<1> SUFFICES ASSUME Promised, [Next]_vars PROVE Outcome!Next \/ UNCHANGED Outcome!vars
  OBVIOUS
<1> USE DEF objects, outside, Promised
<1>1. ASSUME NEW b \in Backups, Look(b) PROVE UNCHANGED Outcome!vars
  BY <1>1, Stutters DEF Look
<1>2. ASSUME NEW b \in Backups, PassRetire(b) \/ UserDeletes(b)
      PROVE  Outcome!Next \/ UNCHANGED Outcome!vars
  <2>1. /\ Uploaded' = Uploaded
        /\ Reports' = [Reports EXCEPT ![b] = "absent"]
    BY <1>2, Deleted, OneReport
  <2>2. CASE Exists(b)
    <3>1. Reports[b] # "absent"
      BY <2>2 DEF Reports, Exists, Unfinished, Finished, Typed, ObjectsOK
    <3>2. Outcome!Withdraw(b) BY <2>1, <3>1 DEF Outcome!Withdraw
    <3>3. QED BY <3>2 DEF Outcome!Next
  <2>3. CASE ~Exists(b)
    <3>1. Reports[b] = "absent" BY <2>3 DEF Reports
    <3>2. Reports' = Reports BY <2>1, <3>1 DEF Reports
    <3>3. QED BY <2>1, <3>2 DEF Outcome!vars
  <2>4. QED BY <2>2, <2>3
<1>3. CASE MakeVolume \/ MakeJob \/ ReadJob \/ WorkerFails
  BY <1>3, Stutters DEF MakeVolume, MakeJob, ReadJob, WorkerFails
<1>4. CASE WriteStatus
  <2> DEFINE b == worker.on
  <2>1. b \in Backups BY <1>4 DEF WriteStatus, Typed
  <2>2. CASE ~Exists(b) BY <1>4, <2>2, Stutters DEF WriteStatus
  <2>3. CASE Exists(b)
    <3>1. Reports[b] = "pending" BY <1>4, <2>1, <2>3 DEF WriteStatus, Followed, Reports, Unfinished
    <3>2. backup' = [backup EXCEPT ![b] = [state |-> worker.state, dest |-> worker.dest]]
      BY <1>4, <2>3 DEF WriteStatus
    <3>3. backup'[b].state = worker.state /\ backup'[b] # NoObject
      <4>1. [state |-> worker.state, dest |-> worker.dest] \in Statuses BY DEF Typed, Statuses
      <4>2. backup'[b] = [state |-> worker.state, dest |-> worker.dest]
        BY <2>1, <3>2 DEF Typed, ObjectsOK
      <4>3. QED BY <4>1, <4>2, NoObject1
    <3>4. \A x \in Backups \ {b} : backup'[x] = backup[x] BY <3>2 DEF Typed, ObjectsOK
    <3>5. uploads' = uploads BY <1>4 DEF WriteStatus
    <3>6. /\ Uploaded' = Uploaded
          /\ Reports' = [Reports EXCEPT ![b] = Reports'[b]]
      BY <2>1, <3>4, <3>5, OneReport
    <3>7. Reports'[b] = IF worker.state \in Finished THEN worker.state ELSE "pending"
      BY <2>1, <3>3 DEF Reports, Exists, Unfinished, Finished
    <3>8. CASE worker.state = "Succeeded"
      <4>1. b \in Uploaded BY <1>4, <2>1, <2>3, <3>8 DEF WriteStatus, Followed, Has, Uploaded
      <4>2. Outcome!ReportSuccess(b)
        BY <3>1, <3>6, <3>7, <3>8, <4>1 DEF Outcome!ReportSuccess, Finished
      <4>3. QED BY <2>1, <4>2 DEF Outcome!Next
    <3>9. CASE worker.state = "Failed"
      <4>1. Outcome!ReportFailure(b)
        BY <3>1, <3>6, <3>7, <3>9 DEF Outcome!ReportFailure, Finished
      <4>2. QED BY <2>1, <4>1 DEF Outcome!Next
    <3>10. CASE worker.state \notin Finished
      <4>1. Reports' = Reports BY <3>1, <3>6, <3>7, <3>10 DEF Reports
      <4>2. QED BY <3>6, <4>1 DEF Outcome!vars
    <3>11. QED BY <3>8, <3>9, <3>10 DEF Finished
  <2>4. QED BY <2>2, <2>3
<1>5. ASSUME NEW n \in Names, JobStarts(n) \/ JobPodFails(n) \/ CollectJob(n)
      PROVE  UNCHANGED Outcome!vars
  BY <1>5, Stutters DEF JobStarts, JobPodFails, CollectJob
<1>6. ASSUME NEW n \in Names, JobSucceeds(n) PROVE Outcome!Next
  <2>1. PICK b \in Backups : JobName(b) = n BY DEF Names, JobName
  <2>2. Uploaded' = Uploaded \cup {b}
    <3>1. uploads' = uploads \cup {<<n, job[n].dest>>} BY <1>6 DEF JobSucceeds
    <3>2. ASSUME NEW x \in Backups PROVE Has(x)' <=> Has(x) \/ JobName(x) = n
      <4>1. <<n, job[n].dest>>[1] = n OBVIOUS
      <4>2. Has(x)' => Has(x) \/ JobName(x) = n BY <3>1, <4>1 DEF Has, JobName
      <4>3. Has(x) => Has(x)' BY <3>1 DEF Has, JobName
      <4>4. JobName(x) = n => Has(x)' BY <3>1, <4>1 DEF Has, JobName
      <4>5. QED BY <4>2, <4>3, <4>4
    <3>3. \A x \in Backups : JobName(x) = n <=> x = b BY <2>1 DEF Distinct
    <3>4. QED BY <3>2, <3>3 DEF Uploaded, Has, JobName
  <2>3. Reports' = Reports BY <1>6 DEF JobSucceeds, Reports, Exists, Unfinished
  <2>4. Outcome!Upload(b) BY <2>2, <2>3 DEF Outcome!Upload
  <2>5. QED BY <2>4 DEF Outcome!Next
<1>7. ASSUME NEW n \in Names, CollectVolume(n) PROVE Outcome!Next \/ UNCHANGED Outcome!vars
  <2>1. PICK v \in Backups : /\ ~Exists(v)
                             /\ \A b \in Backups \ {v} : Has(b)' <=> Has(b)
                             /\ Has(v)' => Has(v)
    BY <1>7, VolumeGone
  <2>2. Reports' = Reports BY <1>7 DEF CollectVolume, Reports, Exists, Unfinished
  <2>3. Reports[v] = "absent" BY <2>1 DEF Reports
  <2>4. Uploaded' = Uploaded \/ Uploaded' = Uploaded \ {v} BY <2>1 DEF Uploaded, Has, JobName
  <2>5. CASE Uploaded' = Uploaded \ {v}
    <3>1. Outcome!LoseVolume(v) BY <2>2, <2>3, <2>5 DEF Outcome!LoseVolume
    <3>2. QED BY <3>1 DEF Outcome!Next
  <2>6. CASE Uploaded' = Uploaded BY <2>2, <2>6 DEF Outcome!vars
  <2>7. QED BY <2>4, <2>5, <2>6
<1>8. ASSUME NEW b \in Backups, NEW by \in Schedules \cup {"user"}, Create(b, by) PROVE Outcome!Next
  <2>1. ~Exists(b) /\ uploads' = uploads BY <1>8 DEF Create, Owned
  <2>2. \A x \in Backups \ {b} : backup'[x] = backup[x] BY <1>8 DEF Create, Typed, ObjectsOK
  <2>3. backup'[b].state = "New" /\ backup'[b] # NoObject
    <3>1. [state |-> "New", dest |-> NoObject] \in Statuses BY DEF Statuses, States
    <3>2. backup'[b] = [state |-> "New", dest |-> NoObject] BY <1>8 DEF Create, Typed, ObjectsOK
    <3>3. QED BY <3>1, <3>2, NoObject1
  <2>4. Reports'[b] = "pending" BY <2>3 DEF Reports, Exists, Unfinished, Finished
  <2>5. Reports[b] = "absent" BY <2>1 DEF Reports
  <2>6. Outcome!Request(b) BY <2>1, <2>2, <2>4, <2>5, OneReport DEF Outcome!Request
  <2>7. QED BY <2>6 DEF Outcome!Next
<1>9. CASE UNCHANGED Frame
  BY <1>9, Stutters DEF Frame
<1>10. QED BY <1>1, <1>2, <1>3, <1>4, <1>5, <1>6, <1>7, <1>8, <1>9, Steps

\* If no two backups share the name of a job, the two controllers keep what
\* BackupOutcome promises: reports are final, success means a complete upload,
\* and no volume is lost under it.
THEOREM OutcomesKept ==
    ASSUME Distinct
    PROVE  Spec => BackupOutcomes
<1>1. Init => Promised /\ Outcome!Init
  BY TypedInit, OwnedInit, VolumesInit, FollowedInit, RefinedInit DEF Promised
<1>2. Promised /\ [Next]_vars => Promised'
  BY TypedStep, OwnedStep, VolumesStep, FollowedStep DEF Promised
<1>3. Promised /\ [Next]_vars => [Outcome!Next]_(Outcome!vars) BY RefinedStep
<1>4. QED BY <1>1, <1>2, <1>3, PTL DEF Spec, BackupOutcomes, Outcome!Spec
-----------------------------------------------------------------------------
(* The data of a backup that succeeded.                                     *)

Sent(b) == <<JobName(b), Destination(b)>> \in uploads

\* What is made for a backup goes where the backup goes.
Destined ==
    \A b \in Backups :
        /\ worker.pc # "idle" /\ worker.on = b => worker.dest = Destination(b)
        /\ \A n \in Names : job[n] # NoObject /\ job[n].owner = b => job[n].dest = Destination(b)

\* Success stands for that upload wherever it is seen: at the job, by the
\* worker, in the status.
Arrived ==
    \A b \in Backups : Exists(b) =>
        /\ \A n \in Names : job[n] # NoObject /\ job[n].owner = b /\ job[n].phase = "succeeded"
                            => Sent(b)
        /\ worker.pc = "write" /\ worker.on = b /\ worker.state = "Succeeded" => Sent(b)
        /\ backup[b].state = "Succeeded" => backup[b].dest = Destination(b) /\ Sent(b)

\* Where a backup goes is settled when it is made.
LEMMA Settled ==
    ASSUME "bucket" \notin Edits, Typed, [Next]_vars
    PROVE  \A b \in Backups : made[b] # 0 => Destination(b)' = Destination(b)
<1> USE DEF objects, outside, history, mishaps
<1>1. spec'.bucket = spec.bucket
  <2>1. CASE UserEdits
    <3>1. PICK field \in Edits : spec' \in Edited(field) BY <2>1 DEF UserEdits
    <3>2. /\ field \in {"section", "pitr", "pause", "keep", "listed", "storages"}
          /\ spec \in Specs
      BY EditsAssumption DEF EditsAssumption, Typed
    <3>3. QED BY <3>1, <3>2 DEF Edited, Specs
  <2>2. CASE ~UserEdits
    BY <2>2 DEF Next, Look, UserCreates, UserDeletes, WorkerStep, MakeVolume, MakeJob, ReadJob,
                WriteStatus, WorkerFails, BeginPass, PassStep, PassCollector, PassSchedule,
                PassCron, PassRetire, PassFails, JobStarts, JobSucceeds, JobPodFails, CollectJob,
                CollectVolume, CronFires, Create, ClusterFails, ClusterServes, vars
  <2>3. QED BY <2>1, <2>2
<1>2. \A b \in Backups : made[b] # 0 => made'[b] = made[b] /\ from'[b] = from[b]
  BY DEF Next, Look, UserCreates, UserDeletes, WorkerStep, MakeVolume, MakeJob, ReadJob,
         WriteStatus, WorkerFails, BeginPass, PassStep, PassCollector, PassSchedule,
         PassCron, PassRetire, PassFails, JobStarts, JobSucceeds, JobPodFails, CollectJob,
         CollectVolume, CronFires, Create, UserEdits, ClusterFails, ClusterServes, vars,
         Typed, ObjectsOK
<1>3. QED BY <1>1, <1>2 DEF Destination, StorageFor, BucketPath, VolumePath, JobName

LEMMA DestinedStep ==
    ASSUME "bucket" \notin Edits
    PROVE  Typed /\ Owned /\ Destined /\ [Next]_vars => Destined'
<1> SUFFICES ASSUME Typed, Owned, Destined, [Next]_vars PROVE Destined'
  OBVIOUS
<1> USE DEF objects, outside
<1>0. /\ \A n \in Names : job[n] # NoObject => job[n].owner \in Backups /\ made[job[n].owner] # 0
      /\ worker.pc # "idle" => worker.on \in Backups /\ made[worker.on] # 0
  BY DEF Typed, ObjectsOK, Jobs, Owned
<1>a. \A b \in Backups :
        /\ worker.pc # "idle" /\ worker.on = b => worker.dest = Destination(b)'
        /\ \A n \in Names : job[n] # NoObject /\ job[n].owner = b => job[n].dest = Destination(b)'
  BY <1>0, Settled DEF Destined
<1>1. ASSUME NEW b \in Backups, Look(b) PROVE Destined'
  <2>1. made[b] # 0 BY <1>1 DEF Look, Owned
  <2>2. worker'.on = b /\ worker'.dest = Destination(b)' BY <1>1, <2>1, Settled DEF Look
  <2>3. job' = job BY <1>1 DEF Look
  <2>4. QED BY <1>a, <2>2, <2>3 DEF Destined
<1>2. ASSUME NEW b \in Backups, PassRetire(b) \/ UserDeletes(b) PROVE Destined'
  BY <1>2, <1>a, Deleted DEF Destined
<1>3. CASE MakeVolume
  <2>1. worker'.on = worker.on /\ worker'.dest = worker.dest /\ worker.pc # "idle" /\ job' = job
    BY <1>3 DEF MakeVolume, Typed
  <2>2. QED BY <1>a, <2>1 DEF Destined
<1>4. CASE MakeJob
  <2>1. worker'.on = worker.on /\ worker'.dest = worker.dest /\ worker.pc # "idle"
    BY <1>4 DEF MakeJob, Typed
  <2>2. JobName(worker.on) \in Names BY <1>4, Paths1 DEF MakeJob, Typed
  <2>3. \A n \in Names : \/ job'[n] = job[n]
                         \/ job'[n].dest = worker.dest /\ job'[n].owner = worker.on
    BY <1>4, <2>2 DEF MakeJob, NewJob, Typed, ObjectsOK
  <2>4. QED BY <1>a, <2>1, <2>3 DEF Destined
<1>5. CASE ReadJob
  <2>1. worker'.pc = "idle" \/ (/\ worker.pc # "idle" /\ worker'.on = worker.on
                                /\ worker'.dest = worker.dest)
    BY <1>5 DEF ReadJob, Idle, Typed
  <2>2. job' = job BY <1>5 DEF ReadJob
  <2>3. QED BY <1>a, <2>1, <2>2 DEF Destined
<1>6. CASE WriteStatus \/ WorkerFails
  BY <1>6, <1>a DEF WriteStatus, WorkerFails, Destined, Idle
<1>7. ASSUME NEW n \in Names, JobStarts(n) \/ JobPodFails(n) \/ CollectJob(n) \/ JobSucceeds(n)
      PROVE  Destined'
  <2>1. job[n] # NoObject BY <1>7, JobsChange, NoObject1
  <2>2. QED BY <1>7, <1>a, <2>1, JobsChange DEF Destined
<1>8. ASSUME NEW n \in Names, CollectVolume(n) PROVE Destined'
  BY <1>8, <1>a DEF CollectVolume, Destined
<1>9. ASSUME NEW b \in Backups, NEW by \in Schedules \cup {"user"}, Create(b, by) PROVE Destined'
  BY <1>9, <1>a DEF Create, Destined
<1>10. CASE UNCHANGED Frame
  BY <1>10, <1>a DEF Frame, Destined
<1>11. QED BY <1>1, <1>2, <1>3, <1>4, <1>5, <1>6, <1>7, <1>8, <1>9, <1>10, Steps

\* A volume goes with its owner, and with no other backup's data.
LEMMA DataKept ==
    ASSUME Distinct, Typed, Owned, NEW n \in Names, CollectVolume(n), NEW b \in Backups, Exists(b)
    PROVE  Sent(b) => <<JobName(b), Destination(b)>> \in uploads'
<1>1. volume[n] \in Backups /\ ~Exists(volume[n]) /\ JobName(volume[n]) = n
  BY DEF CollectVolume, Typed, ObjectsOK, Owned
<1>2. JobName(b) # n BY <1>1 DEF Distinct
<1>3. Destination(b) # <<"pvc", n, 0>>
  BY <1>2 DEF Destination, BucketPath, VolumePath
<1>4. QED BY <1>3 DEF CollectVolume, Sent

LEMMA ArrivedStep ==
    ASSUME "bucket" \notin Edits, Distinct
    PROVE  Typed /\ Owned /\ Destined /\ Arrived /\ [Next]_vars => Arrived'
<1> SUFFICES ASSUME Typed, Owned, Destined, Arrived, [Next]_vars PROVE Arrived'
  OBVIOUS
<1> USE DEF objects, outside
<1>0. /\ \A b \in Backups : Exists(b) => Destination(b)' = Destination(b)
      /\ \A b \in Backups, n \in Names :
           job[n] # NoObject /\ job[n].owner = b => Destination(b)' = Destination(b)
      /\ worker.pc # "idle" => worker.on \in Backups
                               /\ \A b \in Backups : worker.on = b => Destination(b)' = Destination(b)
  BY Settled DEF Owned, Typed
<1>a. ASSUME uploads \subseteq uploads'
      PROVE  \A b \in Backups : Exists(b) /\ Sent(b) => Sent(b)'
  BY <1>a, <1>0 DEF Sent, JobName
<1>1. ASSUME NEW b \in Backups, Look(b) PROVE Arrived'
  <2>1. uploads' = uploads /\ backup' = backup /\ job' = job /\ worker'.pc # "write"
    BY <1>1 DEF Look
  <2>2. QED BY <1>0, <1>a, <2>1 DEF Arrived, Exists
<1>2. ASSUME NEW b \in Backups, PassRetire(b) \/ UserDeletes(b) PROVE Arrived'
  <2>1. \A x \in Backups : Exists(x)' => Exists(x) /\ backup'[x] = backup[x]
    BY <1>2, Deleted DEF Exists
  <2>2. uploads' = uploads /\ job' = job /\ worker' = worker BY <1>2, Deleted
  <2>3. QED BY <1>0, <1>a, <2>1, <2>2 DEF Arrived
<1>3. CASE MakeVolume
  <2>1. uploads' = uploads /\ backup' = backup /\ job' = job /\ worker'.pc # "write"
    BY <1>3 DEF MakeVolume, Typed
  <2>2. QED BY <1>0, <1>a, <2>1 DEF Arrived, Exists
<1>4. CASE MakeJob
  <2>1. JobName(worker.on) \in Names BY <1>4, Paths1 DEF MakeJob, Typed
  <2>2. \A n \in Names : job'[n] = job[n] \/ job'[n].phase = "waiting"
    BY <1>4, <2>1 DEF MakeJob, NewJob, Typed, ObjectsOK
  <2>3. uploads' = uploads /\ backup' = backup /\ worker'.pc # "write" BY <1>4 DEF MakeJob, Typed
  <2>4. QED BY <1>0, <1>a, <2>2, <2>3 DEF Arrived, Exists
<1>5. CASE ReadJob
  <2>1. UNCHANGED <<backup, job, uploads>> BY <1>5 DEF ReadJob
  <2>2. CASE worker'.pc # "write" BY <1>0, <1>a, <2>1, <2>2 DEF Arrived, Exists
  <2>3. CASE worker'.pc = "write"
    <3>1. worker.on \in Backups /\ JobName(worker.on) \in Names
      BY <1>5, Paths1 DEF ReadJob, Typed
    <3>2. LET j == job[JobName(worker.on)]
          IN  /\ j # NoObject /\ worker'.on = worker.on
              /\ worker'.state = "Succeeded" => j.phase = "succeeded"
      BY <1>5, <2>3 DEF ReadJob, Idle, Typed, StateOfJob
    <3>3. job[JobName(worker.on)].owner = worker.on
      BY <3>1, <3>2 DEF Owned, Distinct, Typed, ObjectsOK, Jobs
    <3>4. QED BY <1>0, <1>a, <2>1, <3>1, <3>2, <3>3 DEF Arrived, Exists
  <2>4. QED BY <2>2, <2>3
<1>6. CASE WriteStatus
  <2>1. worker.on \in Backups /\ worker.pc = "write" BY <1>6 DEF WriteStatus, Typed
  <2>2. uploads' = uploads /\ job' = job /\ worker'.pc # "write" BY <1>6 DEF WriteStatus, Idle
  <2>3. \A b \in Backups : Exists(b)' => Exists(b)
    BY <1>6 DEF WriteStatus, Exists, Typed, ObjectsOK
  <2>4. \A b \in Backups :
          Exists(b)' => \/ backup'[b] = backup[b]
                        \/ /\ worker.on = b
                           /\ backup'[b] = [state |-> worker.state, dest |-> worker.dest]
    BY <1>6, <2>1 DEF WriteStatus, Exists, Typed, ObjectsOK
  <2>5. ASSUME NEW b \in Backups, Exists(b)', backup'[b].state = "Succeeded"
        PROVE  backup'[b].dest = Destination(b) /\ Sent(b)
    BY <2>1, <2>3, <2>4, <2>5 DEF Arrived, Destined
  <2>6. QED BY <1>0, <1>a, <2>2, <2>3, <2>5 DEF Arrived
<1>7. CASE WorkerFails
  <2>1. uploads' = uploads /\ backup' = backup /\ job' = job /\ worker'.pc # "write"
    BY <1>7 DEF WorkerFails, Idle
  <2>2. QED BY <1>0, <1>a, <2>1 DEF Arrived, Exists
<1>8. ASSUME NEW n \in Names, JobStarts(n) \/ JobPodFails(n) \/ CollectJob(n) \/ JobSucceeds(n)
      PROVE  Arrived'
  <2>1. uploads \subseteq uploads'
    BY <1>8 DEF JobStarts, JobPodFails, CollectJob, JobSucceeds
  <2>2. ASSUME NEW b \in Backups, Exists(b), job'[n] # NoObject, job'[n].owner = b,
               job'[n].phase = "succeeded"
        PROVE  Sent(b)'
    <3>1. JobSucceeds(n) /\ job[n] # NoObject /\ job[n].owner = b BY <1>8, <2>2, JobsChange, NoObject1
    <3>2. job[n].dest = Destination(b) /\ JobName(b) = n BY <3>1 DEF Destined, Owned
    <3>3. <<JobName(b), Destination(b)>> \in uploads' BY <3>1, <3>2 DEF JobSucceeds
    <3>4. QED BY <1>0, <2>2, <3>3 DEF Sent, JobName
  <2>3. backup' = backup /\ worker' = worker /\ \A m \in Names \ {n} : job'[m] = job[m]
    BY <1>8, JobsChange
  <2>4. QED BY <1>0, <1>a, <2>1, <2>2, <2>3 DEF Arrived, Exists
<1>9. ASSUME NEW n \in Names, CollectVolume(n) PROVE Arrived'
  <2>1. \A b \in Backups : Exists(b) /\ Sent(b) => Sent(b)'
    BY <1>0, <1>9, DataKept DEF Sent, JobName
  <2>2. UNCHANGED <<backup, job, worker>> BY <1>9 DEF CollectVolume
  <2>3. QED BY <1>0, <2>1, <2>2 DEF Arrived, Exists
<1>10. ASSUME NEW b \in Backups, NEW by \in Schedules \cup {"user"}, Create(b, by) PROVE Arrived'
  <2>1. /\ UNCHANGED <<job, uploads, worker>> /\ made[b] = 0
        /\ backup' = [backup EXCEPT ![b] = [state |-> "New", dest |-> NoObject]]
    BY <1>10 DEF Create
  <2>2. backup'[b].state # "Succeeded" /\ \A x \in Backups \ {b} : backup'[x] = backup[x]
    BY <2>1 DEF Typed, ObjectsOK
  <2>3. /\ \A n \in Names : ~(job[n] # NoObject /\ job[n].owner = b)
        /\ ~(worker.pc = "write" /\ worker.on = b)
    BY <2>1 DEF Owned
  <2>4. QED BY <1>0, <1>a, <2>1, <2>2, <2>3 DEF Arrived, Exists
<1>11. CASE UNCHANGED Frame
  BY <1>0, <1>a, <1>11 DEF Frame, Arrived, Exists
<1>12. QED BY <1>1, <1>2, <1>3, <1>4, <1>5, <1>6, <1>7, <1>8, <1>9, <1>10, <1>11, Steps

\* A backup that the backup controller reports Succeeded (updateJobStatus) has
\* its data where its status says, if no bucket is replaced and no two backups
\* share the name of a job.
THEOREM SuccessBacked ==
    ASSUME "bucket" \notin Edits, Distinct
    PROVE  Spec => []SuccessHasData
<1> DEFINE IInv == Typed /\ Owned /\ Destined /\ Arrived
<1>1. Init => IInv
  <2>1. Init => Destined /\ Arrived BY DEF Init, Destined, Arrived, Idle, Exists
  <2>2. QED BY <2>1, TypedInit, OwnedInit
<1>2. IInv /\ [Next]_vars => IInv' BY TypedStep, OwnedStep, DestinedStep, ArrivedStep
<1>3. IInv => SuccessHasData BY DEF Arrived, Sent, SuccessHasData
<1>4. QED BY <1>1, <1>2, <1>3, PTL DEF Spec
-----------------------------------------------------------------------------
(* What the retention leaves.                                               *)

\* The backups that the pass goes on to delete.
Going == IF pass.pc = "idle" THEN {} ELSE pass.old

\* n is a good backup of b's schedule, not older, or was one until the user's deletion.
Outlives(n, b) ==
    /\ from[n] = from[b] /\ made[n] >= made[b]
    /\ n \in withdrawn \/ (Exists(n) /\ backup[n].state = "Succeeded")

\* Of each backup that is deleted or is going to be there is one that stays.
Spared == \A b \in retired \cup Going : \E n \in Backups \ (retired \cup Going) : Outlives(n, b)

\* A pass is under way, with all that it is, or there is none.
PassOK(p) ==
    \/ p = NoPass
    \/ /\ p = [pc |-> p.pc, spec |-> p.spec, ready |-> p.ready, todo |-> p.todo,
               items |-> p.items, old |-> p.old]
       /\ p.pc \in {"collector", "schedule", "clean"} /\ p.spec \in Specs
       /\ p.items \subseteq Schedules /\ p.old \subseteq Backups

\* What was deleted stays so, what is over is not run again, and the pass is one.
Lasting ==
    /\ retired \cup withdrawn \subseteq Backups
    /\ \A b \in retired \cup withdrawn : ~Exists(b) /\ made[b] # 0
    /\ worker.pc # "idle" /\ Exists(worker.on) => backup[worker.on].state \notin Finished
    /\ IsFiniteSet({b \in Backups : made[b] # 0})
    /\ PassOK(pass)
    /\ \A b \in Going : made[b] # 0

\* What the retention reads and writes of the objects.
Records == <<backup, made, from, retired, withdrawn>>

\* A pass that retires nothing has no more to delete than before.
\* What a pass is made of, and that this makes a pass.
LEMMA PassParts ==
    ASSUME PassOK(pass), pass.pc # "idle"
    PROVE  \E sp, r, d, i, O :
             /\ pass = [pc |-> pass.pc, spec |-> sp, ready |-> r, todo |-> d, items |-> i, old |-> O]
             /\ sp \in Specs /\ i \in SUBSET Schedules /\ O \in SUBSET Backups
<1>1. pass # NoPass BY DEF NoPass
<1>2. /\ pass = [pc |-> pass.pc, spec |-> pass.spec, ready |-> pass.ready, todo |-> pass.todo,
                items |-> pass.items, old |-> pass.old]
      /\ pass.spec \in Specs /\ pass.items \in SUBSET Schedules /\ pass.old \in SUBSET Backups
  BY <1>1 DEF PassOK
<1>3. QED BY <1>2, Zenon

LEMMA PassMade ==
    ASSUME NEW c \in {"collector", "schedule", "clean"}, NEW sp \in Specs, NEW r, NEW d,
           NEW i \in SUBSET Schedules, NEW O \in SUBSET Backups
    PROVE  PassOK([pc |-> c, spec |-> sp, ready |-> r, todo |-> d, items |-> i, old |-> O])
<1> DEFINE p == [pc |-> c, spec |-> sp, ready |-> r, todo |-> d, items |-> i, old |-> O]
<1>1. p.pc = c /\ p.spec = sp /\ p.ready = r /\ p.todo = d /\ p.items = i /\ p.old = O
  OBVIOUS
<1>2. p = [pc |-> p.pc, spec |-> p.spec, ready |-> p.ready, todo |-> p.todo,
           items |-> p.items, old |-> p.old]
  OBVIOUS
<1> HIDE DEF p
<1>3. PassOK(p) BY <1>1, <1>2 DEF PassOK
<1>4. QED BY <1>3 DEF p

LEMMA PassGoesOn ==
    ASSUME Typed, Lasting, BeginPass \/ PassFails \/ PassCollector \/ PassSchedule
    PROVE  /\ UNCHANGED <<Records, worker>> /\ Going' \subseteq Going
           /\ PassOK(pass')
<1> USE DEF objects, history, Records, NoPass, PassOK
<1>1. CASE BeginPass
  BY <1>1 DEF BeginPass, Typed, Going, Lasting
<1>2. CASE PassFails
  BY <1>2 DEF PassFails, Going
<1>3. CASE PassCollector
  <2>1. PICK t : pass' = [pass EXCEPT !.pc = "schedule", !.todo = t, !.ready = FALSE]
    BY <1>3 DEF PassCollector
  <2>2. PICK sp, r, d, i, O :
          /\ pass = [pc |-> "collector", spec |-> sp, ready |-> r, todo |-> d, items |-> i, old |-> O]
          /\ sp \in Specs /\ i \in SUBSET Schedules /\ O \in SUBSET Backups
    <3>1. PassOK(pass) /\ pass.pc = "collector" BY <1>3 DEF PassCollector, Lasting
    <3>2. QED BY <3>1, PassParts
  <2>3. pass' = [pc |-> "schedule", spec |-> sp, ready |-> FALSE, todo |-> t, items |-> i, old |-> O]
    BY <2>1, <2>2
  <2>4. PassOK(pass') BY <2>2, <2>3, PassMade
  <2>5. Going' = Going BY <2>2, <2>3 DEF Going
  <2>6. QED BY <1>3, <2>4, <2>5 DEF PassCollector
<1>4. CASE PassSchedule
  <2>1. \/ pass' = NoPass
        \/ \E i \in SUBSET Schedules : pass' = [pass EXCEPT !.pc = "clean", !.items = i]
        \/ \E t : pass' = [pass EXCEPT !.todo = t]
    <3>1. {s \in Schedules : cron[s] # NoObject} \in SUBSET Schedules OBVIOUS
    <3>2. QED BY <1>4, <3>1 DEF PassSchedule
  <2>2. PICK sp, r, d, i, O :
          /\ pass = [pc |-> "schedule", spec |-> sp, ready |-> r, todo |-> d, items |-> i, old |-> O]
          /\ sp \in Specs /\ i \in SUBSET Schedules /\ O \in SUBSET Backups
    <3>1. PassOK(pass) /\ pass.pc = "schedule" BY <1>4 DEF PassSchedule, Lasting
    <3>2. QED BY <3>1, PassParts
  <2>3. \/ pass' = NoPass
        \/ \E j \in SUBSET Schedules :
             pass' = [pc |-> "clean", spec |-> sp, ready |-> r, todo |-> d, items |-> j, old |-> O]
        \/ \E t :
             pass' = [pc |-> "schedule", spec |-> sp, ready |-> r, todo |-> t, items |-> i, old |-> O]
    <3>1. CASE pass' = NoPass BY <3>1
    <3>2. ASSUME NEW j \in SUBSET Schedules, pass' = [pass EXCEPT !.pc = "clean", !.items = j]
          PROVE  pass' = [pc |-> "clean", spec |-> sp, ready |-> r, todo |-> d, items |-> j, old |-> O]
      BY <2>2, <3>2
    <3>3. ASSUME NEW t, pass' = [pass EXCEPT !.todo = t]
          PROVE  pass' = [pc |-> "schedule", spec |-> sp, ready |-> r, todo |-> t, items |-> i, old |-> O]
      BY <2>2, <3>3
    <3>4. QED BY <2>1, <3>1, <3>2, <3>3, Zenon
  <2>4. PassOK(pass')
    <3>1. PassOK(NoPass) BY DEF PassOK
    <3>2. QED BY <2>2, <2>3, <3>1, PassMade
  <2>5. Going' \subseteq Going BY <2>2, <2>3 DEF Going
  <2>6. QED BY <1>4, <2>4, <2>5 DEF PassSchedule
<1>5. QED BY <1>1, <1>2, <1>3, <1>4

\* One CronJob of the list: what is found to go is beyond the number to keep.
LEMMA PassFinds ==
    ASSUME Typed, Lasting, PassCron
    PROVE  /\ UNCHANGED <<Records, worker>> /\ Going = {}
           /\ PassOK(pass')
           /\ Going' # {} => \E s \in Schedules, k \in Nat \ {0} : Going' \in OldestBeyond(s, k)
<1> USE DEF objects, history, Records, NoPass, PassOK
<1>1. pass # NoPass /\ pass.spec.keep \in Nat /\ pass.items \subseteq Schedules
  <2>1. Keep \subseteq Nat BY BoundsAssumption DEF BoundsAssumption
  <2>2. pass.pc = "clean" BY DEF PassCron
  <2>3. pass # NoPass BY <2>2
  <2>4. pass.spec \in Specs /\ pass.items \subseteq Schedules BY <2>3 DEF Lasting
  <2>5. QED BY <2>1, <2>3, <2>4 DEF Specs
<1>2. \A s \in Schedules, k \in Nat : \A O \in OldestBeyond(s, k) : O \in SUBSET Backups
  BY DEF OldestBeyond, SucceededOf
<1>3. CASE pass' = NoPass
  BY <1>3 DEF PassCron, Going
<1>4. CASE pass' # NoPass
  <2>1. PICK s \in pass.items :
          \/ pass' = [pass EXCEPT !.items = @ \ {s}]
          \/ \E O \in IF pass.spec.keep > 0 THEN OldestBeyond(s, pass.spec.keep) ELSE {{}} :
                pass' = [pass EXCEPT !.items = @ \ {s}, !.old = O]
    BY <1>4 DEF PassCron
  <2>2. PICK O \in SUBSET Backups :
          /\ pass' = [pass EXCEPT !.items = @ \ {s}, !.old = O]
          /\ O # {} => \E k \in Nat \ {0} : O \in OldestBeyond(s, k)
    <3>1. CASE pass' = [pass EXCEPT !.items = @ \ {s}]
      <4>1. pass' = [pass EXCEPT !.items = @ \ {s}, !.old = {}]
        BY <1>1, <3>1 DEF PassCron, Lasting
      <4>2. QED BY <4>1
    <3>2. CASE pass' # [pass EXCEPT !.items = @ \ {s}]
      <4>1. PICK O \in IF pass.spec.keep > 0 THEN OldestBeyond(s, pass.spec.keep) ELSE {{}} :
              pass' = [pass EXCEPT !.items = @ \ {s}, !.old = O]
        BY <2>1, <3>2
      <4>2. CASE pass.spec.keep > 0
        <5>1. O \in OldestBeyond(s, pass.spec.keep) /\ pass.spec.keep \in Nat \ {0}
          BY <1>1, <4>1, <4>2
        <5>2. O \in SUBSET Backups BY <1>1, <1>2, <5>1
        <5>3. QED BY <4>1, <5>1, <5>2
      <4>3. CASE ~(pass.spec.keep > 0)
        <5>1. O = {} BY <4>1, <4>3
        <5>2. QED BY <4>1, <5>1
      <4>4. QED BY <4>2, <4>3
    <3>3. QED BY <3>1, <3>2
  <2>3. Going' = O /\ Going = {} BY <1>1, <2>2 DEF PassCron, Lasting, Going
  <2>4. QED BY <1>1, <2>2, <2>3 DEF PassCron, Lasting
<1>5. QED BY <1>3, <1>4

\* Of the good backups of a schedule one that is newer than all that go stays.
LEMMA OneIsKept ==
    ASSUME Typed, Owned, Lasting, NEW s \in Schedules, NEW k \in Nat \ {0},
           NEW O \in OldestBeyond(s, k), O # {}
    PROVE  \E n \in SucceededOf(s) \ O : \A o \in O : made[n] >= made[o]
<1> DEFINE done == SucceededOf(s)
<1>1. IsFiniteSet(done)
  <2>1. done \subseteq {b \in Backups : made[b] # 0} BY DEF SucceededOf, Owned
  <2>2. QED BY <2>1, FS_Subset DEF Lasting
<1>2. /\ O \subseteq done
      /\ Cardinality(O) = IF Cardinality(done) <= k THEN 0 ELSE Cardinality(done) - k
      /\ \A o \in O, y \in done \ O : Older(o, y)
  BY DEF OldestBeyond
<1>3. IsFiniteSet(O) /\ Cardinality(O) \in Nat /\ Cardinality(O) # 0 /\ Cardinality(done) \in Nat
  BY <1>1, <1>2, FS_Subset, FS_EmptySet, FS_CardinalityType
<1>4. O # done BY <1>2, <1>3
<1>5. PICK n \in done \ O : TRUE BY <1>2, <1>4
<1>6. \A o \in O : made[o] \in Nat /\ made[n] \in Nat
  BY <1>2, <1>5 DEF Typed, ObjectsOK, SucceededOf
<1>7. QED BY <1>2, <1>5, <1>6 DEF Older

LEMMA LastingStep == Typed /\ Owned /\ Lasting /\ [Next]_vars => Lasting'
<1> SUFFICES ASSUME Typed, Owned, Lasting, [Next]_vars PROVE Lasting'
  OBVIOUS
<1> USE DEF objects, outside, history, mishaps
<1>1. CASE BeginPass \/ PassFails \/ PassCollector \/ PassSchedule
  BY <1>1, PassGoesOn DEF Lasting, Records, Exists
<1>2. CASE PassCron
  <2>1. \A b \in Going' : made[b] # 0
    BY <1>2, PassFinds DEF OldestBeyond, SucceededOf, Owned
  <2>2. QED BY <1>2, <2>1, PassFinds DEF Lasting, Records, Exists
<1>3. ASSUME UNCHANGED <<backup, made, retired, withdrawn, pass>>,
             worker'.pc = "idle" \/ (worker.pc # "idle" /\ worker'.on = worker.on)
      PROVE  Lasting'
  BY <1>3 DEF Lasting, Exists, Going, PassOK, NoPass
<1>4. CASE MakeVolume \/ MakeJob \/ ReadJob \/ WorkerFails
  <2>1. worker'.pc = "idle" \/ (worker.pc # "idle" /\ worker'.on = worker.on)
    <3>1. CASE MakeVolume \/ MakeJob BY <3>1 DEF MakeVolume, MakeJob, Typed
    <3>2. CASE ReadJob
      <4>1. worker' = Idle \/ \E st : worker' = [worker EXCEPT !.pc = "write", !.state = st]
        BY <3>2, Zenon DEF ReadJob
      <4>2. QED BY <3>2, <4>1 DEF ReadJob, Idle, Typed
    <3>3. CASE WorkerFails BY <3>3 DEF WorkerFails, Idle
    <3>4. QED BY <1>4, <3>1, <3>2, <3>3
  <2>2. QED BY <1>3, <1>4, <2>1 DEF MakeVolume, MakeJob, ReadJob, WorkerFails
<1>5. CASE \E n \in Names :
             JobStarts(n) \/ JobSucceeds(n) \/ JobPodFails(n) \/ CollectJob(n) \/ CollectVolume(n)
  BY <1>3, <1>5 DEF JobStarts, JobSucceeds, JobPodFails, CollectJob, CollectVolume
<1>6. CASE UserEdits \/ ClusterFails \/ ClusterServes \/ UNCHANGED vars
  BY <1>3, <1>6 DEF UserEdits, ClusterFails, ClusterServes, vars
<1>7. ASSUME NEW b \in Backups, Look(b) PROVE Lasting'
  BY <1>7 DEF Look, Skipped, Lasting, Exists, Going, PassOK, NoPass
<1>8. CASE WriteStatus
  <2>1. \A b \in Backups : Exists(b)' => Exists(b)
    BY <1>8 DEF WriteStatus, Exists, Typed, ObjectsOK
  <2>2. QED BY <1>8, <2>1 DEF WriteStatus, Lasting, Idle, Going, PassOK, NoPass
<1>9. ASSUME NEW b \in Backups, UserDeletes(b) PROVE Lasting'
  <2>1. \A x \in Backups : Exists(x)' => x # b /\ Exists(x) /\ backup'[x] = backup[x]
    BY <1>9, Deleted DEF Exists
  <2>2. ~Exists(b)' /\ made[b] # 0 BY <1>9, Deleted DEF UserDeletes, Owned
  <2>3. QED BY <1>9, <2>1, <2>2 DEF UserDeletes, Lasting, Typed, Going, PassOK, NoPass
<1>10. ASSUME NEW b \in Backups, pass.pc = "clean", PassRetire(b) PROVE Lasting'
  <2>1. \A x \in Backups : Exists(x)' => x # b /\ Exists(x) /\ backup'[x] = backup[x]
    BY <1>10, Deleted DEF Exists
  <2>2. retired' \subseteq retired \cup {b} /\ (b \in retired' => made[b] # 0)
    BY <1>10 DEF PassRetire, Owned, Lasting
  <2>3. PassOK(pass') /\ Going' \subseteq Going
    BY <1>10 DEF PassRetire, Lasting, NoPass, PassOK, Going
  <2>4. UNCHANGED <<made, worker, withdrawn>> BY <1>10 DEF PassRetire
  <2>5. ~Exists(b)' BY <1>10, Deleted
  <2>6. QED BY <2>1, <2>2, <2>3, <2>4, <2>5 DEF Lasting, Typed
<1>11. ASSUME NEW b \in Backups, NEW by \in Schedules \cup {"user"}, Create(b, by) PROVE Lasting'
  <2>1. /\ made[b] = 0 /\ UNCHANGED <<retired, withdrawn, worker, pass>>
        /\ \A x \in Backups \ {b} : made'[x] = made[x] /\ backup'[x] = backup[x]
    BY <1>11 DEF Create, Typed, ObjectsOK
  <2>2. \A x \in Backups : made[x] # 0 => x # b /\ (Exists(x)' <=> Exists(x))
    BY <2>1 DEF Exists
  <2>3. made'[b] # 0 BY <1>11 DEF Create, Typed, ObjectsOK
  <2>4. {x \in Backups : made'[x] # 0} = {x \in Backups : made[x] # 0} \cup {b}
    BY <2>1, <2>3
  <2>5. IsFiniteSet({x \in Backups : made'[x] # 0})
    BY <2>4, FS_AddElement DEF Lasting
  <2>6. worker.pc # "idle" => worker.on \in Backups /\ made[worker.on] # 0 BY DEF Typed, Owned
  <2>7. QED BY <2>1, <2>2, <2>5, <2>6 DEF Lasting, Going, PassOK, NoPass
<1>12. QED
  BY <1>1, <1>2, <1>4, <1>5, <1>6, <1>7, <1>8, <1>9, <1>10, <1>11
     DEF Next, WorkerStep, PassStep, UserCreates, CronFires, Fresh, Backups

LEMMA SparedStep == Typed /\ Owned /\ Lasting /\ Spared /\ [Next]_vars => Spared'
<1> SUFFICES ASSUME Typed, Owned, Lasting, Spared, [Next]_vars PROVE Spared'
  OBVIOUS
<1> USE DEF objects, outside, history, mishaps
\* A step after which no backup outlives less and no more are going.
<1>1. ASSUME retired' \cup Going' \subseteq retired \cup Going,
             \A b \in retired \cup Going, n \in Backups \ (retired \cup Going) :
               made[b] # 0 /\ Outlives(n, b) => Outlives(n, b)'
      PROVE  Spared'
  <2>1. \A b \in retired \cup Going : b \in Backups
    BY DEF Lasting, Going, PassOK, NoPass
  <2>2. \A b \in retired \cup Going : made[b] # 0 BY DEF Lasting
  <2>3. QED BY <1>1, <2>1, <2>2 DEF Spared
<1>2. ASSUME UNCHANGED Records, Going' \subseteq Going PROVE Spared'
  BY <1>1, <1>2 DEF Records, Outlives, Exists
<1>3. CASE BeginPass \/ PassFails \/ PassCollector \/ PassSchedule
  BY <1>2, <1>3, PassGoesOn
<1>4. ASSUME UNCHANGED <<Records, pass>> PROVE Spared'
  BY <1>2, <1>4 DEF Going
<1>5. CASE MakeVolume \/ MakeJob \/ ReadJob \/ WorkerFails \/ \E b \in Backups : Look(b)
  BY <1>4, <1>5 DEF MakeVolume, MakeJob, ReadJob, WorkerFails, Look, Records
<1>6. CASE \E n \in Names :
             JobStarts(n) \/ JobSucceeds(n) \/ JobPodFails(n) \/ CollectJob(n) \/ CollectVolume(n)
  BY <1>4, <1>6 DEF JobStarts, JobSucceeds, JobPodFails, CollectJob, CollectVolume, Records
<1>7. CASE UserEdits \/ ClusterFails \/ ClusterServes \/ UNCHANGED vars
  BY <1>4, <1>7 DEF UserEdits, ClusterFails, ClusterServes, vars, Records
<1>8. CASE WriteStatus
  <2>1. \A n \in Backups : Exists(n) /\ backup[n].state = "Succeeded" => backup'[n] = backup[n]
    BY <1>8 DEF WriteStatus, Lasting, Typed, ObjectsOK, Exists, Finished
  <2>2. UNCHANGED <<made, from, retired, withdrawn, pass>> BY <1>8 DEF WriteStatus
  <2>3. QED BY <1>1, <2>1, <2>2 DEF Outlives, Exists, Going
<1>9. ASSUME NEW b \in Backups, UserDeletes(b) PROVE Spared'
  <2>1. \A n \in Backups : n = b \/ backup'[n] = backup[n] BY <1>9, Deleted
  <2>2. UNCHANGED <<made, from, retired, pass>> /\ withdrawn' = withdrawn \cup {b}
    BY <1>9 DEF UserDeletes
  <2>3. QED BY <1>1, <2>1, <2>2 DEF Outlives, Exists, Going
<1>10. ASSUME NEW b \in Backups, pass.pc = "clean", PassRetire(b) PROVE Spared'
  <2>1. \A n \in Backups : n = b \/ backup'[n] = backup[n] BY <1>10, Deleted
  <2>2. UNCHANGED <<made, from, withdrawn>> /\ retired' \subseteq retired \cup {b}
    BY <1>10 DEF PassRetire
  <2>3. b \in Going /\ Going' \subseteq Going
    BY <1>10 DEF PassRetire, Going, Lasting, PassOK, NoPass
  <2>4. QED BY <1>1, <2>1, <2>2, <2>3 DEF Outlives, Exists
<1>11. ASSUME NEW b \in Backups, NEW by \in Schedules \cup {"user"}, Create(b, by) PROVE Spared'
  <2>1. /\ made[b] = 0 /\ UNCHANGED <<retired, withdrawn, pass>>
        /\ \A x \in Backups \ {b} :
             made'[x] = made[x] /\ backup'[x] = backup[x] /\ from'[x] = from[x]
    BY <1>11 DEF Create, Typed, ObjectsOK
  <2>2. \A x \in retired \cup Going : made[x] # 0 BY DEF Lasting
  <2>3. \A n \in Backups : n \in withdrawn \/ Exists(n) => made[n] # 0 BY DEF Lasting, Owned
  <2>4. QED
    <3>1. \A x, n \in Backups : made[x] # 0 /\ Outlives(n, x) => Outlives(n, x)'
      BY <2>1, <2>3 DEF Outlives, Exists
    <3>2. Going' = Going BY <2>1 DEF Going
    <3>3. \A x \in retired \cup Going : x \in Backups BY DEF Lasting, Going, PassOK, NoPass
    <3>4. QED BY <1>1, <2>1, <3>1, <3>2, <3>3
<1>12. CASE PassCron
  <2>1. UNCHANGED Records /\ Going = {} BY <1>12, PassFinds
  <2>2. CASE Going' = {} BY <1>2, <2>1, <2>2
  <2>3. CASE Going' # {}
    <3>1. PICK s \in Schedules, k \in Nat \ {0} : Going' \in OldestBeyond(s, k)
      BY <1>12, <2>3, PassFinds
    <3>2. PICK n \in SucceededOf(s) \ Going' : \A o \in Going' : made[n] >= made[o]
      BY <2>3, <3>1, OneIsKept
    <3>3. n \in Backups \ (retired \cup Going') BY <3>2 DEF SucceededOf, Lasting
    <3>4. \A o \in Going' : from[o] = s /\ Outlives(n, o)
      BY <3>1, <3>2 DEF OldestBeyond, SucceededOf, Outlives
    <3>5. ASSUME NEW b \in retired, NEW m \in Going', Outlives(m, b) PROVE Outlives(n, b)
      <4>1. made[n] \in Nat /\ made[m] \in Nat /\ made[b] \in Nat
        BY <3>1, <3>2, <3>3 DEF OldestBeyond, SucceededOf, Typed, ObjectsOK, Lasting
      <4>2. QED BY <3>4, <3>5, <4>1 DEF Outlives
    <3>6. \A b \in retired : \E m \in Backups \ retired : Outlives(m, b) BY DEF Spared
    <3>7. \A b \in retired \cup Going' : \E m \in Backups \ (retired \cup Going') : Outlives(m, b)
      BY <3>3, <3>4, <3>5, <3>6
    <3>8. \A m, b : Outlives(m, b)' = Outlives(m, b) BY <2>1 DEF Records, Outlives, Exists
    <3>9. retired' = retired BY <2>1 DEF Records
    <3>10. QED BY <3>7, <3>8, <3>9 DEF Spared
  <2>4. QED BY <2>2, <2>3
<1>13. QED
  BY <1>3, <1>5, <1>6, <1>7, <1>8, <1>9, <1>10, <1>11, <1>12
     DEF Next, WorkerStep, PassStep, UserCreates, CronFires, Fresh, Backups

\* Retention never takes the newest good backup of a schedule, for any numbers
\* to keep, also while the user changes them, deletes backups and edits the
\* schedule in the middle of a pass (oldScheduledBackups, reconcileBackups).
THEOREM NewestSpared == Spec => []RetentionSparesNewest
<1> DEFINE IInv == Typed /\ Owned /\ Lasting /\ Spared
<1>1. Init => IInv
  <2>1. Init => Spared BY DEF Init, Spared, Going, NoPass
  <2>2. Init => Lasting
    <3>1. Init => {b \in Backups : made[b] # 0} = {} BY DEF Init
    <3>2. Init => IsFiniteSet({b \in Backups : made[b] # 0}) BY <3>1, FS_EmptySet
    <3>3. Init => Going = {} /\ PassOK(pass) BY DEF Init, Going, NoPass, PassOK
    <3>4. Init => retired = {} /\ withdrawn = {} /\ worker = Idle BY DEF Init
    <3>5. QED BY <3>2, <3>3, <3>4 DEF Lasting, Idle
  <2>3. QED BY <2>1, <2>2, TypedInit, OwnedInit
<1>2. IInv /\ [Next]_vars => IInv' BY TypedStep, OwnedStep, LastingStep, SparedStep
<1>3. IInv => RetentionSparesNewest
  <2>1. SUFFICES ASSUME Spared, NEW b \in retired
        PROVE  \E n \in Backups \ retired : Outlives(n, b)
    BY DEF RetentionSparesNewest, Outlives
  <2>2. QED BY <2>1 DEF Spared
<1>4. QED BY <1>1, <1>2, <1>3, PTL DEF Spec
=============================================================================
