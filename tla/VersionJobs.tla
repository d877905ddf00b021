---------------------------- MODULE VersionJobs ----------------------------
(***************************************************************************)
(* The choice of images by the version service (pkg/controller/pxc/        *)
(* version.go, vs.go): passes of the cluster controller and a job of the   *)
(* operator's own scheduler read and write the same object under one       *)
(* mutex, and tell each other apart by a flag.                             *)
(*                                                                         *)
(* A version stands for its image.  How pods are replaced is SmartUpdate's *)
(* matter: here they follow the template one at a time.                    *)
(***************************************************************************)
EXTENDS Naturals

CONSTANTS
    Pods, Versions,
    Default,             \* the image the object is created with
    Schedules,           \* values of spec.upgradeOptions.schedule
    MaxEdits, MaxMishaps

ASSUME DefaultAssumption == Default \in Versions
ASSUME SchedulesAssumption == "never" \notin Schedules /\ Schedules # {}
ASSUME BoundsAssumption == MaxEdits \in Nat /\ MaxMishaps \in Nat

VARIABLES
    object,      \* the cluster object: its specification and its status
    set,         \* the StatefulSet: its template, and whether its status counts with it
    pods,        \* what each runs, if it runs
    recommended, \* what the version service answers
    job,         \* the schedule of the job that is registered
    updateSync,  \* what keeps two jobs apart
    holder,      \* who holds the cluster's mutex, and how far it is
    history,     \* see JobsApart, ImagesChangeAtRest and VersionFollows
    edits, mishaps

kubernetes == <<set, pods>>
vars == <<object, kubernetes, recommended, job, updateSync, holder, history, edits, mishaps>>

None == "none"
Nobody == [who |-> None]
Image == Versions \cup {None}

Statuses == [ready: BOOLEAN, pxcReady: BOOLEAN, observed: BOOLEAN, version: Image, image: Image]
Objects  == [exists: BOOLEAN, image: Versions, schedule: Schedules \cup {"never"}, status: Statuses]
Asking   == {"ask", "store", "report"}
Passes   == [who: {"pass"}, pc: Asking \cup {"deploy", "fetch", "schedule", "end"},
             read: Objects, cr: Objects, err: BOOLEAN]
Jobs     == [who: {"job"}, pc: Asking, read: Objects, cr: Objects]

TypeOK ==
    /\ object \in Objects
    /\ set \in [template: Image, seen: BOOLEAN] /\ pods \in [Pods -> Image]
    /\ recommended \in Versions
    /\ job \in Schedules \cup {None} /\ updateSync \in {"done", "wait"}
    /\ holder = Nobody \/ holder \in Passes \/ (holder \in Jobs /\ updateSync = "wait")
    /\ history \in [passed: BOOLEAN, blind: BOOLEAN, early: BOOLEAN]
    /\ edits \in 0 .. MaxEdits /\ mishaps \in 0 .. MaxMishaps

Init ==
    /\ object = [exists |-> TRUE, image |-> Default, schedule |-> CHOOSE s \in Schedules : TRUE,
                 status |-> [ready |-> FALSE, pxcReady |-> FALSE, observed |-> FALSE, version |-> None, image |-> None]]
    /\ set = [template |-> None, seen |-> TRUE] /\ pods = [p \in Pods |-> None]
    /\ recommended \in Versions
    /\ job = None /\ updateSync = "done" /\ holder = Nobody
    /\ history = [passed |-> TRUE, blind |-> FALSE, early |-> FALSE]
    /\ edits = 0 /\ mishaps = 0

Mishap == mishaps < MaxMishaps /\ mishaps' = mishaps + 1
EditOne == edits < MaxEdits /\ edits' = edits + 1
-----------------------------------------------------------------------------
(* The user, the version service and Kubernetes.                            *)

Edit ==
    /\ object.exists /\ EditOne
    /\ \/ \E v \in Versions \ {object.image} :
            object' = [object EXCEPT !.image = v, !.status.observed = FALSE]
       \/ \E s \in (Schedules \cup {"never"}) \ {object.schedule} :
            object' = [object EXCEPT !.schedule = s, !.status.observed = FALSE]
       \/ object' = [object EXCEPT !.exists = FALSE]
    /\ UNCHANGED <<kubernetes, recommended, job, updateSync, holder, history, mishaps>>

Release ==
    /\ EditOne
    /\ \E v \in Versions \ {recommended} : recommended' = v
    /\ UNCHANGED <<object, kubernetes, job, updateSync, holder, history, mishaps>>

Kubernetes ==
    /\ \/ ~set.seen /\ set' = [set EXCEPT !.seen = TRUE] /\ UNCHANGED pods
       \/ \E p \in Pods :
            /\ \/ set.seen /\ pods[p] # set.template /\ None \notin {pods[q] : q \in Pods} /\ pods' = [pods EXCEPT ![p] = None]
               \/ pods[p] = None /\ set.template # None /\ pods' = [pods EXCEPT ![p] = set.template]
            /\ UNCHANGED set
    /\ UNCHANGED <<object, recommended, job, updateSync, holder, history, edits, mishaps>>

\* The StatefulSet's status, which may not count with its template yet.
UpgradeInProgress == set.seen /\ \E p \in Pods : pods[p] \notin {None, set.template}
-----------------------------------------------------------------------------
(* Asking the version service: in a pass, and in a job.                     *)

Holds(who, pc) == holder # Nobody /\ holder.who = who /\ holder.pc = pc
Asks(pc) == holder # Nobody /\ holder.pc = pc
At(pc) == [holder EXCEPT !.pc = pc]
Wanted(cr) == cr.schedule # "never"

\* Slip: the two callers are not told apart.
Return_Alike(h) == [h EXCEPT !.pc = "deploy"]

\* A pass goes on with the copy it has; a job is over.
Return(h) == IF h.who = "pass" THEN [h EXCEPT !.pc = "deploy"] ELSE Nobody

Ask ==
    /\ Asks("ask")
    /\ holder' = IF ~Wanted(holder.cr) \/ (~holder.cr.status.ready /\ holder.cr.status.version # None) THEN Return(holder)
                 ELSE [At("store") EXCEPT !.cr.image = recommended]
    /\ UNCHANGED <<object, kubernetes, recommended, job, updateSync, history, edits, mishaps>>

Stored(cr) == [object EXCEPT !.image = cr.image, !.status.observed = @ /\ cr.image = object.image]

\* The update is refused if the object has changed since it was read.
StoreImages ==
    /\ Asks("store")
    /\ IF object = holder.read
       THEN /\ object' = Stored(holder.cr)
            /\ holder' = At("report")
            /\ history' = [history EXCEPT !.passed = @ /\ holder.who = "pass"]
       ELSE holder' = Return(holder) /\ UNCHANGED <<object, history>>
    /\ UNCHANGED <<kubernetes, recommended, job, updateSync, edits, mishaps>>

Reported(o) == [o EXCEPT !.status.version = holder.cr.image, !.status.image = holder.cr.image]

\* The object is read again before the versions are stored.
StoreVersions ==
    /\ Asks("report")
    /\ object' = IF object.exists THEN Reported(object) ELSE object
    /\ holder' = Return(IF object.exists THEN [holder EXCEPT !.read = object', !.cr = object'] ELSE holder)
    /\ UNCHANGED <<kubernetes, recommended, job, updateSync, history, edits, mishaps>>

\* A call fails, or the cache returns the object as it was before StoreImages
\* and the status is refused.  A pass keeps the versions in its copy.
AskFails ==
    /\ Mishap
    /\ \/ (Asks("ask") \/ Asks("store")) /\ holder' = Return(holder)
       \/ Asks("report") /\ \E o \in {object, holder.read} :
            holder' = Return([holder EXCEPT !.read = o, !.cr = Reported(o)])
    /\ UNCHANGED <<object, kubernetes, recommended, job, updateSync, history, edits>>
-----------------------------------------------------------------------------
(* A pass.                                                                  *)

Begin ==
    /\ holder = Nobody
    /\ IF object.exists
       THEN /\ holder' = [who |-> "pass", pc |-> IF object.status.version = None THEN "ask" ELSE "deploy",
                          read |-> object, cr |-> object, err |-> FALSE]
            /\ UNCHANGED <<updateSync, history>>
       ELSE /\ updateSync' = "done" /\ history' = [history EXCEPT !.passed = TRUE]
            /\ UNCHANGED holder
    /\ UNCHANGED <<object, kubernetes, recommended, job, edits, mishaps>>

Deploy ==
    /\ Holds("pass", "deploy")
    /\ set' = [template |-> holder.cr.image, seen |-> set.seen /\ set.template = holder.cr.image]
    /\ holder' = At("fetch")
    /\ UNCHANGED <<object, pods, recommended, job, updateSync, history, edits, mishaps>>

\* Slip: only when no version is known.
Fetches_Unknown == LET s == holder.cr.status IN
    s.pxcReady /\ s.observed /\ s.version = None /\ ~UpgradeInProgress

Fetches == LET s == holder.cr.status IN
    s.pxcReady /\ s.observed /\ s.image # holder.cr.image /\ ~UpgradeInProgress

\* The version is asked of the first pod that answers; if none does, or the
\* status is refused, the pass ends.
FetchVersion ==
    /\ Holds("pass", "fetch")
    /\ IF ~Fetches THEN holder' = At("schedule") /\ UNCHANGED <<object, history>>
       ELSE IF object # holder.read \/ \A p \in Pods : pods[p] = None
       THEN holder' = At("end") /\ UNCHANGED <<object, history>>
       ELSE \E p \in {q \in Pods : pods[q] # None} :
              /\ object' = [object EXCEPT !.status.version = pods[p], !.status.image = holder.cr.image]
              /\ holder' = [At("schedule") EXCEPT !.read = object', !.cr.status = object'.status]
              /\ history' = [history EXCEPT !.early = @ \/ ~set.seen]
    /\ UNCHANGED <<kubernetes, recommended, job, updateSync, edits, mishaps>>

\* Slip: a job that is there is left alone.
Schedule_Kept ==
    /\ Holds("pass", "schedule")
    /\ job' = IF ~Wanted(holder.cr) THEN None ELSE IF job = None THEN holder.cr.schedule ELSE job
    /\ holder' = At("end")
    /\ UNCHANGED <<object, kubernetes, recommended, updateSync, history, edits, mishaps>>

\* sheduleEnsurePXCVersion
Schedule ==
    /\ Holds("pass", "schedule")
    /\ job' = IF Wanted(holder.cr) THEN holder.cr.schedule ELSE None
    /\ holder' = At("end")
    /\ UNCHANGED <<object, kubernetes, recommended, updateSync, history, edits, mishaps>>

PassFails ==
    /\ Holds("pass", "deploy") \/ Holds("pass", "fetch") \/ Holds("pass", "schedule")
    /\ Mishap
    /\ holder' = [At("end") EXCEPT !.err = TRUE]
    /\ UNCHANGED <<object, kubernetes, recommended, job, updateSync, history, edits>>

PodsReady == \A p \in Pods : pods[p] # None
\* Slip: ready pods are enough.
StatusOf_PodsOnly(cr) ==
    IF holder.err THEN [cr.status EXCEPT !.ready = FALSE]
    ELSE [cr.status EXCEPT !.ready = PodsReady, !.pxcReady = PodsReady, !.observed = TRUE]

StatusOf(cr) ==
    IF holder.err THEN [cr.status EXCEPT !.ready = FALSE]
    ELSE [cr.status EXCEPT !.ready = PodsReady /\ ~UpgradeInProgress, !.pxcReady = PodsReady, !.observed = TRUE]

\* The deferred calls: the status, the flag, the mutex.
End(written) ==
    /\ Holds("pass", "end")
    /\ object' = IF written THEN [object EXCEPT !.status = StatusOf(holder.cr)] ELSE object
    /\ updateSync' = "done" /\ holder' = Nobody
    /\ history' = [history EXCEPT !.passed = TRUE, !.blind = ~written \/ ~set.seen]
    /\ UNCHANGED <<kubernetes, recommended, job, edits>>

EndPass == End(object = holder.read) /\ UNCHANGED mishaps
StatusLost == Mishap /\ End(FALSE)
-----------------------------------------------------------------------------
(* The job.                                                                 *)

\* Slip: the flag is set without being looked at.
JobFires_NoFlag ==
    /\ job # None /\ holder = Nobody
    /\ updateSync' = "wait"
    /\ job' = IF object.exists THEN job ELSE None
    /\ holder' = IF object.exists /\ object.status.ready
                 THEN [who |-> "job", pc |-> "ask", read |-> object, cr |-> object] ELSE Nobody
    /\ UNCHANGED <<object, kubernetes, recommended, history, edits, mishaps>>

JobFires ==
    /\ job # None /\ holder = Nobody
    /\ updateSync = "done" /\ updateSync' = "wait"
    /\ job' = IF object.exists THEN job ELSE None
    /\ holder' = IF object.exists /\ object.status.ready
                 THEN [who |-> "job", pc |-> "ask", read |-> object, cr |-> object] ELSE Nobody
    /\ UNCHANGED <<object, kubernetes, recommended, history, edits, mishaps>>

\* The operator is killed and started again: no job, no flag, no mutex.
Dies ==
    /\ Mishap
    /\ job' = None /\ updateSync' = "done" /\ holder' = Nobody
    /\ UNCHANGED <<object, kubernetes, recommended, history, edits>>

Operator ==
    \/ Ask \/ StoreImages \/ StoreVersions
    \/ Begin \/ Deploy \/ FetchVersion \/ Schedule \/ EndPass

Next ==
    \/ Operator \/ JobFires
    \/ AskFails \/ PassFails \/ StatusLost \/ Dies
    \/ Edit \/ Release \/ Kubernetes

Spec == Init /\ [][Next]_vars

\* Passes come every five seconds, jobs by their schedule.
Fairness == WF_vars(Operator) /\ WF_vars(JobFires) /\ WF_vars(Kubernetes)

FairSpec == Spec /\ Fairness
-----------------------------------------------------------------------------
JobStores == holder # Nobody /\ holder.who = "job" /\ holder.pc = "store" /\ object' # object

\* Between two jobs that change the object there is a pass (the comment and the
\* deferred store at Reconcile's head; sheduleEnsurePXCVersion's flag).
JobsApart == [][JobStores /\ holder' # Nobody => history.passed]_vars

\* A job does not change the image while pods are on their way to another one,
\* unless the last pass could not store its status or the StatefulSet's own was
\* behind (the ready status as the job's guard).
ImagesChangeAtRest ==
    [][ (holder # Nobody /\ holder.who = "job" /\ object'.image # object.image)
        => history.blind \/ ~UpgradeInProgress ]_vars

\* The version the object reports comes to be the one it asks for and the pods
\* run, unless it was fetched before the StatefulSet's status counted with the
\* new template (ensurePXCVersion, fetchVersionFromPXC).
VersionFollows ==
    <>[](~object.exists \/ history.early \/
         \A p \in Pods : pods[p] = object.image /\ object.status.version = object.image)

\* The registered job follows the object, through restarts and deletion
\* (sheduleEnsurePXCVersion, deleteEnsureVersion).
JobFollows == <>[](job = IF object.exists /\ Wanted(object) THEN object.schedule ELSE None)
=============================================================================
