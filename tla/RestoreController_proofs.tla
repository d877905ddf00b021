----------------------- MODULE RestoreController_proofs -----------------------
(****************************************************************************)
(* What holds of the restore controller for any set of restores, any size   *)
(* of the cluster and any number of failures: one restore at a time, and    *)
(* nobody uses the volume that it rewrites.                                 *)
(****************************************************************************)
EXTENDS RestoreController, TLAPS, FiniteSetTheorems

\* The default size of any spec the operator stores is a number of pods the
\* cluster may have; defaulting the configured size changes nothing twice.
LEMMA DefaultedSizeType ==
    /\ MaxPods \in Nat /\ Size \in 0 .. MaxPods
    /\ \A s \in Specs : DefaultedSize(s) \in 0 .. MaxPods
<1>1. MaxPods \in Nat /\ Size \in 0 .. MaxPods /\ (~AllowUnsafe => MaxPods >= 3 /\ MaxPods % 2 = 1)
  BY SizeAssumption DEF SizeAssumption, MaxPods, DefaultedSize
<1>2. ASSUME NEW s \in Specs PROVE DefaultedSize(s) \in 0 .. MaxPods
  <2>1. s.size \in 0 .. MaxPods /\ s.pause \in BOOLEAN BY <1>2 DEF Specs
  <2>2. QED BY <1>1, <2>1, SizeAssumption DEF SizeAssumption, DefaultedSize
<1>3. QED BY <1>1, <1>2

\* The states the controller and the user write are states; a state that is
\* not written stays opaque to the proofs.
LEMMA StatesType ==
    {Absent, Gone, New, Starting, StopCluster, Restoring, StartCluster, PITR,
     Failed, Succeeded} \subseteq States
BY DEF States, Busy, Final

\* The Boolean variables, whose updates are another prover's work.
Flags == fresh \in BOOLEAN /\ observed \in BOOLEAN /\ pxcReady \in BOOLEAN /\ rfresh \in BOOLEAN

\* A step keeps the type invariant.
LEMMA TypeStep == TypeOK /\ [Next]_vars => TypeOK'
<1> USE DEF worker, cluster, reconciler, kubernetes, jobs, mishaps
<1> SUFFICES ASSUME TypeOK, [Next]_vars PROVE TypeOK'
  OBVIOUS
<1>0. /\ MaxErrors \in Nat /\ MaxTimeouts \in Nat /\ MaxCrashes \in Nat
      /\ MaxDeletes \in Nat /\ UpdateTries \in Nat \ {0}
  BY BoundsAssumption DEF BoundsAssumption
<1>1. ASSUME NEW r \in Restores, Pick(r) PROVE TypeOK'
  BY <1>0, <1>1, StatesType DEF TypeOK, Pick, Goto, ApiFails, Steps
<1>2. CASE ListRestores
  BY <1>0, <1>2 DEF TypeOK, ListRestores, Goto, ApiFails, Steps
<1>3. CASE Prepare
  <2>1. Flags' BY <1>3, Zenon DEF TypeOK, Prepare, Flags
  <2>2. copy' \in Specs BY <1>3, DefaultedSizeType DEF TypeOK, Prepare, Specs
  <2>3. QED BY <1>0, <1>3, <2>1, <2>2 DEF TypeOK, Prepare, Flags, Goto, ApiFails, Steps
<1>4. CASE ReportPhase
  BY <1>0, <1>4, StatesType
     DEF TypeOK, ReportPhase, Report, SetStatus, StatusLost, Goto, ApiFails, Steps
<1>5. CASE Pause
  <2>1. Flags' BY <1>5, Zenon DEF TypeOK, Pause, WriteSpec, Fails, Flags
  <2>2. spec' \in Specs BY <1>5 DEF TypeOK, Pause, WriteSpec, Fails, Specs
  <2>3. QED
    BY <1>0, <1>5, <2>1, <2>2 DEF TypeOK, Pause, WriteSpec, Fails, Flags, Goto, ApiFails, Steps
<1>6. CASE AwaitPodsDown \/ AwaitVolumesDown \/ AwaitReady
  BY <1>0, <1>6 DEF TypeOK, AwaitPodsDown, AwaitVolumesDown, AwaitReady, WaitFor,
                    WaitLimit, Fails, Goto, ApiFails, Steps
<1>7. CASE DropVolumes
  BY <1>0, <1>7 DEF TypeOK, DropVolumes, Present, Goto, ApiFails, Steps
<1>8. CASE Launch
  BY <1>0, <1>8 DEF TypeOK, Launch, Goto, ApiFails, Steps
<1>9. CASE AwaitSource \/ AwaitRestoreJob
  BY <1>0, <1>9 DEF TypeOK, AwaitSource, AwaitRestoreJob, DeleteSource, Goto, ApiFails, Steps
<1>10. CASE GetCluster
  <2>1. Flags' BY <1>10, Zenon DEF TypeOK, GetCluster, Flags
  <2>2. QED BY <1>0, <1>10, <2>1 DEF TypeOK, GetCluster, Flags, Goto, ApiFails, Steps
<1>11. CASE Unpause
  <2>1. Flags' BY <1>11, Zenon DEF TypeOK, Unpause, WriteSpec, Flags
  <2>2. QED
    BY <1>0, <1>11, <2>1 DEF TypeOK, Unpause, WriteSpec, Flags, Goto, ApiFails, Steps
<1>12. CASE LaunchPITR \/ AwaitPITRJob
  BY <1>0, <1>12 DEF TypeOK, LaunchPITR, AwaitPITRJob, Goto, ApiFails, Steps
<1>13. CASE Finish
  BY <1>0, <1>13, StatesType DEF TypeOK, Finish, SetStatus, StatusLost, Goto, ApiFails, Steps
<1>14. CASE Reconciler
  <2>1. CASE ReadCluster
    <3>1. Flags' BY <2>1, Zenon DEF TypeOK, ReadCluster, Flags
    <3>2. QED BY <2>1, <3>1, DefaultedSizeType DEF TypeOK, ReadCluster, Flags
  <2>2. CASE ScalePXC
    BY <1>0, <2>2, DefaultedSizeType DEF TypeOK, ScalePXC, ApiFails
  <2>3. CASE WriteStatus
    <3>1. Flags' BY <2>3, Zenon DEF TypeOK, WriteStatus, Flags
    <3>2. QED BY <2>3, <3>1 DEF TypeOK, WriteStatus, Flags
  <2>4. QED BY <1>14, <2>1, <2>2, <2>3 DEF Reconciler
<1>15. CASE Kube(StartPod) \/ Kube(PodReady) \/ Kube(StopPod)
  <2>1. CASE Kube(StartPod)
    <3>1. MaxPods \in Nat /\ Ordinals = 0 .. MaxPods - 1
      BY DefaultedSizeType DEF Ordinals
    <3>2. pods \in Ordinals /\ 0 \in Ordinals
      BY <2>1, <3>1 DEF TypeOK, Kube, StartPod
    <3>3. vol' \in [Ordinals -> {"none", "old", "torn"} \cup Restores]
      BY <2>1, <3>2 DEF TypeOK, Kube, StartPod
    <3>4. QED BY <2>1, <3>1, <3>3 DEF TypeOK, Kube, StartPod
  <2>2. CASE Kube(PodReady)
    BY <2>2, DefaultedSizeType DEF TypeOK, Kube, PodReady
  <2>3. CASE Kube(StopPod)
    BY <2>3, DefaultedSizeType DEF TypeOK, Kube, StopPod
  <2>4. QED BY <1>15, <2>1, <2>2, <2>3
<1>16. ASSUME NEW k \in Ordinals, Kube(RemoveVolume(k)) PROVE TypeOK'
  BY <1>16 DEF TypeOK, Kube, RemoveVolume
<1>17. ASSUME NEW r \in Restores,
              Kube(SourceRuns(r)) \/ Kube(RestoreJobEnds(r)) \/ Kube(PITRJobEnds(r))
                \/ Kube(CollectGarbage(r))
       PROVE TypeOK'
  BY <1>17 DEF TypeOK, Kube, SourceRuns, RestoreJobEnds, PITRJobEnds, CollectGarbage, Writing
<1>18. ASSUME NEW r \in Restores, Create(r) \/ Delete(r) PROVE TypeOK'
  BY <1>0, <1>18, StatesType DEF TypeOK, Create, Delete
<1>19. CASE Crash
  BY <1>0, <1>19 DEF TypeOK, Crash, Goto, Steps
<1>20. CASE UNCHANGED vars
  BY <1>20 DEF TypeOK, vars
<1>21. QED
  BY <1>1, <1>2, <1>3, <1>4, <1>5, <1>6, <1>7, <1>8, <1>9, <1>10, <1>11, <1>12, <1>13,
     <1>14, <1>15, <1>16, <1>17, <1>18, <1>19, <1>20 DEF Next, Worker, Kubernetes

\* The initial states have the type invariant.
LEMMA TypeInit == Init => TypeOK
<1> SUFFICES ASSUME Init PROVE TypeOK
  OBVIOUS
<1>1. Flags /\ spec \in Specs /\ copy \in Specs
  BY DefaultedSizeType DEF Init, Flags, Specs
<1>2. /\ tries \in 0 .. UpdateTries - 1
      /\ crashes \in 0 .. MaxCrashes /\ deletes \in 0 .. MaxDeletes
      /\ errors \in 0 .. MaxErrors /\ timeouts \in 0 .. MaxTimeouts
  BY BoundsAssumption DEF Init, BoundsAssumption
<1>3. QED
  BY <1>1, <1>2, DefaultedSizeType, StatesType DEF Init, TypeOK, Flags, Steps

\* The type invariant, which TLC checks on two restores.
THEOREM TypeCorrect == Spec => []TypeOK
BY TypeInit, TypeStep, PTL DEF Spec

-----------------------------------------------------------------------------
(* Mutual exclusion of the restores.                                        *)

\* Steps of the worker after the concurrency check, up to the final status.
PastCheck == Steps \ {"idle", "list"}

\* Why one restore acts at a time: whoever passed the check saw every other
\* restore ended, gone or not yet asked for, and since there is one worker no
\* other has been taken up since.  After a crash nobody is past the check, but
\* the restore left behind keeps failing the check for all others.
Inv ==
    /\ TypeOK
    /\ OneRestoreAtATime
    /\ pc # "idle" => cur \in Restores
    /\ pc \in PastCheck \ {"fail"} =>
         \A q \in Restores \ {cur} : state[q] \notin Busy

\* Most steps leave every restore's state alone and stay on the same side of
\* the check.
Proceeds ==
    /\ state' = state /\ cur' = cur
    /\ pc' = pc \/ (pc \in PastCheck \ {"fail"} /\ pc' \in PastCheck)

LEMMA MostStepsProceed ==
    ASSUME Next,
           ~ \E r \in Restores : Pick(r) \/ Create(r) \/ Delete(r),
           ~ListRestores, ~ReportPhase, ~Finish, ~Crash
    PROVE  Proceeds
<1> USE DEF Proceeds, PastCheck, Steps, worker, Goto
<1>1. CASE Prepare \/ Pause \/ AwaitPodsDown \/ AwaitVolumesDown \/ AwaitReady
  BY <1>1 DEF Prepare, Pause, AwaitPodsDown, AwaitVolumesDown, AwaitReady, WaitFor, Fails
<1>2. CASE DropVolumes \/ Launch \/ AwaitSource \/ AwaitRestoreJob
  BY <1>2 DEF DropVolumes, Launch, AwaitSource, AwaitRestoreJob
<1>3. CASE GetCluster \/ Unpause \/ LaunchPITR \/ AwaitPITRJob
  BY <1>3 DEF GetCluster, Unpause, LaunchPITR, AwaitPITRJob
<1>4. CASE Reconciler
  BY <1>4 DEF Reconciler, ReadCluster, ScalePXC, WriteStatus
<1>5. CASE Kubernetes
  BY <1>5 DEF Kubernetes, Kube
<1>6. QED
  BY <1>1, <1>2, <1>3, <1>4, <1>5 DEF Next, Worker

\* The strengthened invariant is inductive.
LEMMA InvStep == Inv /\ [Next]_vars => Inv'
<1> SUFFICES ASSUME Inv, [Next]_vars PROVE Inv'
  OBVIOUS
<1> USE DEF Inv, OneRestoreAtATime
<1>1. TypeOK' /\ state \in [Restores -> States] /\ NoRestore \notin Restores
  BY TypeStep, RestoresAssumption DEF TypeOK, RestoresAssumption
<1>2. Acting \subseteq Busy /\ {New, Absent, Gone, Failed, Succeeded} \cap Busy = {}
  BY DEF Acting, Busy, New, Absent, Gone, Failed, Succeeded, Starting, StopCluster,
         Restoring, StartCluster, PITR
<1>3. Starting \notin Acting
  BY DEF Acting, Starting, StopCluster, Restoring, StartCluster, PITR
<1>4. ASSUME NEW r \in Restores, Pick(r) PROVE Inv'
  BY <1>1, <1>3, <1>4 DEF Pick, Goto, PastCheck
<1>5. CASE ListRestores
  BY <1>1, <1>5 DEF ListRestores, Concurrent, Goto, PastCheck
<1>6. CASE ReportPhase
  <2>1. PICK from, s, to :
          /\ Report(from, s, to) /\ s \in Acting
          /\ from \in PastCheck \ {"fail"} /\ to \in PastCheck \ {"fail"}
    BY <1>6 DEF ReportPhase, Acting, PastCheck, Steps
  <2>2. cur' = cur /\ cur \in Restores /\ pc \in PastCheck \ {"fail"} /\ pc' \in PastCheck
    BY <2>1 DEF Report, Goto, PastCheck, Steps
  <2>3. \A q \in Restores \ {cur} : state'[q] = state[q] /\ state[q] \notin Busy
    BY <1>1, <2>1, <2>2 DEF Report, SetStatus, StatusLost
  <2>4. QED
    BY <1>1, <1>2, <2>2, <2>3
<1>7. CASE Finish
  BY <1>1, <1>2, <1>7 DEF Finish, SetStatus, StatusLost, Goto, PastCheck
<1>8. ASSUME NEW r \in Restores, Create(r) \/ Delete(r) PROVE Inv'
  <2>1. /\ pc' = pc /\ cur' = cur /\ state'[r] \notin Busy
        /\ \A q \in Restores \ {r} : state'[q] = state[q]
    BY <1>1, <1>2, <1>8 DEF Create, Delete, worker
  <2>2. QED
    BY <1>1, <1>2, <2>1
<1>9. CASE Crash
  BY <1>1, <1>9 DEF Crash, Goto, PastCheck
<1>10. CASE Proceeds
  BY <1>1, <1>10 DEF Proceeds, PastCheck, Steps
<1>11. CASE UNCHANGED vars
  BY <1>1, <1>11 DEF vars, worker
<1>12. QED
  BY <1>4, <1>5, <1>6, <1>7, <1>8, <1>9, <1>10, <1>11, MostStepsProceed

\* Whatever fails and however often, two restores never act on the cluster at
\* the same time.
THEOREM RestoresExclude == Spec => []OneRestoreAtATime
<1>1. Init => Inv
  <2>1. ASSUME Init PROVE TypeOK
    BY <2>1, TypeInit
  <2>2. QED
    BY <2>1 DEF Init, Inv, OneRestoreAtATime, Acting, PastCheck, Absent, StopCluster,
                Restoring, StartCluster, PITR
<1>2. QED
  BY <1>1, InvStep, PTL DEF Spec, Inv
-----------------------------------------------------------------------------
(* Who uses the volume.                                                     *)

\* A restore that a crash left behind in the state s.
Left(s) == crashes > 0 /\ \E q \in Restores \ {cur} : state[q] = s

\* The restore in hand is in the state s, unless the user has deleted it.
Within(s) == state[cur] = s \/ (state[cur] = Gone /\ deletes > 0)

\* A job that writes is that of the restore in hand, or of one left behind.
AtWork ==
    Undisturbed =>
        /\ pc \in {"launch", "source", "restoreJob"} => Within(Restoring)
        /\ pc \in {"getCluster", "unpause", "ready"} => Within(StartCluster)
        /\ \A q \in Restores : Writing(q) =>
              \/ cur = q /\ pc = "restoreJob"
              \/ crashes > 0 /\ state[q] = Restoring /\ cur # q

-----------------------------------------------------------------------------
(* What went wrong stays on the record.                                     *)

LEMMA Calm ==
    ASSUME TypeOK, [Next]_vars, Undisturbed'
    PROVE  /\ Undisturbed /\ ~ApiFails
           /\ (crashes > 0 => crashes' > 0) /\ (deletes > 0 => deletes' > 0)
<1>1. {crashes, deletes, errors, timeouts} \subseteq Nat
  BY BoundsAssumption DEF TypeOK, BoundsAssumption
<1> DEFINE Counted == /\ errors' \in {errors, errors + 1} /\ crashes' \in {crashes, crashes + 1}
                      /\ deletes' \in {deletes, deletes + 1}
<1>2. Counted
  <2> USE DEF mishaps, ApiFails
  <2>1. CASE Worker
    <3>1. ASSUME NEW r \in Restores, Pick(r) PROVE Counted
      BY <3>1 DEF Pick
    <3>2. CASE ListRestores \/ Prepare \/ Pause BY <3>2 DEF ListRestores, Prepare, Pause
    <3>3. CASE ReportPhase \/ Finish
      BY <3>3 DEF ReportPhase, Report, Finish, SetStatus, StatusLost
    <3>4. CASE AwaitPodsDown \/ AwaitVolumesDown \/ AwaitReady
      BY <3>4 DEF AwaitPodsDown, AwaitVolumesDown, AwaitReady, WaitFor, WaitLimit
    <3>5. CASE DropVolumes \/ Launch \/ AwaitSource \/ AwaitRestoreJob
      BY <3>5 DEF DropVolumes, Launch, AwaitSource, AwaitRestoreJob
    <3>6. CASE GetCluster \/ Unpause \/ LaunchPITR \/ AwaitPITRJob
      BY <3>6 DEF GetCluster, Unpause, LaunchPITR, AwaitPITRJob
    <3>7. QED BY <2>1, <3>1, <3>2, <3>3, <3>4, <3>5, <3>6 DEF Worker
  <2>2. CASE Reconciler BY <2>2 DEF Reconciler, ReadCluster, ScalePXC, WriteStatus
  <2>3. CASE Kubernetes BY <2>3 DEF Kubernetes, Kube
  <2>4. CASE Crash BY <2>4 DEF Crash
  <2>5. ASSUME NEW r \in Restores, Create(r) \/ Delete(r) PROVE Counted
    BY <2>5 DEF Create, Delete
  <2>6. CASE UNCHANGED vars BY <2>6 DEF vars
  <2>7. QED BY <2>1, <2>2, <2>3, <2>4, <2>5, <2>6 DEF Next
<1>3. QED BY <1>1, <1>2 DEF Undisturbed, ApiFails

-----------------------------------------------------------------------------
(* One restore job at a time.                                               *)

\* The strengthened invariant is inductive.
LEMMA AtWorkStep == Inv /\ AtWork /\ [Next]_vars => AtWork'
<1> SUFFICES ASSUME Inv, AtWork, [Next]_vars, Undisturbed' PROVE AtWork'
  BY DEF AtWork
<1> USE DEF AtWork, Within, Writing, Goto
<1>1. /\ TypeOK /\ Undisturbed /\ ~ApiFails
      /\ crashes > 0 => crashes' > 0
      /\ deletes > 0 => deletes' > 0
  BY Calm DEF Inv
<1>2. state \in [Restores -> States] /\ restoreJob \in [Restores -> {"none", "active", "done", "failed"}]
  BY <1>1 DEF TypeOK
<1>3. (pc # "idle" => cur \in Restores) /\ NoRestore \notin Restores
  BY RestoresAssumption DEF Inv, RestoresAssumption
<1>4. Restoring \notin {New, Absent, Gone}
  BY DEF Restoring, New, Absent, Gone
<1>5. ASSUME NEW r \in Restores, Pick(r) PROVE AtWork'
  BY <1>1, <1>2, <1>3, <1>4, <1>5 DEF Pick, jobs
<1>6. CASE ListRestores BY <1>1, <1>2, <1>3, <1>6 DEF ListRestores, jobs
<1>7. CASE Prepare \/ Pause \/ AwaitPodsDown \/ DropVolumes \/ AwaitVolumesDown
  <2>1. UNCHANGED <<state, cur, restoreJob>> /\ pc # "restoreJob"
    BY <1>7 DEF Prepare, Pause, AwaitPodsDown, DropVolumes, AwaitVolumesDown, WaitFor, Fails, jobs
  <2>2. pc' \in {"stopping", "podsDown", "dropVolumes", "volumesDown", "restoring", "fail"}
    BY <1>7 DEF Prepare, Pause, AwaitPodsDown, DropVolumes, AwaitVolumesDown, WaitFor, Fails
  <2>3. QED BY <1>1, <2>1, <2>2
<1>8. CASE ReportPhase
  <2>1. PICK from, s, to :
          /\ Report(from, s, to)
          /\ to \in {"pause", "launch", "getCluster", "launchPITR"} /\ from # "restoreJob" /\ from # "idle"
          /\ to = "launch" => s = Restoring
          /\ to = "getCluster" => s = StartCluster
    BY <1>8 DEF ReportPhase
  <2>2. /\ UNCHANGED <<cur, restoreJob>> /\ pc = from
        /\ \A q \in Restores \ {cur} : state'[q] = state[q]
        /\ \/ pc' = "fail"
           \/ pc' = to /\ state'[cur] = s
    BY <1>2, <1>3, <2>1 DEF Report, SetStatus, StatusLost, jobs
  <2>3. QED BY <1>1, <1>2, <2>1, <2>2
<1>9. CASE Launch BY <1>1, <1>2, <1>3, <1>9 DEF Launch
<1>10. CASE AwaitSource BY <1>1, <1>2, <1>3, <1>10 DEF AwaitSource
<1>11. CASE AwaitRestoreJob BY <1>1, <1>2, <1>3, <1>11 DEF AwaitRestoreJob
<1>12. CASE GetCluster \/ Unpause
  BY <1>1, <1>2, <1>12 DEF GetCluster, Unpause, jobs
<1>13. CASE AwaitReady \/ LaunchPITR \/ AwaitPITRJob
  <2>1. UNCHANGED <<state, cur, restoreJob>> /\ pc # "restoreJob"
    BY <1>13 DEF AwaitReady, LaunchPITR, AwaitPITRJob, WaitFor, Fails, jobs
  <2>2. pc' \in {"recovering", "pitrJob", "succeed", "fail"}
    BY <1>13 DEF AwaitReady, LaunchPITR, AwaitPITRJob, WaitFor, Fails
  <2>3. QED BY <1>1, <2>1, <2>2
<1>14. CASE Finish
  <2>1. /\ pc # "restoreJob" /\ cur' = NoRestore /\ pc' = "idle" /\ restoreJob' = restoreJob
        /\ \A q \in Restores \ {cur} : state'[q] = state[q]
    BY <1>2, <1>3, <1>14 DEF Finish, SetStatus, StatusLost, jobs
  <2>2. QED BY <1>1, <1>3, <2>1
<1>15. CASE Reconciler
  <2>1. UNCHANGED <<state, pc, cur, restoreJob>>
    BY <1>15 DEF Reconciler, ReadCluster, ScalePXC, WriteStatus, worker, jobs
  <2>2. QED BY <1>1, <2>1
<1>16. CASE Kubernetes
  <2>1. UNCHANGED <<state, pc, cur>> BY <1>16 DEF Kubernetes, Kube, worker
  <2>2. \A q \in Restores : restoreJob'[q] = "active" => restoreJob[q] = "active"
    BY <1>2, <1>16
       DEF Kubernetes, Kube, jobs, StartPod, PodReady, StopPod, RemoveVolume, SourceRuns,
           RestoreJobEnds, PITRJobEnds, CollectGarbage
  <2>3. QED BY <1>1, <2>1, <2>2
<1>17. ASSUME NEW r \in Restores, Create(r) PROVE AtWork'
  <2>1. UNCHANGED <<pc, cur, restoreJob>> /\ state[r] = Absent /\ state' = [state EXCEPT ![r] = New]
    BY <1>17 DEF Create, worker, jobs
  <2>2. Absent \notin {Restoring, StartCluster, Gone} BY DEF Absent, Restoring, StartCluster, Gone
  <2>3. QED BY <1>1, <1>2, <1>3, <2>1, <2>2
<1>18. ASSUME NEW r \in Restores, Delete(r) PROVE AtWork'
  <2>1. /\ UNCHANGED <<pc, cur, restoreJob>> /\ state' = [state EXCEPT ![r] = Gone]
        /\ deletes' > 0 /\ ~(crashes > 0)
    <3>1. deletes \in Nat BY <1>1, BoundsAssumption DEF TypeOK, BoundsAssumption
    <3>2. crashes' = crashes /\ deletes' = deletes + 1 BY <1>18 DEF Delete
    <3>3. QED BY <1>18, <3>1, <3>2 DEF Delete, worker, jobs, Undisturbed
  <2>2. QED BY <1>1, <1>2, <1>3, <2>1
<1>19. CASE Crash
  <2>1. /\ UNCHANGED <<state, restoreJob>> /\ pc' = "idle" /\ cur' = NoRestore
        /\ crashes' > 0 /\ ~(deletes > 0)
    <3>1. crashes \in Nat BY <1>1, BoundsAssumption DEF TypeOK, BoundsAssumption
    <3>2. QED BY <1>19, <3>1 DEF Crash, jobs, Undisturbed
  <2>2. QED BY <1>1, <1>3, <2>1
<1>20. CASE UNCHANGED vars BY <1>1, <1>20 DEF vars, worker, jobs, mishaps
<1>21. QED
  BY <1>5, <1>6, <1>7, <1>8, <1>9, <1>10, <1>11, <1>12, <1>13, <1>14, <1>15, <1>16, <1>17, <1>18,
     <1>19, <1>20 DEF Next, Worker

LEMMA AtWorkInit == Init => AtWork
<1> SUFFICES ASSUME Init PROVE AtWork
  OBVIOUS
<1>1. pc = "idle" /\ \A q \in Restores : ~Writing(q) BY DEF Init, Writing
<1>2. QED BY <1>1 DEF AtWork

\* Whom a job that writes belongs to.
LEMMA OneWriter == Inv /\ AtWork => JobsExclusive
<1> SUFFICES ASSUME Inv, AtWork, Undisturbed, NEW q \in Restores, NEW r \in Restores,
                    Writing(q), Writing(r)
             PROVE  q = r
  BY DEF JobsExclusive
<1>1. Restoring \in Acting /\ Restoring \in Busy BY DEF Acting, Busy
<1>2. "restoreJob" \in PastCheck \ {"fail"} BY DEF PastCheck, Steps
<1>3. QED BY <1>1, <1>2 DEF Inv, AtWork, OneRestoreAtATime

LEMMA InvInit == Init => Inv
<1> SUFFICES ASSUME Init PROVE Inv
  OBVIOUS
<1>1. TypeOK BY TypeInit
<1>2. QED
  BY <1>1 DEF Init, Inv, OneRestoreAtATime, Acting, PastCheck, Absent, StopCluster, Restoring, StartCluster, PITR

\* Unless the API server refused a call, or a restore was deleted and the operator
\* died as well, at most one restore job writes, whatever the others do.
THEOREM JobsExclude == Spec => []JobsExclusive
BY InvInit, InvStep, AtWorkInit, AtWorkStep, OneWriter, PTL DEF Spec

-----------------------------------------------------------------------------
(* No pod beside a restore job: the sizes.                                  *)

\* A spec that is not paused asks for pods, and so does the copy it may be
\* written back from.
Sized == (~spec.pause => spec.size > 0) /\ (~copy.pause => copy.size > 0)

\* What a pass of the cluster controller has read and done.
Passed ==
    /\ ready <= pods
    /\ (rpc # "idle" /\ rfresh) => rsize = DefaultedSize(spec)
    /\ rpc = "status" => replicas = rsize

sizes == <<spec, copy, observed, pxcReady, rpc, rsize, rfresh, replicas, pods, ready>>

\* Most steps leave all that alone.
LEMMA SizesAlone ==
    ASSUME [Next]_vars,
           ~Prepare, ~Pause, ~Unpause, ~Reconciler, ~Kube(StartPod), ~Kube(PodReady), ~Kube(StopPod), ~Crash
    PROVE  UNCHANGED sizes
<1> USE DEF sizes, worker, cluster, reconciler, kubernetes
<1>1. ASSUME NEW r \in Restores, Pick(r) PROVE UNCHANGED sizes BY <1>1 DEF Pick
<1>2. CASE ListRestores \/ ReportPhase \/ Finish
  BY <1>2 DEF ListRestores, ReportPhase, Report, Finish
<1>3. CASE AwaitPodsDown \/ AwaitVolumesDown \/ AwaitReady
  BY <1>3 DEF AwaitPodsDown, AwaitVolumesDown, AwaitReady, WaitFor, Fails
<1>4. CASE DropVolumes \/ Launch \/ AwaitSource \/ AwaitRestoreJob
  BY <1>4 DEF DropVolumes, Launch, AwaitSource, AwaitRestoreJob
<1>5. CASE GetCluster \/ LaunchPITR \/ AwaitPITRJob BY <1>5 DEF GetCluster, LaunchPITR, AwaitPITRJob
<1>6. CASE Kubernetes
  BY <1>6 DEF Kubernetes, Kube, RemoveVolume, SourceRuns, RestoreJobEnds, PITRJobEnds, CollectGarbage
<1>7. ASSUME NEW r \in Restores, Create(r) \/ Delete(r) PROVE UNCHANGED sizes BY <1>7 DEF Create, Delete
<1>8. CASE UNCHANGED vars BY <1>8 DEF vars
<1>9. QED BY <1>1, <1>2, <1>3, <1>4, <1>5, <1>6, <1>7, <1>8 DEF Next, Worker

\* Paused means no pods; otherwise a size means pods.
LEMMA DefaultedSizeOf ==
    /\ \A s \in Specs : s.pause => DefaultedSize(s) = 0
    /\ \A s \in Specs : ~s.pause /\ s.size > 0 => DefaultedSize(s) > 0
    /\ MaxPods \in Nat /\ MaxPods > 0 /\ Size > 0
<1>1. ASSUME NEW s \in Specs, s.pause PROVE DefaultedSize(s) = 0 BY <1>1 DEF DefaultedSize
<1>2. ASSUME NEW s \in Specs, ~s.pause, s.size > 0 PROVE DefaultedSize(s) > 0
  BY <1>2, DefaultedSizeType DEF DefaultedSize, Specs
<1>3. MaxPods > 0 /\ Size > 0
  BY SizeAssumption DEF SizeAssumption, MaxPods, DefaultedSize
<1>4. QED BY <1>1, <1>2, <1>3, DefaultedSizeType

\* A write of the spec; who has read another one has read an old one.
LEMMA SpecWritten ==
    ASSUME NEW s, WriteSpec(s)
    PROVE  spec' = s /\ (rfresh' => rfresh /\ s = spec) /\ (observed' => observed /\ s = spec) /\ pxcReady' = pxcReady
BY Zenon DEF WriteSpec

LEMMA SizesStep == TypeOK /\ Sized /\ Passed /\ [Next]_vars => Sized' /\ Passed'
<1> SUFFICES ASSUME TypeOK, Sized, Passed, [Next]_vars PROVE Sized' /\ Passed'
  OBVIOUS
<1> USE DEF Sized, Passed
<1>1. /\ spec \in Specs /\ copy \in Specs
      /\ replicas \in Nat /\ pods \in Nat /\ ready \in Nat
  BY DefaultedSizeType DEF TypeOK
<1>2. CASE Prepare
  <2>1. copy' = copy \/ copy' = [spec EXCEPT !.size = DefaultedSize(spec)] BY <1>2 DEF Prepare
  <2>2. ~copy'.pause => copy'.size > 0
    BY <1>1, <2>1, DefaultedSizeOf DEF Specs
  <2>3. QED BY <1>2, <2>2 DEF Prepare, cluster, reconciler, kubernetes
<1>3. CASE Pause \/ Unpause
  <2>1. \/ UNCHANGED <<spec, rfresh>>
        \/ WriteSpec(copy) \/ WriteSpec([copy EXCEPT !.pause = TRUE])
    BY <1>3, Zenon DEF Pause, Unpause, Fails, cluster
  <2>2. ~spec'.pause => spec'.size > 0
    <3>1. spec' = spec \/ spec' = copy \/ spec' = [copy EXCEPT !.pause = TRUE] BY <2>1, SpecWritten, Zenon
    <3>2. [copy EXCEPT !.pause = TRUE].pause = TRUE BY <1>1 DEF Specs
    <3>3. QED BY <3>1, <3>2, Zenon
  <2>3. (rpc # "idle" /\ rfresh') => rsize = DefaultedSize(spec')
    <3>1. rfresh' => rfresh /\ spec' = spec BY <2>1, SpecWritten, Zenon
    <3>2. QED BY <3>1
  <2>4. UNCHANGED <<copy, rpc, rsize, replicas, pods, ready>>
    BY <1>3 DEF Pause, Unpause, Fails, reconciler, kubernetes
  <2>5. QED BY <2>2, <2>3, <2>4
<1>4. CASE ReadCluster BY <1>4 DEF ReadCluster, worker, cluster, kubernetes
<1>5. CASE ScalePXC BY <1>5 DEF ScalePXC, worker, cluster
<1>6. CASE WriteStatus BY <1>6 DEF WriteStatus, worker, kubernetes
<1>7. CASE Kube(StartPod) \/ Kube(PodReady) \/ Kube(StopPod)
  <2>1. UNCHANGED <<spec, copy, rpc, rsize, rfresh, replicas>>
    BY <1>7 DEF Kube, StartPod, PodReady, StopPod, worker, cluster, reconciler
  <2>2. ready' <= pods' BY <1>1, <1>7 DEF Kube, StartPod, PodReady, StopPod
  <2>3. QED BY <2>1, <2>2
<1>8. CASE Crash BY <1>8 DEF Crash, cluster, kubernetes
<1>9. CASE UNCHANGED sizes BY <1>9 DEF sizes
<1>10. QED BY <1>2, <1>3, <1>4, <1>5, <1>6, <1>7, <1>8, <1>9, SizesAlone DEF Reconciler

-----------------------------------------------------------------------------
(* No pod beside a restore job: up and down.                                *)

\* Pods are there, or on their way, and no pass is about to take them away.
Coming == pods > 0 /\ replicas > 0 /\ (rpc = "apply" => rsize > 0)

\* A restore waits for the cluster it has started, or did when the operator died.
StartingUp == pc = "ready" \/ Left(StartCluster)

\* No pods are to come, and no pass is about to ask for any.
Down == replicas = 0 /\ (rpc = "apply" => rsize = 0)

\* A cluster that is not paused has its pods, so that once it is paused again, all
\* pods gone means that the pause has been acted on; and a paused one, without
\* pods, stays without.
Scaled ==
    Undisturbed =>
        /\ ~spec.pause => StartingUp \/ Coming
        /\ ~spec.pause /\ observed /\ rpc = "apply" => rsize > 0
        /\ ~spec.pause /\ observed /\ pxcReady => Coming
        /\ spec.pause /\ (pods = 0 \/ replicas = 0) => Down

Emptied == {"dropVolumes", "volumesDown", "restoring", "launch", "source", "restoreJob"}
Pausing == {"podsDown", "starting", "getCluster", "unpause"} \cup Emptied

\* From the pause to the restart the cluster is paused, from the end of its pods to
\* the end of the job it has none; so it is while any job writes.
Stopped ==
    Undisturbed =>
        /\ pc \in Pausing => spec.pause
        /\ pc \in Emptied => pods = 0
        /\ \A r \in Restores : Writing(r) => spec.pause /\ pods = 0

AllInv == Inv /\ AtWork /\ Sized /\ Passed /\ Scaled /\ Stopped

\* Past the check nobody was left behind.
LEMMA NobodyLeft ==
    ASSUME Inv, pc \in PastCheck \ {"fail"}, NEW s \in Busy
    PROVE  ~Left(s)
BY DEF Inv, Left

LEMMA LeftStays ==
    ASSUME Inv, [Next]_vars, Undisturbed', NEW s \in Busy, Left(s)
    PROVE  Left(s)'
<1>1. PICK q \in Restores \ {cur} : state[q] = s BY DEF Left
<1>2. state \in [Restores -> States] /\ NoRestore \notin Restores /\ s \notin {New, Absent, Gone}
  BY RestoresAssumption
     DEF Inv, TypeOK, RestoresAssumption, Busy, New, Absent, Gone, Starting, StopCluster,
         Restoring, StartCluster, PITR
<1>3. crashes' > 0 /\ crashes > 0 BY Calm DEF Inv, Left
<1> DEFINE StaysAway == state'[q] = s /\ cur' # q
<1>4. StaysAway
  <2>1. ASSUME NEW r \in Restores, Pick(r) PROVE StaysAway
    BY <1>1, <1>2, <2>1 DEF Pick
  <2>2. CASE ListRestores BY <1>1, <1>2, <2>2 DEF ListRestores
  <2>3. CASE ReportPhase \/ Finish
    BY <1>1, <1>2, <2>3 DEF ReportPhase, Report, Finish, SetStatus, StatusLost
  <2>4. ASSUME NEW r \in Restores, Create(r) PROVE StaysAway
    BY <1>1, <1>2, <2>4 DEF Create, worker
  <2>5. ASSUME NEW r \in Restores, Delete(r) PROVE FALSE
    <3>1. deletes \in Nat /\ deletes' = deletes + 1 BY <2>5, BoundsAssumption DEF Delete, Inv, TypeOK, BoundsAssumption
    <3>2. QED BY <1>3, <3>1 DEF Undisturbed
  <2>6. CASE Crash BY <1>1, <1>2, <2>6 DEF Crash
  <2>7. CASE Proceeds BY <1>1, <2>7 DEF Proceeds
  <2>8. CASE UNCHANGED vars BY <1>1, <2>8 DEF vars, worker
  <2>9. QED BY <2>1, <2>2, <2>3, <2>4, <2>5, <2>6, <2>7, <2>8, MostStepsProceed
<1>5. QED BY <1>1, <1>3, <1>4 DEF Left

\* A cluster that is being started is, until the wait for it ends.
LEMMA StartingUpStays ==
    ASSUME Inv, AtWork, [Next]_vars, Undisturbed', StartingUp, ~AwaitReady
    PROVE  StartingUp'
<1>1. StartCluster \in Busy BY DEF Busy
<1>2. CASE Left(StartCluster) BY <1>1, <1>2, LeftStays DEF StartingUp
<1>3. CASE pc = "ready"
  <2>1. CASE Crash
    <3>1. crashes' > 0 /\ ~(deletes > 0)
      BY <2>1, BoundsAssumption DEF Crash, Inv, TypeOK, BoundsAssumption, Undisturbed
    <3>2. state[cur] = StartCluster /\ cur \in Restores
      BY <1>3, <3>1, Calm DEF AtWork, Within, Inv
    <3>3. state' = state /\ cur' = NoRestore /\ NoRestore \notin Restores
      BY <2>1, RestoresAssumption DEF Crash, RestoresAssumption
    <3>4. QED BY <3>1, <3>2, <3>3 DEF StartingUp, Left
  <2>2. CASE ~Crash
    <3> USE DEF worker, Goto
    <3>1. ~Worker
      BY <1>3
         DEF Worker, Pick, ListRestores, Prepare, ReportPhase, Report, Pause, AwaitPodsDown, WaitFor,
             DropVolumes, AwaitVolumesDown, Launch, AwaitSource, AwaitRestoreJob, GetCluster, Unpause,
             LaunchPITR, AwaitPITRJob, Finish
    <3>2. pc' = pc
      BY <2>2, <3>1
         DEF Next, Reconciler, ReadCluster, ScalePXC, WriteStatus, Kubernetes, Kube, Create, Delete, vars
    <3>3. QED BY <1>3, <3>2 DEF StartingUp
  <2>3. QED BY <2>1, <2>2
<1>4. QED BY <1>2, <1>3 DEF StartingUp

LEMMA ScaledStep == AllInv /\ [Next]_vars => Scaled'
<1> SUFFICES ASSUME AllInv, [Next]_vars, Undisturbed' PROVE Scaled'
  BY DEF Scaled
<1>1. /\ Inv /\ AtWork /\ Sized /\ Passed /\ Stopped /\ TypeOK /\ Undisturbed /\ ~ApiFails
      /\ StartingUp /\ ~AwaitReady => StartingUp'
  BY Calm, StartingUpStays DEF AllInv, Inv
<1>2. /\ spec \in Specs /\ copy \in Specs
      /\ replicas \in Nat /\ pods \in Nat /\ ready \in Nat /\ rsize \in Nat
  BY <1>1, DefaultedSizeType DEF TypeOK
<1>3. /\ ~spec.pause => StartingUp \/ Coming
      /\ ~spec.pause /\ observed /\ rpc = "apply" => rsize > 0
      /\ ~spec.pause /\ observed /\ pxcReady => Coming
      /\ spec.pause /\ (pods = 0 \/ replicas = 0) => Down
  BY <1>1 DEF AllInv, Scaled
<1>4. /\ spec.pause => DefaultedSize(spec) = 0
      /\ ~spec.pause => DefaultedSize(spec) > 0
  BY <1>1, <1>2, DefaultedSizeOf DEF Sized
<1>5. CASE AwaitReady
  <2>1. UNCHANGED sizes
    BY <1>5 DEF AwaitReady, WaitFor, Fails, sizes, worker, cluster, reconciler, kubernetes
  <2>2. ~spec.pause => Coming
    <3>1. CASE observed /\ pxcReady BY <1>3, <3>1
    <3>2. CASE WaitLimit BY <1>4, <3>2 DEF WaitLimit, Coming
    <3>3. QED BY <1>1, <1>5, <3>1, <3>2 DEF AwaitReady, WaitFor
  <2>3. QED BY <1>3, <2>1, <2>2 DEF sizes, Scaled, Coming, Down
<1>6. CASE Pause
  <2>1. UNCHANGED <<replicas, pods, rpc, rsize>>
    BY <1>6 DEF Pause, Fails, kubernetes, reconciler
  <2>2. CASE WriteSpec([copy EXCEPT !.pause = TRUE])
    <3>1. spec'.pause = TRUE BY <1>2, <2>2, SpecWritten DEF Specs
    <3>2. ~spec.pause => Coming
      <4>1. pc # "ready" /\ ~Left(StartCluster)
        <5>1. pc = "pause" /\ StartCluster \in Busy BY <1>6 DEF Pause, Busy
        <5>2. pc \in PastCheck \ {"fail"} BY <5>1 DEF PastCheck, Steps
        <5>3. QED BY <1>1, <5>1, <5>2, NobodyLeft
      <4>2. QED BY <1>3, <4>1 DEF StartingUp
    <3>3. (pods = 0 \/ replicas = 0) => Down BY <1>2, <1>3, <3>2 DEF Coming
    <3>4. QED BY <2>1, <3>1, <3>3 DEF Scaled, Down
  <2>3. CASE UNCHANGED <<spec, observed, pxcReady>>
    BY <1>1, <1>3, <1>6, <2>1, <2>3 DEF Scaled, Coming, Down, AwaitReady, WaitFor, Pause
  <2>4. QED BY <1>6, <2>2, <2>3, Zenon DEF Pause, Fails, cluster
<1>7. CASE Unpause
  <2>1. UNCHANGED <<replicas, pods, rpc, rsize>>
    BY <1>7 DEF Unpause, kubernetes, reconciler
  <2>2. spec.pause BY <1>1, <1>7 DEF Unpause, Stopped, Pausing
  <2>3. CASE WriteSpec(copy) /\ pc' = "ready"
    <3>1. spec' = copy /\ (observed' => spec' = spec) BY <2>3, SpecWritten, Zenon
    <3>2. StartingUp' BY <2>3 DEF StartingUp
    <3>3. QED BY <1>3, <2>1, <2>2, <3>1, <3>2 DEF Scaled, Down
  <2>4. CASE UNCHANGED <<spec, observed, pxcReady>>
    BY <1>3, <2>1, <2>2, <2>4 DEF Scaled, Down
  <2>5. QED BY <1>7, <2>3, <2>4, Zenon DEF Unpause, cluster, Goto
<1>8. CASE ReadCluster
  <2>1. /\ rpc = "idle" /\ rpc' = "apply" /\ rsize' = DefaultedSize(spec)
        /\ UNCHANGED <<spec, observed, pxcReady, pods, replicas>>
    BY <1>8 DEF ReadCluster, cluster, kubernetes
  <2>2. ~AwaitReady BY <1>8 DEF ReadCluster, AwaitReady, WaitFor, worker, reconciler
  <2>3. QED BY <1>1, <1>3, <1>4, <2>1, <2>2 DEF Scaled, Coming, Down
<1>9. CASE ScalePXC
  <2>1. /\ rpc = "apply" /\ rpc' = "status" /\ replicas' = rsize
        /\ UNCHANGED <<spec, observed, pxcReady, pods, rsize>>
    BY <1>1, <1>9 DEF ScalePXC, cluster
  <2>2. StartingUp => StartingUp' \/ AwaitReady BY <1>1
  <2>3. ~AwaitReady BY <1>9 DEF ScalePXC, AwaitReady, WaitFor, worker, reconciler, Goto
  <2>4. QED BY <1>2, <1>3, <2>1, <2>2, <2>3 DEF Scaled, Coming, Down
<1>10. CASE WriteStatus
  <2>1. /\ rpc = "status" /\ rpc' = "idle" /\ replicas = rsize
        /\ UNCHANGED <<spec, pods, replicas>>
    BY <1>1, <1>10 DEF WriteStatus, kubernetes, Passed
  <2>2. StartingUp => StartingUp'
    <3>1. ~AwaitReady BY <1>10 DEF WriteStatus, AwaitReady, WaitFor, worker, reconciler, Goto
    <3>2. QED BY <1>1, <3>1
  <2>3. ~spec.pause /\ observed' /\ pxcReady' => Coming'
    <3>1. CASE rfresh
      <4>1. rsize = DefaultedSize(spec) /\ ready <= pods BY <1>1, <2>1, <3>1 DEF Passed
      <4>2. pxcReady' => ready = rsize BY <1>10, <3>1, Zenon DEF WriteStatus
      <4>3. QED BY <1>2, <1>4, <2>1, <4>1, <4>2 DEF Coming
    <3>2. CASE ~rfresh
      <4>1. UNCHANGED <<observed, pxcReady>> BY <1>10, <3>2 DEF WriteStatus
      <4>2. QED BY <1>3, <2>1, <4>1 DEF Coming
    <3>3. QED BY <3>1, <3>2
  <2>4. QED BY <1>3, <2>1, <2>2, <2>3 DEF Scaled, Coming, Down
<1>11. CASE Kube(StartPod) \/ Kube(PodReady) \/ Kube(StopPod)
  <2>1. UNCHANGED <<pc, spec, observed, pxcReady, rpc, rsize, replicas>>
    BY <1>11 DEF Kube, StartPod, PodReady, StopPod, worker, cluster, reconciler
  <2>2. ~AwaitReady BY <1>11, <2>1 DEF AwaitReady, WaitFor, Goto, Fails
  <2>3. \/ pods < replicas /\ pods' = pods + 1
        \/ pods' = pods
        \/ pods > replicas /\ pods' = pods - 1
    BY <1>11 DEF Kube, StartPod, PodReady, StopPod
  <2>4. Coming => Coming' BY <1>2, <2>1, <2>3 DEF Coming
  <2>5. spec.pause /\ (pods' = 0 \/ replicas = 0) => Down BY <1>2, <1>3, <2>3
  <2>6. QED BY <1>1, <1>3, <2>1, <2>2, <2>4, <2>5 DEF Scaled, Down
<1>12. CASE Crash
  <2>1. UNCHANGED <<spec, observed, pxcReady, replicas, pods>> /\ rpc' = "idle"
    BY <1>12 DEF Crash, cluster, kubernetes
  <2>2. StartingUp => StartingUp' \/ AwaitReady BY <1>1
  <2>3. ~AwaitReady
    BY <1>12, <1>1, BoundsAssumption
       DEF Crash, AwaitReady, WaitFor, WaitLimit, mishaps, TypeOK, BoundsAssumption
  <2>4. QED BY <1>3, <2>1, <2>2, <2>3 DEF Scaled, Coming, Down
<1>13. CASE UNCHANGED sizes /\ ~AwaitReady
  BY <1>1, <1>3, <1>13 DEF sizes, Scaled, Coming, Down
<1>14. CASE Prepare
  <2>1. UNCHANGED <<spec, observed, pxcReady, rpc, rsize, replicas, pods>>
    BY <1>14 DEF Prepare, cluster, reconciler, kubernetes
  <2>2. ~AwaitReady BY <1>14 DEF Prepare, AwaitReady, WaitFor
  <2>3. QED BY <1>1, <1>3, <2>1, <2>2 DEF Scaled, Coming, Down
<1>15. QED
  BY <1>5, <1>6, <1>7, <1>8, <1>9, <1>10, <1>11, <1>12, <1>13, <1>14, SizesAlone DEF Reconciler

LEMMA StoppedStep == AllInv /\ [Next]_vars => Stopped'
<1> SUFFICES ASSUME AllInv, [Next]_vars, Undisturbed' PROVE Stopped'
  BY DEF Stopped
<1>1. /\ Inv /\ AtWork /\ Passed /\ Scaled /\ TypeOK /\ Undisturbed /\ ~ApiFails
      /\ restoreJob \in [Restores -> {"none", "active", "done", "failed"}]
      /\ replicas \in Nat /\ pods \in Nat
  BY Calm, DefaultedSizeType DEF AllInv, Inv, TypeOK
<1>2. /\ pc \in Pausing => spec.pause
      /\ pc \in Emptied => pods = 0
      /\ \A r \in Restores : Writing(r) => spec.pause /\ pods = 0
  BY <1>1 DEF AllInv, Stopped
<1> USE DEF Writing, Goto
<1>3. CASE Pause
  <2>1. UNCHANGED <<pods, restoreJob>> BY <1>3 DEF Pause, Fails, kubernetes, jobs
  <2>2. CASE WriteSpec([copy EXCEPT !.pause = TRUE]) /\ pc' = "podsDown"
    <3>1. spec'.pause = TRUE BY <1>1, <2>2, SpecWritten DEF TypeOK, Specs
    <3>2. QED BY <1>2, <2>1, <2>2, <3>1 DEF Stopped, Emptied
  <2>3. CASE spec' = spec /\ pc' = "fail" BY <1>2, <2>1, <2>3 DEF Stopped, Pausing, Emptied
  <2>4. QED BY <1>3, <2>2, <2>3, Zenon DEF Pause, Fails, cluster, Goto
<1>4. CASE Unpause
  <2>1. UNCHANGED <<pods, restoreJob>> BY <1>4 DEF Unpause, kubernetes, jobs
  <2>2. \A r \in Restores : ~Writing(r)
    <3>1. pc = "unpause" BY <1>4 DEF Unpause
    <3>2. pc \in PastCheck \ {"fail"} /\ Restoring \in Busy BY <3>1 DEF PastCheck, Steps, Busy
    <3>3. ~Left(Restoring) BY <1>1, <3>2, NobodyLeft
    <3>4. QED BY <1>1, <3>1, <3>3 DEF AtWork, Left
  <2>3. \/ pc' = "ready"
        \/ spec' = spec /\ pc' \in {"getCluster", "fail"}
    BY <1>4 DEF Unpause, cluster
  <2>4. pc' \in Pausing => spec'.pause BY <1>2, <1>4, <2>3 DEF Unpause, Pausing, Emptied
  <2>5. pc' \notin Emptied BY <2>3 DEF Emptied
  <2>6. QED BY <2>1, <2>2, <2>4, <2>5 DEF Stopped
<1>5. CASE Worker /\ ~Pause /\ ~Unpause
  <2>1. UNCHANGED <<spec, pods>>
    BY <1>5
       DEF Worker, Pick, ListRestores, Prepare, ReportPhase, Report, AwaitPodsDown, AwaitVolumesDown, AwaitReady,
           WaitFor, Fails, DropVolumes, Launch, AwaitSource, AwaitRestoreJob, GetCluster, LaunchPITR,
           AwaitPITRJob, Finish, cluster, kubernetes
  <2> DEFINE Follows == /\ pc' \in Pausing => pc \in Pausing
                        /\ pc' \in Emptied => pc \in Emptied \/ pods = 0
                        /\ \A r \in Restores :
                             restoreJob'[r] = "active" => restoreJob[r] = "active" \/ pc \in Emptied
  <2>2. Follows
    <3> USE DEF Pausing, Emptied
    <3>1. ASSUME NEW r \in Restores, Pick(r) PROVE Follows
      BY <1>1, <3>1 DEF Pick, jobs
    <3>2. CASE ListRestores \/ Prepare \/ Finish BY <1>1, <3>2 DEF ListRestores, Prepare, Finish, jobs
    <3>3. CASE ReportPhase BY <3>3 DEF ReportPhase, Report, jobs
    <3>4. CASE AwaitPodsDown \/ AwaitVolumesDown \/ AwaitReady
      BY <3>4 DEF AwaitPodsDown, AwaitVolumesDown, AwaitReady, WaitFor, Fails, jobs
    <3>5. CASE DropVolumes \/ Launch \/ AwaitSource \/ AwaitRestoreJob
      BY <1>1, <3>5 DEF DropVolumes, Launch, AwaitSource, AwaitRestoreJob, jobs
    <3>6. CASE GetCluster \/ LaunchPITR \/ AwaitPITRJob
      BY <3>6 DEF GetCluster, LaunchPITR, AwaitPITRJob, jobs
    <3>7. QED BY <1>5, <3>1, <3>2, <3>3, <3>4, <3>5, <3>6 DEF Worker
  <2>3. Emptied \subseteq Pausing BY DEF Pausing
  <2>4. QED BY <1>2, <2>1, <2>2, <2>3 DEF Stopped
<1>6. CASE Reconciler \/ Crash
  <2>1. UNCHANGED <<spec, pods, restoreJob>> /\ (pc' = pc \/ pc' = "idle")
    BY <1>6 DEF Reconciler, ReadCluster, ScalePXC, WriteStatus, Crash, worker, cluster, kubernetes, jobs
  <2>2. QED BY <1>2, <2>1 DEF Stopped, Pausing, Emptied
<1>7. CASE Kubernetes
  <2>1. UNCHANGED <<pc, spec>> BY <1>7 DEF Kubernetes, Kube, worker, cluster
  <2>2. \A q \in Restores : restoreJob'[q] = "active" => restoreJob[q] = "active"
    BY <1>1, <1>7
       DEF Kubernetes, Kube, jobs, StartPod, PodReady, StopPod, RemoveVolume, SourceRuns,
           RestoreJobEnds, PITRJobEnds, CollectGarbage
  <2>3. spec.pause /\ pods = 0 => pods' = 0
    <3>1. spec.pause /\ pods = 0 => replicas = 0 BY <1>1 DEF Scaled, Down
    <3>2. QED
      BY <1>1, <1>7, <3>1
         DEF Kubernetes, Kube, StartPod, PodReady, StopPod, RemoveVolume, SourceRuns,
             RestoreJobEnds, PITRJobEnds, CollectGarbage, kubernetes
  <2>4. Emptied \subseteq Pausing BY DEF Pausing
  <2>5. QED BY <1>2, <2>1, <2>2, <2>3, <2>4 DEF Stopped
<1>8. ASSUME NEW r \in Restores, Create(r) \/ Delete(r) PROVE Stopped'
  BY <1>2, <1>8 DEF Create, Delete, worker, cluster, kubernetes, jobs, Stopped
<1>9. CASE UNCHANGED vars
  BY <1>2, <1>9 DEF vars, worker, cluster, kubernetes, jobs, Stopped
<1>10. QED BY <1>3, <1>4, <1>5, <1>6, <1>7, <1>8, <1>9 DEF Next

LEMMA AllInvInit == Init => AllInv
<1> SUFFICES ASSUME Init PROVE AllInv
  OBVIOUS
<1>1. Inv /\ AtWork BY InvInit, AtWorkInit
<1>2. Sized BY DefaultedSizeOf DEF Init, Sized
<1>3. Passed BY DefaultedSizeOf DEF Init, Passed
<1>4. Scaled BY DefaultedSizeOf DEF Init, Scaled, Coming
<1>5. Stopped BY DEF Init, Stopped, Pausing, Emptied, Writing
<1>6. QED BY <1>1, <1>2, <1>3, <1>4, <1>5 DEF AllInv

LEMMA AllInvStep == AllInv /\ [Next]_vars => AllInv'
<1> SUFFICES ASSUME AllInv, [Next]_vars PROVE AllInv'
  OBVIOUS
<1>1. Inv' /\ AtWork' BY InvStep, AtWorkStep DEF AllInv
<1>2. Sized' /\ Passed' BY SizesStep DEF AllInv, Inv
<1>3. QED BY <1>1, <1>2, ScaledStep, StoppedStep DEF AllInv

\* With the same reservations: while a restore job writes volume 0 there is no pod
\* to use it, and none is going to come, whatever the cluster controller has read
\* before the pause.
THEOREM NoPodBesideRestore == Spec => []VolumeExclusive
<1>1. AllInv => VolumeExclusive BY DEF AllInv, Stopped, VolumeExclusive
<1>2. QED BY <1>1, AllInvInit, AllInvStep, PTL DEF Spec
-----------------------------------------------------------------------------
(* The volumes after a restore.                                             *)

Cleared(r) == \A k \in Ordinals : vol[k] \in {"none", r}

Alone    == {"restoring", "launch", "source", "restoreJob"}
Refilled == {"starting", "getCluster", "unpause", "ready", "recovering"}

\* Volume 0 is never removed.  From the wait for the others on it is the only one,
\* until the pods that come up copy it; and a job that is done has filled it.
Cleaned ==
    /\ vol[0] # "none" /\ 0 \notin doomed
    /\ Undisturbed =>
        /\ pc \in Alone => \A k \in Ordinals \ {0} : vol[k] = "none"
        /\ pc = "restoreJob" /\ restoreJob[cur] = "done" => vol[0] = cur
        /\ pc \in Refilled => Cleared(cur)
        /\ \A r \in Restores : state[r] \in {StartCluster, PITR} => Cleared(r)

LEMMA OrdinalsType == 0 \in Ordinals /\ Ordinals = 0 .. MaxPods - 1 /\ MaxPods \in Nat /\ IsFiniteSet(Ordinals)
<1>1. 0 \in Int /\ MaxPods - 1 \in Int /\ MaxPods \in Nat /\ MaxPods > 0 BY DefaultedSizeOf
<1>2. QED BY <1>1, FS_Interval DEF Ordinals

\* Past the check no other restore writes, and none that a crash left does.
LEMMA OnlyOwnJob ==
    ASSUME Inv, AtWork, Undisturbed, pc \in PastCheck \ {"fail"}, NEW q \in Restores, Writing(q)
    PROVE  cur = q /\ pc = "restoreJob"
<1>1. Restoring \in Busy BY DEF Busy
<1>2. QED BY <1>1 DEF AtWork, Inv

\* No job is at work on the volumes of a cluster that is being started.
LEMMA NobodyWrites ==
    ASSUME Inv, AtWork, Undisturbed, NEW r \in Restores, state[r] \in {StartCluster, PITR},
           NEW q \in Restores
    PROVE  ~Writing(q)
<1> SUFFICES ASSUME Writing(q) PROVE FALSE
  OBVIOUS
<1>1. /\ {StartCluster, PITR, Restoring} \subseteq Acting /\ Acting \subseteq Busy
      /\ state[r] \notin {Restoring, Gone}
  BY DEF Acting, Busy, StartCluster, PITR, Restoring, Gone
<1>2. CASE state[q] = Restoring BY <1>1, <1>2 DEF Inv, OneRestoreAtATime
<1>3. CASE cur = q /\ pc = "restoreJob"
  <2>1. pc \in PastCheck \ {"fail"} BY <1>3 DEF PastCheck, Steps
  <2>2. r = q BY <1>1, <1>3, <2>1 DEF Inv
  <2>3. Within(Restoring) BY <1>3 DEF AtWork
  <2>4. QED BY <1>1, <1>3, <2>2, <2>3 DEF Within
<1>4. QED BY <1>2, <1>3 DEF AtWork

\* What the volumes may become: a pod copies the first, a job rewrites the first.
LEMMA VolumesMove ==
    ASSUME TypeOK, Cleaned, Kubernetes
    PROVE  /\ vol'[0] # "none" /\ 0 \notin doomed'
           /\ \A k \in Ordinals \ {0} : \/ vol'[k] \in {vol[k], "none"}
                                        \/ pods < replicas /\ vol'[k] = vol[0]
           /\ vol'[0] = vol[0] \/ \E q \in Restores : Writing(q)
           /\ \A q \in Restores : restoreJob'[q] = "done" =>
                \/ restoreJob[q] = "done"
                \/ (pods = 0 /\ \A p \in Restores \ {q} : ~Writing(p)) => vol'[0] = q
<1> USE OrdinalsType DEF Kube
<1> DEFINE Pods1 == \A k \in Ordinals \ {0} : \/ vol'[k] \in {vol[k], "none"}
                                              \/ pods < replicas /\ vol'[k] = vol[0]
           Job(q) == restoreJob'[q] = "done" =>
                       \/ restoreJob[q] = "done"
                       \/ (pods = 0 /\ \A p \in Restores \ {q} : ~Writing(p)) => vol'[0] = q
           Moved == /\ vol'[0] # "none" /\ 0 \notin doomed' /\ Pods1
                    /\ vol'[0] = vol[0] \/ \E q \in Restores : Writing(q)
                    /\ \A q \in Restores : Job(q)
<1>1. /\ vol \in [Ordinals -> {"none", "old", "torn"} \cup Restores]
      /\ restoreJob \in [Restores -> {"none", "active", "done", "failed"}]
      /\ pods \in Nat /\ pods <= MaxPods /\ replicas \in Nat /\ replicas <= MaxPods
      /\ vol[0] # "none" /\ 0 \notin doomed
  BY DEF TypeOK, Cleaned
<1>2. CASE Kube(StartPod)
  <2>1. /\ pods < replicas /\ doomed' = doomed /\ restoreJob' = restoreJob
        /\ vol' = [vol EXCEPT ![pods] = IF pods > 0 THEN vol[0] ELSE IF @ = "none" THEN "old" ELSE @]
    BY <1>2 DEF StartPod, jobs
  <2>2. pods \in Ordinals BY <1>1, <2>1
  <2>3. CASE pods = 0
    <3>1. vol' = vol BY <1>1, <2>1, <2>2, <2>3
    <3>2. QED BY <1>1, <2>1, <3>1
  <2>4. CASE pods > 0
    <3>1. vol' = [vol EXCEPT ![pods] = vol[0]] BY <2>1, <2>4
    <3>2. QED BY <1>1, <2>1, <2>2, <2>4, <3>1
  <2>5. QED BY <1>1, <2>3, <2>4
<1>3. CASE UNCHANGED <<vol, doomed, restoreJob>> BY <1>1, <1>3
<1>4. ASSUME NEW k \in Ordinals, Kube(RemoveVolume(k)) PROVE Moved
  <2>1. /\ k \in doomed /\ doomed' = doomed \ {k} /\ vol' = [vol EXCEPT ![k] = "none"]
        /\ restoreJob' = restoreJob
    BY <1>4 DEF RemoveVolume, jobs
  <2>2. k # 0 BY <1>1, <2>1
  <2>3. QED BY <1>1, <2>1, <2>2
<1>5. ASSUME NEW r \in Restores, Kube(RestoreJobEnds(r)) PROVE Moved
  <2>1. /\ Writing(r) /\ doomed' = doomed
        /\ \/ /\ restoreJob' = [restoreJob EXCEPT ![r] = "done"]
              /\ LET alone == pods = 0 /\ \A q \in Restores \ {r} : ~Writing(q)
                 IN vol' = [vol EXCEPT ![0] = IF alone THEN r ELSE "torn"]
           \/ /\ restoreJob' = [restoreJob EXCEPT ![r] = "failed"]
              /\ vol' = [vol EXCEPT ![0] = "torn"]
    BY <1>5 DEF RestoreJobEnds
  <2>2. r # "none" BY RestoresAssumption DEF RestoresAssumption
  <2>3. vol'[0] \in {r, "torn"} /\ \A k \in Ordinals \ {0} : vol'[k] = vol[k] BY <1>1, <2>1
  <2>4. ASSUME NEW q \in Restores PROVE Job(q)
    <3>1. CASE q # r BY <1>1, <2>1, <3>1
    <3>2. CASE q = r BY <1>1, <2>1, <3>2
    <3>3. QED BY <3>1, <3>2
  <2>5. QED BY <1>1, <2>1, <2>2, <2>3, <2>4
<1>6. ASSUME NEW r \in Restores, Kube(CollectGarbage(r)) PROVE Moved
  <2>1. /\ doomed' = doomed /\ restoreJob' = [restoreJob EXCEPT ![r] = "none"]
        /\ vol' = vol \/ (Writing(r) /\ vol' = [vol EXCEPT ![0] = "torn"])
    BY <1>6 DEF CollectGarbage
  <2>2. QED BY <1>1, <2>1
<1>7. Moved
  BY <1>2, <1>3, <1>4, <1>5, <1>6
     DEF Kubernetes, PodReady, StopPod, SourceRuns, PITRJobEnds, kubernetes, jobs
<1>8. QED BY <1>7

\* The first volume stays; a worker that waits for the others to go has them gone.
LEMMA FirstStays ==
    ASSUME TypeOK, Cleaned, [Next]_vars
    PROVE  vol'[0] # "none" /\ 0 \notin doomed' /\ (vol' = vol \/ Kubernetes)
<1> USE DEF kubernetes
<1>1. CASE Kubernetes BY <1>1, VolumesMove
<1>2. CASE DropVolumes BY <1>2 DEF DropVolumes, Cleaned
<1>3. CASE UNCHANGED <<vol, doomed>> BY <1>3 DEF Cleaned
<1>4. ASSUME Worker, ~DropVolumes PROVE UNCHANGED <<vol, doomed>>
  BY <1>4
     DEF Worker, Pick, ListRestores, Prepare, ReportPhase, Report, Pause, AwaitPodsDown, AwaitVolumesDown,
         AwaitReady, WaitFor, Fails, Launch, AwaitSource, AwaitRestoreJob, GetCluster, Unpause, LaunchPITR,
         AwaitPITRJob, Finish
<1>5. CASE Reconciler \/ Crash
  BY <1>3, <1>5 DEF Reconciler, ReadCluster, ScalePXC, WriteStatus, Crash
<1>6. ASSUME NEW r \in Restores, Create(r) \/ Delete(r) PROVE UNCHANGED <<vol, doomed>>
  BY <1>6 DEF Create, Delete
<1>7. CASE UNCHANGED vars BY <1>3, <1>7 DEF vars
<1>8. QED BY <1>1, <1>2, <1>3, <1>4, <1>5, <1>6, <1>7 DEF Next, Worker

LEMMA OneLeft ==
    ASSUME TypeOK, Cleaned, Cardinality(Present) = 1, NEW k \in Ordinals \ {0}
    PROVE  vol[k] = "none"
<1>1. Present \in SUBSET Ordinals /\ IsFiniteSet(Ordinals) /\ 0 \in Present
  BY OrdinalsType DEF Present, Cleaned
<1>2. IsFiniteSet(Present) BY <1>1, FS_Subset
<1>3. PICK x : Present = {x} BY <1>2, FS_Singleton
<1>4. k \notin Present BY <1>1, <1>3
<1>5. QED BY <1>4 DEF Present

\* Pods and jobs.
LEMMA CleanedByKubernetes ==
    ASSUME AllInv, Cleaned, Kubernetes, Undisturbed, Undisturbed'
    PROVE  Cleaned'
<1> USE OrdinalsType
<1>1. /\ Inv /\ AtWork /\ Stopped /\ Scaled /\ TypeOK /\ UNCHANGED <<state, pc, cur>>
      /\ pods \in Nat /\ replicas \in Nat
  BY DefaultedSizeType DEF AllInv, Inv, TypeOK, Kubernetes, Kube, worker
<1>2. /\ vol'[0] # "none" /\ 0 \notin doomed'
      /\ \A k \in Ordinals \ {0} : \/ vol'[k] \in {vol[k], "none"}
                                   \/ pods < replicas /\ vol'[k] = vol[0]
      /\ vol'[0] = vol[0] \/ \E q \in Restores : Writing(q)
      /\ \A q \in Restores : restoreJob'[q] = "done" =>
            \/ restoreJob[q] = "done"
            \/ (pods = 0 /\ \A p \in Restores \ {q} : ~Writing(p)) => vol'[0] = q
  BY <1>1, VolumesMove
<1>3. pc \in Alone => pods = 0 /\ replicas = 0
  BY <1>1 DEF Stopped, Scaled, Down, Alone, Emptied, Pausing
<1>4. Alone \cup Refilled \subseteq PastCheck \ {"fail"} BY DEF Alone, Refilled, PastCheck, Steps
<1>5. ASSUME pc' \in Alone, NEW k \in Ordinals \ {0} PROVE vol'[k] = "none"
  <2>1. vol[k] = "none" BY <1>1, <1>5 DEF Cleaned
  <2>2. ~(pods < replicas) BY <1>1, <1>3, <1>5
  <2>3. QED BY <1>2, <2>1, <2>2
<1>6. ASSUME pc' = "restoreJob", restoreJob'[cur'] = "done" PROVE vol'[0] = cur'
  <2>1. pc = "restoreJob" /\ pc \in Alone /\ pc \in PastCheck \ {"fail"} /\ cur' = cur /\ cur \in Restores
    BY <1>1, <1>6 DEF Alone, PastCheck, Steps, Inv
  <2>2. \A q \in Restores \ {cur} : ~Writing(q) BY <1>1, <2>1, OnlyOwnJob
  <2>3. CASE restoreJob[cur] = "done"
    <3>1. ~Writing(cur) BY <2>3 DEF Writing
    <3>2. vol'[0] = vol[0] BY <1>2, <2>2, <3>1
    <3>3. QED BY <2>1, <2>3, <3>2 DEF Cleaned
  <2>4. CASE restoreJob[cur] # "done" BY <1>2, <1>3, <1>6, <2>1, <2>2, <2>4
  <2>5. QED BY <2>3, <2>4
<1>7. ASSUME NEW r \in Restores, Cleared(r), \A q \in Restores : ~Writing(q) PROVE Cleared(r)'
  <2>1. vol'[0] = vol[0] BY <1>2, <1>7
  <2>2. ASSUME NEW k \in Ordinals PROVE vol'[k] \in {"none", r}
    BY <1>2, <1>7, <2>1 DEF Cleared
  <2>3. QED BY <2>2 DEF Cleared
<1>8. ASSUME pc' \in Refilled PROVE Cleared(cur)'
  <2>1. PICK c \in Restores : c = cur BY <1>1, <1>4, <1>8 DEF Inv, PastCheck
  <2>2. Cleared(c) BY <1>1, <1>8, <2>1 DEF Cleaned
  <2>3. \A q \in Restores : ~Writing(q) BY <1>1, <1>4, <1>8, OnlyOwnJob DEF Refilled
  <2>4. Cleared(c)' BY <1>7, <2>2, <2>3
  <2>5. QED BY <1>1, <2>1, <2>4 DEF Cleared
<1>9. ASSUME NEW r \in Restores, state'[r] \in {StartCluster, PITR} PROVE Cleared(r)'
  <2>1. state[r] \in {StartCluster, PITR} BY <1>1, <1>9
  <2>2. Cleared(r) BY <2>1 DEF Cleaned
  <2>3. \A q \in Restores : ~Writing(q) BY <1>1, <2>1, NobodyWrites
  <2>4. QED BY <1>7, <2>2, <2>3
<1>10. QED BY <1>2, <1>5, <1>6, <1>8, <1>9 DEF Cleaned

\* The worker, who leaves the volumes alone.
LEMMA CleanedByWorker ==
    ASSUME AllInv, Cleaned, Worker, Undisturbed, ~ApiFails
    PROVE  Cleaned'
<1> USE DEF Goto
<1>1. /\ Inv /\ AtWork /\ TypeOK /\ vol' = vol /\ vol'[0] # "none" /\ 0 \notin doomed'
      /\ state \in [Restores -> States] /\ (pc # "idle" => cur \in Restores)
      /\ restoreJob \in [Restores -> {"none", "active", "done", "failed"}]
  <2>1. vol' = vol
    BY DEF Worker, Pick, ListRestores, Prepare, ReportPhase, Report, Pause, AwaitPodsDown, AwaitVolumesDown,
           AwaitReady, WaitFor, Fails, DropVolumes, Launch, AwaitSource, AwaitRestoreJob, GetCluster, Unpause,
           LaunchPITR, AwaitPITRJob, Finish, kubernetes
  <2>2. QED BY <2>1, FirstStays DEF AllInv, Inv, TypeOK, Next
<1>2. \A r \in Restores : Cleared(r)' = Cleared(r) BY <1>1 DEF Cleared
<1>3. /\ pc \in Alone => \A k \in Ordinals \ {0} : vol[k] = "none"
      /\ pc = "restoreJob" /\ restoreJob[cur] = "done" => vol[0] = cur
      /\ pc \in Refilled => Cleared(cur)
      /\ \A r \in Restores : state[r] \in {StartCluster, PITR} => Cleared(r)
  BY DEF Cleaned
<1>4. ASSUME pc' \in Alone => pc \in Alone \/ Cardinality(Present) = 1,
             pc' = "restoreJob" => restoreJob'[cur'] # "done",
             pc' \in Refilled => cur' = cur /\ pc # "idle"
                                 /\ (pc \in Refilled \/ (pc = "restoreJob" /\ restoreJob[cur] = "done")),
             \A r \in Restores : state'[r] \in {StartCluster, PITR} =>
                state[r] \in {StartCluster, PITR} \/ (r = cur /\ pc \in Refilled)
      PROVE  Cleaned'
  <2>1. ASSUME pc' \in Alone, NEW k \in Ordinals \ {0} PROVE vol'[k] = "none"
    BY <1>1, <1>3, <1>4, <2>1, OneLeft
  <2>2. ASSUME pc' \in Refilled PROVE Cleared(cur)'
    <3>1. PICK c \in Restores : c = cur /\ c = cur' BY <1>1, <1>4, <2>2
    <3>2. Cleared(c)
      <4>1. CASE pc \in Refilled BY <1>3, <3>1, <4>1
      <4>2. CASE pc = "restoreJob" /\ restoreJob[cur] = "done"
        <5>1. vol[0] = c /\ \A k \in Ordinals \ {0} : vol[k] = "none" BY <1>3, <3>1, <4>2 DEF Alone
        <5>2. QED BY <5>1 DEF Cleared
      <4>3. QED BY <1>4, <2>2, <4>1, <4>2
    <3>3. QED BY <1>1, <3>1, <3>2 DEF Cleared
  <2>3. ASSUME NEW r \in Restores, state'[r] \in {StartCluster, PITR} PROVE Cleared(r)'
    BY <1>2, <1>3, <1>4, <2>3
  <2>4. QED BY <1>1, <1>4, <2>1, <2>2, <2>3 DEF Cleaned
<1>5. {New, Starting, StopCluster, Restoring, Succeeded, Failed} \cap {StartCluster, PITR} = {}
  BY DEF New, Starting, StopCluster, Restoring, Succeeded, Failed, StartCluster, PITR
<1> USE DEF Alone, Refilled
<1>6. ASSUME NEW r \in Restores, Pick(r) PROVE Cleaned'
  BY <1>1, <1>4, <1>5, <1>6 DEF Pick
<1>7. CASE ListRestores \/ Prepare \/ Pause BY <1>4, <1>7 DEF ListRestores, Prepare, Pause, Fails
<1>8. CASE ReportPhase
  <2>1. PICK from, s, to :
          /\ Report(from, s, to)
          /\ \/ from = "stopping" /\ s = StopCluster /\ to = "pause"
             \/ from = "restoring" /\ s = Restoring /\ to = "launch"
             \/ from = "starting" /\ s = StartCluster /\ to = "getCluster"
             \/ from = "recovering" /\ s = PITR /\ to = "launchPITR"
    BY <1>8 DEF ReportPhase
  <2>2. /\ pc = from /\ pc' \in {to, "fail"} /\ cur' = cur
        /\ \A r \in Restores : state'[r] = state[r] \/ (r = cur /\ state'[r] = s)
    BY <1>1, <2>1 DEF Report, SetStatus, StatusLost
  <2>3. QED BY <1>4, <1>5, <2>1, <2>2
<1>9. CASE AwaitPodsDown \/ DropVolumes \/ AwaitVolumesDown
  BY <1>4, <1>9 DEF AwaitPodsDown, DropVolumes, AwaitVolumesDown, WaitFor, Fails
<1>10. CASE Launch BY <1>1, <1>4, <1>10 DEF Launch
<1>11. CASE AwaitSource BY <1>1, <1>4, <1>11 DEF AwaitSource
<1>12. CASE AwaitRestoreJob BY <1>1, <1>4, <1>12 DEF AwaitRestoreJob
<1>13. CASE GetCluster \/ Unpause BY <1>4, <1>13 DEF GetCluster, Unpause
<1>14. CASE AwaitReady \/ LaunchPITR \/ AwaitPITRJob
  BY <1>4, <1>14 DEF AwaitReady, WaitFor, Fails, LaunchPITR, AwaitPITRJob
<1>15. CASE Finish
  <2>1. /\ pc' = "idle"
        /\ \A r \in Restores : state'[r] = state[r] \/ state'[r] \in {Succeeded, Failed}
    BY <1>1, <1>15 DEF Finish, SetStatus, StatusLost
  <2>2. QED BY <1>4, <1>5, <2>1
<1>16. QED
  BY <1>6, <1>7, <1>8, <1>9, <1>10, <1>11, <1>12, <1>13, <1>14, <1>15 DEF Worker

LEMMA CleanedStep == AllInv /\ Cleaned /\ [Next]_vars => Cleaned'
<1> SUFFICES ASSUME AllInv, Cleaned, [Next]_vars PROVE Cleaned'
  OBVIOUS
<1>1. TypeOK /\ vol'[0] # "none" /\ 0 \notin doomed' BY FirstStays DEF AllInv, Inv
<1>2. CASE ~Undisturbed' BY <1>1, <1>2 DEF Cleaned
<1>3. CASE Undisturbed'
  <2>1. Undisturbed /\ ~ApiFails BY <1>1, <1>3, Calm
  <2>2. CASE Kubernetes BY <1>3, <2>1, <2>2, CleanedByKubernetes
  <2>3. CASE Worker BY <2>1, <2>3, CleanedByWorker
  <2>4. CASE Crash
    <3>1. vol' = vol /\ state' = state /\ pc' = "idle" BY <2>4 DEF Crash, kubernetes, Goto
    <3>2. QED BY <1>1, <2>1, <3>1 DEF Cleaned, Cleared, Alone, Refilled
  <2>5. CASE Reconciler \/ UNCHANGED vars
    <3>1. UNCHANGED <<vol, state, pc, cur, restoreJob>>
      BY <2>5 DEF Reconciler, ReadCluster, ScalePXC, WriteStatus, vars, worker, kubernetes, jobs
    <3>2. QED BY <1>1, <2>1, <3>1 DEF Cleaned, Cleared
  <2>6. ASSUME NEW r \in Restores, Create(r) \/ Delete(r) PROVE Cleaned'
    <3>1. UNCHANGED <<vol, pc, cur, restoreJob>> BY <2>6 DEF Create, Delete, worker, kubernetes, jobs
    <3>2. \A q \in Restores : state'[q] = state[q] \/ state'[q] \in {New, Gone}
      BY <1>1, <2>6 DEF Create, Delete, TypeOK
    <3>3. {New, Gone} \cap {StartCluster, PITR} = {} BY DEF New, Gone, StartCluster, PITR
    <3>4. QED BY <1>1, <2>1, <3>1, <3>2, <3>3 DEF Cleaned, Cleared
  <2>7. QED BY <2>2, <2>3, <2>4, <2>5, <2>6 DEF Next
<1>4. QED BY <1>2, <1>3

LEMMA CleanedInit == Init => Cleaned
BY OrdinalsType DEF Init, Cleaned, Alone, Refilled, Absent, StartCluster, PITR

\* Unless a call was refused, or a restore was deleted and the operator died as well,
\* a cluster that is started after a restore has no volume with what was there before
\* it, and none that a job left half-written.
THEOREM FreshVolumesAlways == Spec => []FreshVolumes
<1>1. AllInv /\ Cleaned => FreshVolumes BY DEF Cleaned, Cleared, FreshVolumes
<1>2. QED BY <1>1, AllInvInit, AllInvStep, CleanedInit, CleanedStep, PTL DEF Spec
-----------------------------------------------------------------------------
(* What a success stands for.                                               *)

Served   == {"recovering", "launchPITR", "pitrJob", "succeed"}
Restored == {"starting", "getCluster", "unpause", "ready"} \cup Served

\* A spec that is not paused asks for the configured size, as defaulting leaves it.
Configured ==
    /\ ~spec.pause => DefaultedSize(spec) = MaxPods
    /\ ~copy.pause => DefaultedSize(copy) = MaxPods

\* The cluster is what the spec asks for, and no pass is about to change that.
AsAsked ==
    /\ ready = pods /\ pods = replicas /\ replicas = DefaultedSize(spec)
    /\ rpc = "apply" => rsize = DefaultedSize(spec)

\* What the worker has waited for, is.
JobsAwaited ==
    /\ pc \in Restored /\ state[cur] # Gone => restoreJob[cur] = "done"
    /\ pc = "succeed" /\ state[cur] # Gone /\ plan[cur].pitr => pitrJob[cur] = "done"
SizeAwaited ==
    /\ observed /\ pxcReady /\ ~spec.pause => AsAsked
    /\ pc \in Served => observed /\ (~spec.pause => AsAsked)
    /\ pc \in Restored /\ Undisturbed /\ spec.pause => pods = 0

\* The default of the configured size is its own default.
LEMMA DefaultedTwice == \A s \in Specs : ~s.pause /\ s.size = MaxPods => DefaultedSize(s) = MaxPods
<1>1. MaxPods = IF AllowUnsafe THEN Size
                ELSE LET atLeast3 == IF Size < 3 THEN 3 ELSE Size
                     IN IF atLeast3 % 2 = 0 THEN atLeast3 + 1 ELSE atLeast3
  BY DEF MaxPods, DefaultedSize
<1>2. MaxPods \in Nat /\ (~AllowUnsafe => MaxPods >= 3 /\ MaxPods % 2 = 1)
  BY <1>1, SizeAssumption DEF SizeAssumption
<1>3. QED BY <1>2 DEF DefaultedSize

LEMMA ConfiguredStep == TypeOK /\ Configured /\ [Next]_vars => Configured'
<1> SUFFICES ASSUME TypeOK, Configured, [Next]_vars PROVE Configured'
  OBVIOUS
<1>1. spec \in Specs /\ copy \in Specs BY DEF TypeOK
<1>2. CASE Prepare
  <2>1. spec' = spec /\ (copy' = copy \/ copy' = [spec EXCEPT !.size = DefaultedSize(spec)])
    BY <1>2 DEF Prepare, cluster
  <2>2. CASE copy' = [spec EXCEPT !.size = DefaultedSize(spec)] /\ ~spec.pause
    <3>1. copy' \in Specs /\ ~copy'.pause /\ copy'.size = MaxPods
      BY <1>1, <2>2, DefaultedSizeType DEF Configured, Specs
    <3>2. DefaultedSize(copy') = MaxPods BY <3>1, DefaultedTwice
    <3>3. DefaultedSize(copy)' = DefaultedSize(copy') BY DEF DefaultedSize
    <3>4. DefaultedSize(spec)' = DefaultedSize(spec) BY <2>1 DEF DefaultedSize
    <3>5. QED BY <2>1, <3>2, <3>3, <3>4 DEF Configured
  <2>3. CASE copy' = [spec EXCEPT !.size = DefaultedSize(spec)] /\ spec.pause
    <3>1. copy'.pause BY <1>1, <2>3 DEF Specs
    <3>2. QED BY <2>1, <3>1 DEF Configured, DefaultedSize
  <2>4. CASE copy' = copy BY <2>1, <2>4 DEF Configured, DefaultedSize
  <2>5. QED BY <2>1, <2>2, <2>3, <2>4
<1>3. CASE Pause \/ Unpause
  <2>1. UNCHANGED copy /\ (\/ spec' = spec
                           \/ WriteSpec(copy) \/ WriteSpec([copy EXCEPT !.pause = TRUE]))
    BY <1>3, Zenon DEF Pause, Unpause, Fails, cluster
  <2>2. spec' = spec \/ spec' = copy \/ spec' = [copy EXCEPT !.pause = TRUE] BY <2>1, SpecWritten, Zenon
  <2>3. CASE spec' = [copy EXCEPT !.pause = TRUE]
    <3>1. spec'.pause BY <1>1, <2>3 DEF Specs
    <3>2. QED BY <2>1, <3>1 DEF Configured, DefaultedSize
  <2>4. QED BY <2>1, <2>2, <2>3 DEF Configured, DefaultedSize
<1>4. CASE UNCHANGED <<spec, copy>> BY <1>4 DEF Configured, DefaultedSize
<1>5. CASE Reconciler \/ Kubernetes \/ Crash
  BY <1>4, <1>5 DEF Reconciler, ReadCluster, ScalePXC, WriteStatus, Kubernetes, Kube, Crash, worker, cluster
<1>6. QED BY <1>2, <1>3, <1>4, <1>5, SizesAlone DEF sizes, Kubernetes

\* A cluster that is what its spec asks for stays so while the spec stays.
LEMMA AsAskedStays ==
    ASSUME TypeOK, Passed, Configured, ~spec.pause, AsAsked, [Next]_vars, spec' = spec
    PROVE  AsAsked'
<1>1. /\ replicas \in Nat /\ pods \in Nat /\ ready \in Nat /\ pods <= MaxPods /\ MaxPods \in Nat
      /\ DefaultedSize(spec) = MaxPods /\ DefaultedSize(spec)' = DefaultedSize(spec)
  BY DefaultedSizeType DEF TypeOK, Configured, DefaultedSize
<1> USE DEF AsAsked
<1>2. CASE Reconciler
  <2>1. CASE ReadCluster BY <1>1, <2>1 DEF ReadCluster, kubernetes
  <2>2. CASE ScalePXC BY <1>1, <2>2 DEF ScalePXC
  <2>3. CASE WriteStatus BY <1>1, <2>3 DEF WriteStatus, kubernetes
  <2>4. QED BY <1>2, <2>1, <2>2, <2>3 DEF Reconciler
<1>3. CASE Kube(StartPod) \/ Kube(PodReady) \/ Kube(StopPod)
  BY <1>1, <1>3 DEF Kube, StartPod, PodReady, StopPod
<1>4. CASE Prepare \/ Pause \/ Unpause \/ Crash
  BY <1>1, <1>4 DEF Prepare, Pause, Unpause, Fails, Crash, reconciler, kubernetes
<1>5. CASE UNCHANGED sizes BY <1>1, <1>5 DEF sizes
<1>6. QED BY <1>2, <1>3, <1>4, <1>5, SizesAlone

LEMMA SizeAwaitedStep == AllInv /\ Configured /\ SizeAwaited /\ [Next]_vars => SizeAwaited'
<1> SUFFICES ASSUME AllInv, Configured, SizeAwaited, [Next]_vars PROVE SizeAwaited'
  OBVIOUS
<1> USE DEF Goto
<1>1. /\ Inv /\ TypeOK /\ Passed /\ Scaled /\ Stopped
      /\ replicas \in Nat /\ pods \in Nat /\ ready \in Nat /\ pods <= MaxPods /\ MaxPods \in Nat
      /\ replicas <= MaxPods
  BY DefaultedSizeType DEF AllInv, Inv, TypeOK
<1>2. /\ observed /\ pxcReady /\ ~spec.pause => AsAsked
      /\ pc \in Served => observed /\ (~spec.pause => AsAsked)
      /\ pc \in Restored /\ Undisturbed /\ spec.pause => pods = 0
  BY DEF SizeAwaited
<1>3. CASE Pause
  <2>1. pc' \in {"podsDown", "fail"} BY <1>3 DEF Pause, Fails
  <2>2. pc' \notin Restored /\ pc' \notin Served BY <2>1 DEF Restored, Served
  <2>3. observed' /\ pxcReady' => observed /\ pxcReady /\ spec' = spec
    BY <1>3, SpecWritten, Zenon DEF Pause, Fails, cluster
  <2>4. observed' /\ pxcReady' /\ ~spec'.pause => AsAsked' BY <1>1, <1>2, <2>3, AsAskedStays
  <2>5. QED BY <2>2, <2>4 DEF SizeAwaited
<1>4. CASE Unpause
  <2>1. pc = "unpause" /\ pc' \in {"ready", "getCluster", "fail"} /\ pods' = pods
    BY <1>4 DEF Unpause, kubernetes
  <2>2. pc' \notin Served /\ pc \in Restored BY <2>1 DEF Restored, Served
  <2>3. observed' /\ pxcReady' => observed /\ pxcReady /\ spec' = spec
    BY <1>4, SpecWritten, Zenon DEF Unpause, cluster
  <2>4. observed' /\ pxcReady' /\ ~spec'.pause => AsAsked' BY <1>1, <1>2, <2>3, AsAskedStays
  <2>5. Undisturbed' => pods = 0
    <3>1. SUFFICES ASSUME Undisturbed' PROVE pods = 0
      OBVIOUS
    <3>2. Undisturbed BY <1>1, <3>1, Calm
    <3>3. spec.pause BY <1>1, <2>1, <3>2 DEF Stopped, Pausing
    <3>4. QED BY <1>2, <2>2, <3>2, <3>3
  <2>6. QED BY <2>1, <2>2, <2>4, <2>5 DEF SizeAwaited
<1>5. CASE WriteStatus
  <2>1. /\ rpc = "status" /\ rpc' = "idle" /\ replicas = rsize
        /\ UNCHANGED <<spec, pods, replicas, ready, pc>>
    BY <1>1, <1>5 DEF WriteStatus, kubernetes, worker, Passed
  <2>2. CASE rfresh
    <3>1. observed' /\ (pxcReady' => ready = rsize) BY <1>5, <2>2, Zenon DEF WriteStatus
    <3>2. rsize = DefaultedSize(spec) /\ ready <= pods BY <1>1, <2>1, <2>2 DEF Passed
    <3>3. DefaultedSize(spec)' = DefaultedSize(spec) BY <2>1 DEF DefaultedSize
    <3>4. ~spec.pause /\ pxcReady' => AsAsked'
      BY <1>1, <2>1, <3>1, <3>2, <3>3 DEF AsAsked, Configured
    <3>5. ~spec.pause /\ AsAsked => AsAsked' BY <1>1, <2>1, AsAskedStays
    <3>6. Undisturbed' => Undisturbed BY <1>1, Calm
    <3>7. QED BY <1>2, <2>1, <3>1, <3>4, <3>5, <3>6 DEF SizeAwaited
  <2>3. CASE ~rfresh
    <3>1. UNCHANGED <<observed, pxcReady>> BY <1>5, <2>3 DEF WriteStatus
    <3>2. ~spec.pause /\ AsAsked => AsAsked' BY <1>1, <2>1, AsAskedStays
    <3>3. Undisturbed' => Undisturbed BY <1>1, Calm
    <3>4. QED BY <1>2, <2>1, <3>1, <3>2, <3>3 DEF SizeAwaited
  <2>4. QED BY <2>2, <2>3
<1>6. ASSUME UNCHANGED <<spec, observed, pxcReady>>,
             pc' \in Served => pc \in Served \/ (observed /\ pxcReady),
             pc' \in Restored => pc \in Restored \/ pc = "restoreJob",
             Undisturbed /\ spec.pause /\ pods = 0 => pods' = 0
      PROVE  SizeAwaited'
  <2>1. ~spec.pause /\ AsAsked => AsAsked' BY <1>1, <1>6, AsAskedStays
  <2>2. Undisturbed' => Undisturbed BY <1>1, Calm
  <2>3. Undisturbed /\ pc = "restoreJob" => pods = 0 BY <1>1 DEF Stopped, Emptied
  <2>4. QED BY <1>2, <1>6, <2>1, <2>2, <2>3 DEF SizeAwaited
<1>7. CASE Kubernetes
  <2>1. UNCHANGED <<spec, observed, pxcReady, pc>> BY <1>7 DEF Kubernetes, Kube, worker, cluster
  <2>2. Undisturbed /\ spec.pause /\ pods = 0 => pods' = 0
    <3>1. Undisturbed /\ spec.pause /\ pods = 0 => replicas = 0 BY <1>1 DEF Scaled, Down
    <3>2. \/ pods < replicas
          \/ pods' = pods
          \/ pods > replicas
      BY <1>7
         DEF Kubernetes, Kube, StartPod, PodReady, StopPod, RemoveVolume, SourceRuns,
             RestoreJobEnds, PITRJobEnds, CollectGarbage, kubernetes
    <3>3. QED BY <3>1, <3>2
  <2>3. QED BY <1>6, <2>1, <2>2
<1>8. CASE Worker /\ ~Pause /\ ~Unpause
  <2>1. UNCHANGED <<spec, observed, pxcReady, pods>>
    BY <1>8
       DEF Worker, Pick, ListRestores, Prepare, ReportPhase, Report, AwaitPodsDown, AwaitVolumesDown, AwaitReady,
           WaitFor, Fails, DropVolumes, Launch, AwaitSource, AwaitRestoreJob, GetCluster, LaunchPITR,
           AwaitPITRJob, Finish, cluster, kubernetes
  <2> DEFINE Follows == /\ pc' \in Served => pc \in Served \/ (observed /\ pxcReady)
                        /\ pc' \in Restored => pc \in Restored \/ pc = "restoreJob"
  <2>2. Follows
    <3> USE DEF Served, Restored
    <3>1. ASSUME NEW r \in Restores, Pick(r) PROVE Follows BY <3>1 DEF Pick
    <3>2. CASE ListRestores \/ Prepare \/ Finish BY <3>2 DEF ListRestores, Prepare, Finish
    <3>3. CASE ReportPhase BY <3>3 DEF ReportPhase, Report
    <3>4. CASE AwaitPodsDown \/ AwaitVolumesDown \/ AwaitReady
      BY <3>4 DEF AwaitPodsDown, AwaitVolumesDown, AwaitReady, WaitFor, Fails
    <3>5. CASE DropVolumes \/ Launch \/ AwaitSource \/ AwaitRestoreJob
      BY <3>5 DEF DropVolumes, Launch, AwaitSource, AwaitRestoreJob
    <3>6. CASE GetCluster \/ LaunchPITR \/ AwaitPITRJob
      BY <3>6 DEF GetCluster, LaunchPITR, AwaitPITRJob
    <3>7. QED BY <1>8, <3>1, <3>2, <3>3, <3>4, <3>5, <3>6 DEF Worker
  <2>3. QED BY <1>6, <2>1, <2>2
<1>9. CASE ReadCluster \/ ScalePXC \/ UNCHANGED vars
  BY <1>6, <1>9 DEF ReadCluster, ScalePXC, vars, worker, cluster, kubernetes
<1>10. CASE Crash
  <2>1. UNCHANGED <<spec, observed, pxcReady, pods>> /\ pc' = "idle" BY <1>10 DEF Crash, cluster, kubernetes
  <2>2. QED BY <1>6, <2>1 DEF Served, Restored
<1>11. ASSUME NEW r \in Restores, Create(r) \/ Delete(r) PROVE SizeAwaited'
  BY <1>6, <1>11 DEF Create, Delete, worker, cluster, kubernetes
<1>12. QED
  BY <1>3, <1>4, <1>5, <1>7, <1>8, <1>9, <1>10, <1>11 DEF Next, Reconciler

LEMMA JobsAwaitedStep == Inv /\ JobsAwaited /\ [Next]_vars => JobsAwaited'
<1> SUFFICES ASSUME Inv, JobsAwaited, [Next]_vars PROVE JobsAwaited'
  OBVIOUS
<1> USE DEF Goto
<1>1. /\ TypeOK /\ state \in [Restores -> States] /\ (pc # "idle" => cur \in Restores)
      /\ restoreJob \in [Restores -> {"none", "active", "done", "failed"}]
      /\ pitrJob \in [Restores -> {"none", "active", "done", "failed"}]
  BY DEF Inv, TypeOK
<1>2. "succeed" \in Restored /\ "idle" \notin Restored BY DEF Restored, Served
<1>3. ASSUME plan' = plan,
             pc' \in Restored => /\ cur' = cur /\ (state'[cur] # Gone => state[cur] # Gone)
                                 /\ state[cur] # Gone /\ restoreJob[cur] = "done" => restoreJob'[cur] = "done"
                                 /\ pc \in Restored \/ restoreJob[cur] = "done",
             pc' = "succeed" => /\ state[cur] # Gone /\ pitrJob[cur] = "done" => pitrJob'[cur] = "done"
                                /\ pc = "succeed" \/ ~plan[cur].pitr \/ pitrJob[cur] = "done"
      PROVE  JobsAwaited'
  BY <1>2, <1>3 DEF JobsAwaited
<1> USE DEF Restored, Served
<1>4. CASE Worker
  <2>1. ASSUME NEW r \in Restores, Pick(r) PROVE JobsAwaited' BY <1>3, <2>1 DEF Pick
  <2>2. CASE ListRestores \/ Prepare \/ Pause BY <1>3, <2>2 DEF ListRestores, Prepare, Pause, Fails, jobs
  <2>3. CASE ReportPhase
    <3>1. PICK from, s, to :
            /\ Report(from, s, to)
            /\ \/ from = "stopping" /\ to = "pause"
               \/ from = "restoring" /\ to = "launch"
               \/ from = "starting" /\ to = "getCluster"
               \/ from = "recovering" /\ to = "launchPITR"
      BY <2>3 DEF ReportPhase
    <3>2. /\ pc = from /\ pc' \in {to, "fail"} /\ cur' = cur /\ UNCHANGED <<plan, restoreJob, pitrJob>>
          /\ state'[cur] # Gone => state[cur] # Gone
      BY <1>1, <3>1 DEF Report, SetStatus, StatusLost, jobs
    <3>3. QED BY <1>3, <3>1, <3>2
  <2>4. CASE AwaitPodsDown \/ DropVolumes \/ AwaitVolumesDown
    BY <1>3, <2>4 DEF AwaitPodsDown, DropVolumes, AwaitVolumesDown, WaitFor, Fails, jobs
  <2>5. CASE Launch \/ AwaitSource BY <1>3, <2>5 DEF Launch, AwaitSource
  <2>6. CASE AwaitRestoreJob BY <1>3, <2>6 DEF AwaitRestoreJob
  <2>7. CASE GetCluster \/ Unpause BY <1>3, <2>7 DEF GetCluster, Unpause, jobs
  <2>8. CASE AwaitReady BY <1>3, <2>8 DEF AwaitReady, WaitFor, Fails, jobs
  <2>9. CASE LaunchPITR \/ AwaitPITRJob BY <1>3, <2>9 DEF LaunchPITR, AwaitPITRJob, jobs
  <2>10. CASE Finish BY <1>3, <2>10 DEF Finish
  <2>11. QED
    BY <1>4, <2>1, <2>2, <2>3, <2>4, <2>5, <2>6, <2>7, <2>8, <2>9, <2>10 DEF Worker
<1>5. CASE Kubernetes
  <2>1. UNCHANGED <<plan, pc, cur, state>> BY <1>5 DEF Kubernetes, Kube, worker
  <2>2. \A q \in Restores : state[q] # Gone =>
          /\ restoreJob[q] = "done" => restoreJob'[q] = "done"
          /\ pitrJob[q] = "done" => pitrJob'[q] = "done"
    BY <1>1, <1>5
       DEF Kubernetes, Kube, jobs, StartPod, PodReady, StopPod, RemoveVolume, SourceRuns, Writing,
           RestoreJobEnds, PITRJobEnds, CollectGarbage
  <2>3. QED BY <1>1, <1>3, <2>1, <2>2
<1>6. CASE Reconciler \/ UNCHANGED vars
  BY <1>3, <1>6 DEF Reconciler, ReadCluster, ScalePXC, WriteStatus, vars, worker, jobs
<1>7. CASE Crash BY <1>3, <1>7 DEF Crash
<1>8. ASSUME NEW r \in Restores, Create(r) \/ Delete(r) PROVE JobsAwaited'
  <2>1. /\ UNCHANGED <<plan, pc, cur, restoreJob, pitrJob>>
        /\ \A q \in Restores : state'[q] # Gone => state[q] # Gone
    BY <1>1, <1>8 DEF Create, Delete, worker, jobs, Absent, Gone
  <2>2. QED BY <1>1, <1>3, <2>1
<1>9. QED BY <1>4, <1>5, <1>6, <1>7, <1>8 DEF Next

Awaited == AllInv /\ Configured /\ SizeAwaited /\ JobsAwaited

LEMMA AwaitedInit == Init => Awaited
<1> SUFFICES ASSUME Init PROVE Awaited
  OBVIOUS
<1>1. AllInv BY AllInvInit
<1>2. Configured BY DEF Init, Configured, MaxPods
<1>3. SizeAwaited BY DEF Init, SizeAwaited, AsAsked, Served, Restored, MaxPods
<1>4. JobsAwaited BY DEF Init, JobsAwaited, Served, Restored
<1>5. QED BY <1>1, <1>2, <1>3, <1>4 DEF Awaited

LEMMA AwaitedStep == Awaited /\ [Next]_vars => Awaited'
BY AllInvStep, ConfiguredStep, SizeAwaitedStep, JobsAwaitedStep DEF Awaited, AllInv, Inv

\* Success is reported of the restore in hand, at the end.
LEMMA SuccessReported ==
    ASSUME Inv, [Next]_vars, NEW r \in Restores, state[r] # Succeeded, state'[r] = Succeeded
    PROVE  pc = "succeed" /\ r = cur /\ state[r] # Gone
<1>1. /\ state \in [Restores -> States]
      /\ Succeeded \notin {New, Gone, Starting, StopCluster, Restoring, StartCluster, PITR, Failed}
  BY DEF Inv, TypeOK, Succeeded, New, Gone, Starting, StopCluster, Restoring, StartCluster, PITR, Failed
<1>2. ASSUME NEW q \in Restores, Pick(q) \/ Create(q) \/ Delete(q) PROVE FALSE
  BY <1>1, <1>2 DEF Pick, Create, Delete
<1>3. CASE ListRestores \/ Crash \/ Proceeds \/ UNCHANGED vars
  BY <1>3 DEF ListRestores, Crash, Proceeds, vars
<1>4. CASE ReportPhase BY <1>1, <1>4 DEF ReportPhase, Report, SetStatus, StatusLost
<1>5. CASE Finish BY <1>1, <1>5 DEF Finish, SetStatus, StatusLost
<1>6. QED BY <1>2, <1>3, <1>4, <1>5, MostStepsProceed

\* A restore that is reported Succeeded has its jobs done, and the cluster is what
\* its spec asks for: whatever fails and however often, where that is any pods;
\* where it is none, unless a call was refused, or a restore was deleted and the
\* operator died as well.
THEOREM SuccessAlwaysComplete == Spec => SuccessIsComplete
<1>1. ASSUME Awaited, [Next]_vars
      PROVE  [\A r \in Restores : state[r] # Succeeded /\ state'[r] = Succeeded =>
                /\ restoreJob[r] = "done" /\ (plan[r].pitr => pitrJob[r] = "done")
                /\ observed /\ ((spec.pause => Undisturbed) => ready = DefaultedSize(spec))]_vars
  <2>1. SUFFICES ASSUME NEW r \in Restores, state[r] # Succeeded, state'[r] = Succeeded
                 PROVE  /\ restoreJob[r] = "done" /\ (plan[r].pitr => pitrJob[r] = "done")
                        /\ observed /\ ((spec.pause => Undisturbed) => ready = DefaultedSize(spec))
    OBVIOUS
  <2>2. Inv BY <1>1 DEF Awaited, AllInv
  <2>3. pc = "succeed" /\ r = cur /\ state[r] # Gone BY <1>1, <2>1, <2>2, SuccessReported
  <2>4. pc \in Served /\ pc \in Restored BY <2>3 DEF Served, Restored
  <2>5. restoreJob[r] = "done" /\ (plan[r].pitr => pitrJob[r] = "done")
    BY <1>1, <2>3, <2>4 DEF Awaited, JobsAwaited
  <2>6. observed /\ (~spec.pause => AsAsked) /\ (Undisturbed /\ spec.pause => pods = 0)
    BY <1>1, <2>4 DEF Awaited, SizeAwaited
  <2>7. CASE ~spec.pause BY <2>5, <2>6, <2>7 DEF AsAsked
  <2>8. CASE spec.pause
    <3>1. DefaultedSize(spec) = 0 BY <2>8 DEF DefaultedSize
    <3>2. pods = 0 => ready = 0
      BY <1>1, <2>2, DefaultedSizeType DEF Awaited, AllInv, Passed, Inv, TypeOK
    <3>3. QED BY <2>5, <2>6, <2>8, <3>1, <3>2
  <2>9. QED BY <2>7, <2>8
<1>2. QED BY <1>1, AwaitedInit, AwaitedStep, PTL DEF Spec, SuccessIsComplete
=============================================================================
