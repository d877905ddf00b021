------------------------ MODULE VersionJobs_proofs ------------------------
(***************************************************************************)
(* What holds of passes and jobs for any pods, versions and schedules, and *)
(* any number of edits and mishaps.                                        *)
(***************************************************************************)
EXTENDS VersionJobs, TLAPS

\* Whoever holds the mutex is a pass or a job, and says which.
LEMMA HolderKinds ==
    ASSUME TypeOK
    PROVE  /\ holder = Nobody => holder.who = "none"
           /\ holder \in Passes => holder.who = "pass"
           /\ holder \in Jobs => holder.who = "job"
           /\ holder # Nobody /\ holder.who = "pass" => holder \in Passes
           /\ holder # Nobody /\ holder.who = "job" => holder \in Jobs /\ updateSync = "wait"
           /\ holder # Nobody => holder \in Passes \cup Jobs
BY DEF TypeOK, Nobody, None, Passes, Jobs

\* Returning keeps the holder one of the three.
LEMMA ReturnType ==
    ASSUME NEW h \in Passes \cup Jobs
    PROVE  /\ h \in Passes => Return(h) \in Passes /\ Return(h) = [h EXCEPT !.pc = "deploy"]
           /\ h \in Jobs => Return(h) = Nobody
BY DEF Return, Passes, Jobs, Asking

\* Who stored the versions, or failed, returns: a pass or a job, with the object
\* it was given or a later one.
LEMMA AskerReturns ==
    ASSUME TypeOK, StoreVersions \/ AskFails
    PROVE  /\ holder \in Passes \cup Jobs
           /\ holder \in Passes => \E h \in Passes : holder' = Return(h)
           /\ holder \in Jobs => \E h \in Jobs : holder' = Return(h)
           /\ object' \in Objects
<1>1. holder \in Passes \cup Jobs BY HolderKinds DEF StoreVersions, AskFails, Asks
<1>2. ASSUME NEW o \in Objects PROVE Reported(o) \in Objects
  <2>1. holder.cr.image \in Versions BY <1>1 DEF Passes, Jobs, Objects
  <2>2. QED BY <2>1 DEF Reported, Objects, Statuses, Image
<1>3. object' \in Objects
  <2>1. CASE StoreVersions BY <1>2, <2>1 DEF StoreVersions, TypeOK
  <2>2. CASE AskFails BY <2>2 DEF AskFails, TypeOK
  <2>3. QED BY <2>1, <2>2
<1>4. ASSUME NEW o \in Objects, NEW cr \in Objects
      PROVE  /\ holder \in Passes => [holder EXCEPT !.read = o, !.cr = cr] \in Passes
             /\ holder \in Jobs => [holder EXCEPT !.read = o, !.cr = cr] \in Jobs
  BY <1>4 DEF Passes, Jobs
<1>5. \E h : /\ h = holder \/ \E o, cr \in Objects : h = [holder EXCEPT !.read = o, !.cr = cr]
             /\ holder' = Return(h)
  <2>1. CASE StoreVersions BY <1>3, <2>1 DEF StoreVersions
  <2>2. CASE AskFails
    <3>1. holder.read \in Objects /\ object \in Objects BY <1>1 DEF TypeOK, Passes, Jobs
    <3>2. QED BY <1>2, <2>2, <3>1 DEF AskFails
  <2>3. QED BY <2>1, <2>2
<1>6. QED BY <1>1, <1>3, <1>4, <1>5

LEMMA TypeInit == Init => TypeOK
<1> SUFFICES ASSUME Init PROVE TypeOK
  OBVIOUS
<1>1. (CHOOSE s \in Schedules : TRUE) \in Schedules BY SchedulesAssumption
<1>2. QED
  BY <1>1, DefaultAssumption, BoundsAssumption
     DEF Init, TypeOK, Objects, Statuses, Image, None

\* A step keeps the type invariant.
LEMMA TypeStep == TypeOK /\ [Next]_vars => TypeOK'
<1> SUFFICES ASSUME TypeOK, [Next]_vars PROVE TypeOK'
  OBVIOUS
<1> USE DEF kubernetes
<1>0. MaxEdits \in Nat /\ MaxMishaps \in Nat BY BoundsAssumption
<1>1. CASE Ask
  <2>1. holder \in Passes \cup Jobs BY <1>1, HolderKinds DEF Ask, Asks
  <2>2. holder \in Passes => [At("store") EXCEPT !.cr.image = recommended] \in Passes
    BY DEF TypeOK, At, Passes, Objects, Asking
  <2>3. holder \in Jobs => [At("store") EXCEPT !.cr.image = recommended] \in Jobs
    BY DEF TypeOK, At, Jobs, Objects, Asking
  <2>4. QED BY <1>1, <2>1, <2>2, <2>3, ReturnType, HolderKinds DEF Ask, TypeOK
<1>2. CASE StoreImages
  <2>1. holder \in Passes \cup Jobs BY <1>2, HolderKinds DEF StoreImages, Asks
  <2>2. holder \in Passes => At("report") \in Passes BY DEF At, Passes, Asking
  <2>3. holder \in Jobs => At("report") \in Jobs BY DEF At, Jobs, Asking
  <2>4. Stored(holder.cr) \in Objects
    BY <2>1 DEF TypeOK, Stored, Passes, Jobs, Objects, Statuses
  <2>5. QED BY <1>2, <2>1, <2>2, <2>3, <2>4, ReturnType, HolderKinds DEF StoreImages, TypeOK
<1>3. CASE StoreVersions
  BY <1>3, AskerReturns, ReturnType DEF StoreVersions, TypeOK
<1>4. CASE AskFails
  BY <1>0, <1>4, AskerReturns, ReturnType DEF AskFails, Mishap, TypeOK
<1>5. CASE Begin
  <2>1. CASE object.exists
    <3>1. \E pc \in {"ask", "deploy"} :
            holder' = [who |-> "pass", pc |-> pc, read |-> object, cr |-> object, err |-> FALSE]
      BY <1>5, <2>1 DEF Begin
    <3>2. holder' \in Passes BY <3>1 DEF TypeOK, Passes, Asking
    <3>3. QED BY <1>5, <2>1, <3>2 DEF Begin, TypeOK
  <2>2. CASE ~object.exists
    <3>1. history' \in [passed: BOOLEAN, blind: BOOLEAN, early: BOOLEAN]
      BY <1>5, <2>2 DEF Begin, TypeOK
    <3>2. QED BY <1>5, <2>2, <3>1 DEF Begin, TypeOK
  <2>3. QED BY <2>1, <2>2
<1>6. CASE Deploy
  <2>1. holder \in Passes BY <1>6, HolderKinds DEF Deploy, Holds
  <2>2. At("fetch") \in Passes BY <2>1 DEF At, Passes
  <2>3. set' \in [template: Image, seen: BOOLEAN]
    BY <1>6, <2>1 DEF Deploy, TypeOK, Passes, Objects, Image
  <2>4. QED BY <1>6, <2>2, <2>3 DEF Deploy, TypeOK
<1>7. CASE FetchVersion
  <2>1. holder \in Passes BY <1>7, HolderKinds DEF FetchVersion, Holds
  <2>2. At("schedule") \in Passes /\ At("end") \in Passes BY <2>1 DEF At, Passes
  <2>3. ASSUME NEW p \in Pods,
               object' = [object EXCEPT !.status.version = pods[p], !.status.image = holder.cr.image]
        PROVE  /\ object' \in Objects
               /\ [At("schedule") EXCEPT !.read = object', !.cr.status = object'.status] \in Passes
    <3>1. object' \in Objects BY <2>1, <2>3 DEF TypeOK, Passes, Objects, Statuses, Image
    <3>2. QED BY <2>2, <3>1 DEF Passes, Objects
  <2>4. CASE UNCHANGED <<object, history>> /\ (holder' = At("schedule") \/ holder' = At("end"))
    BY <1>7, <2>2, <2>4 DEF FetchVersion, TypeOK
  <2>5. CASE ~UNCHANGED <<object, history>> \/ ~(holder' = At("schedule") \/ holder' = At("end"))
    <3>1. PICK p \in Pods :
            /\ object' = [object EXCEPT !.status.version = pods[p], !.status.image = holder.cr.image]
            /\ holder' = [At("schedule") EXCEPT !.read = object', !.cr.status = object'.status]
            /\ history' = [history EXCEPT !.early = @ \/ ~set.seen]
      BY <1>7, <2>5 DEF FetchVersion
    <3>2. history' \in [passed: BOOLEAN, blind: BOOLEAN, early: BOOLEAN] BY <3>1 DEF TypeOK
    <3>3. QED BY <1>7, <2>3, <3>1, <3>2 DEF FetchVersion, TypeOK
  <2>6. QED BY <2>4, <2>5
<1>8. CASE Schedule
  <2>1. holder \in Passes BY <1>8, HolderKinds DEF Schedule, Holds
  <2>2. At("end") \in Passes BY <2>1 DEF At, Passes
  <2>3. job' \in Schedules \cup {None}
    BY <1>8, <2>1 DEF Schedule, Wanted, Passes, Objects
  <2>4. QED BY <1>8, <2>2, <2>3 DEF Schedule, TypeOK
<1>9. CASE PassFails
  <2>1. holder \in Passes BY <1>9, HolderKinds DEF PassFails, Holds
  <2>2. [At("end") EXCEPT !.err = TRUE] \in Passes BY <2>1 DEF At, Passes
  <2>3. QED BY <1>0, <1>9, <2>2 DEF PassFails, Mishap, TypeOK
<1>10. CASE EndPass \/ StatusLost
  <2>1. PICK w \in BOOLEAN : End(w) /\ (UNCHANGED mishaps \/ Mishap)
    BY <1>10 DEF EndPass, StatusLost
  <2>2. holder \in Passes BY <2>1, HolderKinds DEF End, Holds
  <2>3. StatusOf(holder.cr) \in Statuses
    BY <2>2 DEF StatusOf, Passes, Objects, Statuses, PodsReady, UpgradeInProgress
  <2>4. object' \in Objects BY <2>1, <2>3 DEF End, TypeOK, Objects
  <2>5. history' \in [passed: BOOLEAN, blind: BOOLEAN, early: BOOLEAN] BY <2>1 DEF End, TypeOK
  <2>6. QED BY <1>0, <2>1, <2>4, <2>5 DEF End, Mishap, TypeOK
<1>11. CASE JobFires
  BY <1>11 DEF JobFires, TypeOK, Jobs, Asking
<1>12. CASE Dies \/ Edit \/ Release \/ Kubernetes
  <2>1. CASE Dies BY <1>0, <1>12, <2>1 DEF Dies, Mishap, TypeOK
  <2>2. CASE Edit
    <3>1. [object.status EXCEPT !.observed = FALSE] \in Statuses
      BY DEF TypeOK, Objects, Statuses
    <3>2. \A o \in Objects : [o EXCEPT !.exists = FALSE] \in Objects BY DEF Objects
    <3>3. \A v \in Versions :
            [object EXCEPT !.image = v, !.status.observed = FALSE] \in Objects
      BY <3>1 DEF TypeOK, Objects
    <3>4. \A c \in Schedules \cup {"never"} :
            [object EXCEPT !.schedule = c, !.status.observed = FALSE] \in Objects
      BY <3>1 DEF TypeOK, Objects
    <3>5. object' \in Objects BY <2>2, <3>2, <3>3, <3>4 DEF Edit, TypeOK
    <3>6. EditOne BY <2>2 DEF Edit
    <3>7. edits' \in 0 .. MaxEdits BY <1>0, <3>6 DEF EditOne, TypeOK
    <3>8. QED BY <2>2, <3>5, <3>7 DEF Edit, TypeOK
  <2>3. CASE Release
    <3>1. edits' \in 0 .. MaxEdits BY <1>0, <2>3 DEF Release, EditOne, TypeOK
    <3>2. QED BY <2>3, <3>1 DEF Release, TypeOK
  <2>4. CASE Kubernetes
    <3>1. set' \in [template: Image, seen: BOOLEAN] /\ pods' \in [Pods -> Image]
      BY <2>4 DEF Kubernetes, TypeOK, Image
    <3>2. QED BY <2>4, <3>1 DEF Kubernetes, TypeOK
  <2>5. QED BY <1>12, <2>1, <2>2, <2>3, <2>4
<1>13. CASE UNCHANGED vars
  BY <1>13 DEF vars, TypeOK
<1>14. QED
  BY <1>1, <1>2, <1>3, <1>4, <1>5, <1>6, <1>7, <1>8, <1>9, <1>10, <1>11, <1>12, <1>13
     DEF Next, Operator

\* The type invariant, in every reachable state.
THEOREM TypeCorrect == Spec => []TypeOK
<1>1. Init => TypeOK BY TypeInit
<1>2. TypeOK /\ [Next]_vars => TypeOK' BY TypeStep
<1>3. QED BY <1>1, <1>2, PTL DEF Spec
-----------------------------------------------------------------------------
(* Jobs and passes.                                                         *)

\* While a job may change the object there was a pass since the last that did,
\* and no job is due before there was one.
Alternate ==
    /\ holder.who = "job" /\ holder.pc # "report" => history.passed
    /\ ~history.passed => updateSync = "wait" \/ job = None \/ holder.who = "pass"

LEMMA AlternateInit == Init => Alternate
BY DEF Init, Alternate, Nobody, None

\* Only the job, the deferred calls of a pass and the end of the process touch
\* what Alternate says.
LEMMA AlternateStep == TypeOK /\ Alternate /\ [Next]_vars => Alternate'
<1> SUFFICES ASSUME TypeOK, Alternate, [Next]_vars PROVE Alternate'
  OBVIOUS
<1>1. CASE Ask
  <2>1. holder \in Passes \cup Jobs BY <1>1, HolderKinds DEF Ask, Asks
  <2>2. CASE holder \in Passes
    <3>1. holder'.who = "pass" BY <1>1, <2>2, ReturnType DEF Ask, At, Passes
    <3>2. QED BY <3>1 DEF Alternate
  <2>3. CASE holder \in Jobs
    <3>1. history.passed BY <1>1, <2>3 DEF Alternate, Ask, Asks, Jobs
    <3>2. QED BY <1>1, <3>1 DEF Alternate, Ask
  <2>4. QED BY <2>1, <2>2, <2>3
<1>2. CASE StoreImages
  <2>1. holder \in Passes \cup Jobs BY <1>2, HolderKinds DEF StoreImages, Asks
  <2>2. CASE holder \in Passes
    <3>1. holder'.who = "pass" BY <1>2, <2>2, ReturnType DEF StoreImages, At, Passes
    <3>2. QED BY <3>1 DEF Alternate
  <2>3. CASE holder \in Jobs
    <3>1. updateSync' = "wait" BY <1>2, <2>3, HolderKinds DEF StoreImages, TypeOK, Passes, Jobs, Nobody
    <3>2. holder' = Nobody \/ holder'.pc = "report"
      BY <1>2, <2>3, ReturnType DEF StoreImages, At, Jobs
    <3>3. QED BY <3>1, <3>2 DEF Alternate, Nobody, None
  <2>4. QED BY <2>1, <2>2, <2>3
<1>3. CASE StoreVersions \/ AskFails
  <2>1. holder \in Passes \cup Jobs BY <1>3, AskerReturns
  <2>2. CASE holder \in Passes
    <3>1. holder'.who = "pass" BY <1>3, <2>2, AskerReturns, ReturnType DEF Passes
    <3>2. QED BY <3>1 DEF Alternate
  <2>3. CASE holder \in Jobs
    <3>1. holder'.who = "none" BY <1>3, <2>3, AskerReturns, ReturnType DEF Nobody, None
    <3>2. updateSync = "wait" BY <2>3, HolderKinds DEF Jobs, Nobody, None
    <3>3. updateSync' = "wait" BY <1>3, <3>2 DEF StoreVersions, AskFails
    <3>4. QED BY <3>1, <3>3 DEF Alternate
  <2>4. QED BY <2>1, <2>2, <2>3
<1>4. CASE Begin
  BY <1>4 DEF Begin, Alternate, TypeOK, Nobody, None
<1>5. CASE Deploy \/ FetchVersion \/ Schedule \/ PassFails
  <2>1. holder \in Passes
    BY <1>5, HolderKinds DEF Deploy, FetchVersion, Schedule, PassFails, Holds
  <2>2. holder'.who = "pass"
    BY <1>5, <2>1 DEF Deploy, FetchVersion, Schedule, PassFails, At, Passes
  <2>3. QED BY <2>2 DEF Alternate
<1>6. CASE EndPass \/ StatusLost
  <2>1. history'.passed BY <1>6 DEF EndPass, StatusLost, End, TypeOK
  <2>2. QED BY <2>1 DEF Alternate
<1>7. CASE JobFires
  <2>1. history.passed BY <1>7 DEF JobFires, Alternate, Nobody, None
  <2>2. QED BY <1>7, <2>1 DEF JobFires, Alternate
<1>8. CASE Dies
  BY <1>8 DEF Dies, Alternate, Nobody, None
<1>9. CASE Edit \/ Release \/ Kubernetes \/ UNCHANGED vars
  BY <1>9 DEF Edit, Release, Kubernetes, Alternate, vars
<1>10. QED BY <1>1, <1>2, <1>3, <1>4, <1>5, <1>6, <1>7, <1>8, <1>9 DEF Next, Operator

\* Between two jobs that change the object there is a pass: no job gets to
\* where it stores without one since the last that did.
THEOREM JobsStayApart == Spec => JobsApart
<1>1. Init => TypeOK /\ Alternate BY TypeInit, AlternateInit
<1>2. TypeOK /\ Alternate /\ [Next]_vars => (TypeOK /\ Alternate)' BY TypeStep, AlternateStep
<1>3. Alternate => (JobStores /\ holder' # Nobody => history.passed)
  BY DEF Alternate, JobStores
<1>4. QED BY <1>1, <1>2, <1>3, PTL DEF Spec, JobsApart
-----------------------------------------------------------------------------
(* Images and pods.                                                         *)

\* The StatefulSet's status counts with its template and no pod is on its way
\* to another one.
Settled == set.seen /\ \A p \in Pods : pods[p] \in {None, set.template}

\* From the moment a job may start until it is over the pods are settled, unless
\* the last pass was blind.
AtRest ==
    holder.who = "job" \/ (holder = Nobody /\ job # None /\ object.status.ready)
    => history.blind \/ Settled

LEMMA AtRestInit == Init => AtRest
BY DEF Init, AtRest, Nobody, None

LEMMA AtRestStep == TypeOK /\ AtRest /\ [Next]_vars => AtRest'
<1> SUFFICES ASSUME TypeOK, AtRest, [Next]_vars PROVE AtRest'
  OBVIOUS
<1> USE DEF kubernetes
<1>1. CASE Ask \/ StoreImages
  <2>1. holder \in Passes \cup Jobs BY <1>1, HolderKinds DEF Ask, StoreImages, Asks
  <2>2. CASE holder \in Passes
    <3>1. holder'.who = "pass"
      <4>1. CASE Ask BY <2>2, <4>1, ReturnType DEF Ask, At, Passes
      <4>2. CASE StoreImages BY <2>2, <4>2, ReturnType DEF StoreImages, At, Passes
      <4>3. QED BY <1>1, <4>1, <4>2
    <3>2. QED BY <3>1 DEF AtRest, Nobody, None
  <2>3. CASE holder \in Jobs
    <3>1. history.blind \/ Settled BY <2>3 DEF AtRest, Jobs
    <3>2. history'.blind = history.blind
      <4>1. CASE Ask BY <4>1 DEF Ask
      <4>2. CASE StoreImages BY <4>2 DEF StoreImages, TypeOK
      <4>3. QED BY <1>1, <4>1, <4>2
    <3>3. Settled' = Settled BY <1>1 DEF Ask, StoreImages, Settled
    <3>4. QED BY <3>1, <3>2, <3>3 DEF AtRest
  <2>4. QED BY <2>1, <2>2, <2>3
<1>2. CASE StoreVersions \/ AskFails
  <2>1. holder \in Passes \cup Jobs BY <1>2, AskerReturns
  <2>2. CASE holder \in Passes
    <3>1. holder'.who = "pass" BY <1>2, <2>2, AskerReturns, ReturnType DEF Passes
    <3>2. QED BY <3>1 DEF AtRest, Nobody, None
  <2>3. CASE holder \in Jobs
    <3>1. history.blind \/ Settled BY <2>3 DEF AtRest, Jobs
    <3>2. QED BY <1>2, <3>1 DEF AtRest, StoreVersions, AskFails, Settled
  <2>4. QED BY <2>1, <2>2, <2>3
<1>3. CASE Begin
  <2>1. CASE object.exists
    <3>1. holder'.who = "pass" BY <1>3, <2>1 DEF Begin
    <3>2. QED BY <3>1 DEF AtRest, Nobody, None
  <2>2. CASE ~object.exists
    <3>1. history'.blind = history.blind BY <1>3, <2>2 DEF Begin, TypeOK
    <3>2. QED BY <1>3, <2>2, <3>1 DEF Begin, AtRest, Settled
  <2>3. QED BY <2>1, <2>2
<1>4. CASE Deploy \/ FetchVersion \/ Schedule \/ PassFails
  <2>1. holder \in Passes
    BY <1>4, HolderKinds DEF Deploy, FetchVersion, Schedule, PassFails, Holds
  <2>2. holder'.who = "pass"
    BY <1>4, <2>1 DEF Deploy, FetchVersion, Schedule, PassFails, At, Passes
  <2>3. QED BY <2>2 DEF AtRest, Nobody, None
<1>5. CASE EndPass \/ StatusLost
  <2>1. PICK w \in BOOLEAN : End(w) BY <1>5 DEF EndPass, StatusLost
  <2>2. holder \in Passes BY <2>1, HolderKinds DEF End, Holds
  <2>3. history'.blind = (~w \/ ~set.seen) BY <2>1 DEF End, TypeOK
  <2>4. Settled' = Settled BY <2>1 DEF End, Settled
  <2>5. SUFFICES ASSUME w, set.seen, object'.status.ready PROVE Settled
    BY <2>1, <2>3, <2>4 DEF AtRest, End, Nobody, None
  <2>6. object'.status = StatusOf(holder.cr) BY <2>1, <2>5 DEF End, TypeOK, Objects
  <2>7. holder.cr.status \in Statuses BY <2>2 DEF Passes, Objects
  <2>8. ~UpgradeInProgress BY <2>5, <2>6, <2>7 DEF StatusOf, Statuses
  <2>9. QED BY <2>5, <2>8 DEF Settled, UpgradeInProgress
<1>6. CASE JobFires
  <2>1. history.blind' = history.blind /\ Settled' = Settled BY <1>6 DEF JobFires, Settled
  <2>2. QED BY <1>6, <2>1 DEF JobFires, AtRest, Nobody, None
<1>7. CASE Dies
  BY <1>7 DEF Dies, AtRest, Nobody, None
<1>8. CASE Kubernetes
  <2>1. Settled => Settled' BY <1>8 DEF Kubernetes, Settled, TypeOK
  <2>2. QED BY <1>8, <2>1 DEF Kubernetes, AtRest
<1>9. CASE Edit
  <2>1. object.status \in Statuses /\ object \in Objects BY DEF TypeOK, Objects
  <2>2. \/ \E v \in Versions : object' = [object EXCEPT !.image = v, !.status.observed = FALSE]
        \/ \E c : object' = [object EXCEPT !.schedule = c, !.status.observed = FALSE]
        \/ object' = [object EXCEPT !.exists = FALSE]
    BY <1>9 DEF Edit
  <2>3. object'.status.ready = object.status.ready
    <3>1. [object.status EXCEPT !.observed = FALSE].ready = object.status.ready
      BY <2>1 DEF Statuses
    <3>2. QED BY <2>1, <2>2, <3>1 DEF Objects
  <2>4. QED BY <1>9, <2>3 DEF Edit, AtRest, Settled
<1>10. CASE Release \/ UNCHANGED vars
  BY <1>10 DEF Release, vars, AtRest, Settled
<1>11. QED BY <1>1, <1>2, <1>3, <1>4, <1>5, <1>6, <1>7, <1>8, <1>9, <1>10 DEF Next, Operator

\* A job finds the pods at rest, or the last pass was blind.
THEOREM JobsFindRest == Spec => ImagesChangeAtRest
<1>1. Init => TypeOK /\ AtRest BY TypeInit, AtRestInit
<1>2. TypeOK /\ AtRest /\ [Next]_vars => (TypeOK /\ AtRest)' BY TypeStep, AtRestStep
<1>3. AtRest => ((holder # Nobody /\ holder.who = "job" /\ object'.image # object.image)
                 => history.blind \/ ~UpgradeInProgress)
  BY DEF AtRest, Settled, UpgradeInProgress
<1>4. QED BY <1>1, <1>2, <1>3, PTL DEF Spec, ImagesChangeAtRest
=============================================================================
