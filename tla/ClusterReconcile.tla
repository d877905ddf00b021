-------------------------- MODULE ClusterReconcile --------------------------
(***************************************************************************)
(* What a pass of the cluster controller makes of the cluster object       *)
(* (pkg/controller/pxc/controller.go): it creates and drops StatefulSets,  *)
(* services and certificates, or, when the object is being deleted, works  *)
(* off its finalizers; with the operator's own end                         *)
(* (pkg/k8s/graceful_shutdown.go).                                         *)
(*                                                                         *)
(* A pass is a list of calls computed from the copy it has read.  Each is  *)
(* a step: the user, Kubernetes and cert-manager act in between, calls     *)
(* fail, and the operator dies and starts again.                           *)
(***************************************************************************)
EXTENDS Integers, FiniteSets, Sequences, SequencesExt

CONSTANTS
    Size,                \* spec.pxc.size
    Lists,               \* the lists of finalizers the object may have
    Proxies,             \* the proxies the user may choose
    Configs,             \* contents of spec.pxc.configuration
    CertManager,         \* cert-manager is installed
    MaxEdits, MaxMishaps

ASSUME SizeAssumption == Size \in Nat \ {0}
ASSUME ListsAssumption == Lists \subseteq Seq({"pods-in-order", "pxc-pvc", "proxysql-pvc", "other"})
ASSUME ProxiesAssumption == Proxies \subseteq {"none", "haproxy", "proxysql"} /\ Proxies # {}
ASSUME ConfigsAssumption == Configs # {}
ASSUME CertManagerAssumption == CertManager \in BOOLEAN
ASSUME BoundsAssumption == MaxEdits \in Nat /\ MaxMishaps \in Nat

VARIABLES
    object,      \* the cluster object, or what was left of it
    objects,     \* what it owns: <<part, kind>>
    replicas, template,          \* of the database's StatefulSet
    configMap,   \* the contents of the configuration's ConfigMap
    pods, first, \* <<part, i>>; what the first database pod has loaded
    volumes, dying,              \* claims by pod; those marked for deletion
    operator, pass,
    history,     \* what was asked for, and where passes were cut short
    mishaps, edits

claims == <<volumes, dying>>
sets   == <<replicas, template>>
world  == <<objects, sets, configMap, pods, first, claims>>
vars == <<object, world, operator, pass, history, mishaps, edits>>

Parts == {"pxc", "haproxy", "proxysql"}
Kinds == {"set", "services", "pdb"}
Tls   == {"ssl", "internal"}
Certificates == {<<"certificate", t>> : t \in Tls}
Secrets      == {<<"secret", t>> : t \in Tls}
Objects == (Parts \X Kinds) \cup Certificates \cup Secrets
Ordinals == 0 .. Size - 1
AllPods == {<<"pxc", i>> : i \in Ordinals} \cup {<<"proxysql", 0>>}

SetOf(part)  == <<part, "set">>
PodsOf(part) == {p \in pods : p[1] = part}

Idle == [pc |-> "idle"]

TypeOK ==
    /\ object.proxy \in Proxies /\ object.config \in Configs
    /\ object.exists \in BOOLEAN /\ object.deleted \in BOOLEAN
    /\ \E l \in Lists : \E left \in SUBSET ToSet(l) :
         object.finalizers = SelectSeq(l, LAMBDA f : f \in left)
    /\ objects \subseteq Objects
    /\ replicas \in {1, Size} /\ template \in Configs /\ configMap \in Configs \cup {""}
    /\ pods \subseteq volumes /\ volumes \subseteq AllPods /\ dying \subseteq volumes
    /\ first \in [hash: Configs, config: Configs]
    /\ operator \in {"up", "stopping", "down"}
    /\ pass # Idle => operator # "down" /\ ToSet(pass.kept) \subseteq ToSet(pass.copy.finalizers)
    /\ mishaps \in 0 .. MaxMishaps /\ edits \in 0 .. MaxEdits

Init ==
    /\ \E l \in Lists, p \in Proxies : LET c == CHOOSE x \in Configs : TRUE IN
         /\ object = [exists |-> TRUE, deleted |-> FALSE, finalizers |-> l, proxy |-> p, config |-> c]
         /\ template = c /\ first = [hash |-> c, config |-> c]
         /\ history = [asked |-> ToSet(l), whole |-> FALSE, cut |-> {}]
    /\ objects = {} /\ replicas = Size /\ configMap = ""
    /\ pods = {} /\ volumes = {} /\ dying = {}
    /\ operator = "up"
    /\ pass = Idle /\ mishaps = 0 /\ edits = 0

Mishap == mishaps < MaxMishaps /\ mishaps' = mishaps + 1
-----------------------------------------------------------------------------
(* The user, Kubernetes and cert-manager.                                   *)

Edit ==
    /\ object.exists /\ ~object.deleted /\ edits < MaxEdits
    /\ \/ \E p \in Proxies \ {object.proxy} : object' = [object EXCEPT !.proxy = p]
       \/ \E c \in Configs \ {object.config} : object' = [object EXCEPT !.config = c]
    /\ edits' = edits + 1
    /\ UNCHANGED <<world, operator, pass, history, mishaps>>

\* Without finalizers the object goes at once.
Delete ==
    /\ object.exists /\ ~object.deleted
    /\ object' = [object EXCEPT !.deleted = TRUE, !.exists = @ /\ object.finalizers # <<>>]
    /\ history' = [history EXCEPT !.whole = Cardinality(PodsOf("pxc")) = Size]
    /\ UNCHANGED <<world, operator, pass, mishaps, edits>>

\* A set's first pod comes first, and loads what the ConfigMap holds by then.
PodStarts(p) ==
    /\ SetOf(p[1]) \in objects /\ p \notin pods /\ p \notin dying
    /\ p[1] = "pxc" => p[2] < replicas /\ \A i \in 0 .. p[2] - 1 : <<"pxc", i>> \in pods
    /\ pods' = pods \cup {p} /\ volumes' = volumes \cup {p}
    /\ first' = IF p = <<"pxc", 0>> /\ configMap # "" THEN [hash |-> template, config |-> configMap] ELSE first
    /\ UNCHANGED <<object, objects, sets, configMap, dying, operator, pass, history, mishaps, edits>>

\* Down to the replicas from the last pod on; all pods, without a set.
PodStops(p) ==
    /\ p \in pods
    /\ \/ SetOf(p[1]) \notin objects
       \/ p[1] = "pxc" /\ p[2] >= replicas /\ p[2] + 1 = Cardinality(PodsOf("pxc"))
    /\ pods' = pods \ {p}
    /\ UNCHANGED <<object, objects, sets, configMap, first, claims, operator, pass, history, mishaps, edits>>

\* The rolling update of SmartUpdate, as far as a configuration goes.
Restarted ==
    /\ <<"pxc", 0>> \in pods /\ SetOf("pxc") \in objects /\ first.hash # template
    /\ first' = [hash |-> template, config |-> configMap]
    /\ UNCHANGED <<object, objects, sets, configMap, pods, claims, operator, pass, history, mishaps, edits>>

ClaimGoes(p) ==
    /\ p \in dying \ pods
    /\ volumes' = volumes \ {p} /\ dying' = dying \ {p}
    /\ UNCHANGED <<object, objects, sets, configMap, pods, first, operator, pass, history, mishaps, edits>>

Owned(o) == IF o[2] = "pdb" THEN SetOf(o[1]) \in objects ELSE object.exists

GarbageCollect ==
    /\ \E o \in objects : ~Owned(o)
    /\ objects' = {o \in objects : Owned(o)}
    /\ UNCHANGED <<object, sets, configMap, pods, first, claims, operator, pass, history, mishaps, edits>>

Issue(t) ==
    /\ CertManager /\ <<"certificate", t>> \in objects /\ <<"secret", t>> \notin objects
    /\ objects' = objects \cup {<<"secret", t>>}
    /\ UNCHANGED <<object, sets, configMap, pods, first, claims, operator, pass, history, mishaps, edits>>
-----------------------------------------------------------------------------
(* The calls of a pass.                                                     *)

Creates(part) == <<<<"create", SetOf(part)>>, <<"create", <<part, "services">>>>, <<"create", <<part, "pdb">>>>>>
\* Slip: the services stay.
Drops_ServicesStay(part, withClaims) == <<<<IF withClaims THEN "dropWithClaims" ELSE "drop", part>>>>

Drops(part, withClaims) ==
    <<<<IF withClaims THEN "dropWithClaims" ELSE "drop", part>>, <<"delete", <<part, "services">>>>>>

DeployDatabase(c) == <<<<"config", "pxc">>, <<"ssl", "pxc">>>> \o Creates("pxc")
DeployProxy(c) == IF c.proxy = "none" THEN <<>> ELSE Creates(c.proxy)
UpdateDatabase == <<<<"update", "pxc">>>>
UpdateHAProxy(c) == IF c.proxy = "haproxy" THEN <<<<"update", "haproxy">>>> ELSE Drops("haproxy", FALSE)
UpdateProxySQL(c) ==
    IF c.proxy = "proxysql" THEN <<<<"update", "proxysql">>>>
    ELSE Drops("proxysql", "proxysql-pvc" \in ToSet(c.finalizers))

\* deploy, and what Reconcile does after it.
Deploy(c) == DeployDatabase(c) \o DeployProxy(c) \o UpdateDatabase \o UpdateHAProxy(c) \o UpdateProxySQL(c)

Finalize(c) == [k \in 1 .. Len(c.finalizers) |-> <<"finalizer", c.finalizers[k]>>] \o <<<<"unfinalize", "pxc">>>>

Begin ==
    /\ pass = Idle /\ operator # "down" /\ object.exists
    /\ pass' = [pc |-> "busy", copy |-> object, kept |-> <<>>, err |-> FALSE,
                todo |-> IF object.deleted THEN Finalize(object) ELSE Deploy(object)]
    /\ UNCHANGED <<object, world, operator, history, mishaps, edits>>

Call(op) == pass # Idle /\ Head(pass.todo)[1] = op
Arg == Head(pass.todo)[2]
Following(p, calls) ==
    LET todo == calls \o Tail(p.todo) IN IF todo = <<>> THEN Idle ELSE [p EXCEPT !.todo = todo]
Then(calls) == pass' = Following(pass, calls)
Elsewhere == UNCHANGED <<object, operator, history, mishaps, edits>>

Create ==
    /\ Call("create")
    /\ objects' = IF Arg[2] = "pdb" /\ SetOf(Arg[1]) \notin objects THEN objects ELSE objects \cup {Arg}
    /\ IF Arg = SetOf("pxc") /\ Arg \notin objects
       THEN replicas' = Size /\ template' = pass.copy.config
       ELSE UNCHANGED sets
    /\ Then(<<>>)
    /\ UNCHANGED <<configMap, pods, first, claims>> /\ Elsewhere

\* createOrUpdateConfigmap; updatePod repeats it with the same content.
WriteConfigMap ==
    /\ Call("config")
    /\ configMap' = pass.copy.config
    /\ Then(<<>>)
    /\ UNCHANGED <<objects, sets, pods, first, claims>> /\ Elsewhere

\* updatePod, and the ports of the services: both must exist.
Update ==
    /\ Call("update")
    /\ IF {SetOf(Arg), <<Arg, "services">>} \subseteq objects THEN Then(<<>>) ELSE pass' = Idle
    /\ IF Arg = "pxc" /\ SetOf(Arg) \in objects
       THEN replicas' = Size /\ template' = pass.copy.config
       ELSE UNCHANGED sets
    /\ UNCHANGED <<objects, configMap, pods, first, claims>> /\ Elsewhere

IsCertManagers(call) == call[1] = "wait" \/ (call[1] = "create" /\ call[2] \in Certificates)
OwnSecrets == <<<<"own", "ssl">>, <<"own", "internal">>>>

\* reconsileSSL looks for the first secret only.
ReconcileSSL ==
    /\ Call("ssl")
    /\ Then(IF <<"secret", "ssl">> \in objects THEN <<>>
            ELSE IF CertManager
            THEN <<<<"create", <<"certificate", "ssl">>>>, <<"create", <<"certificate", "internal">>>>, <<"wait", "pxc">>>>
            ELSE OwnSecrets)
    /\ UNCHANGED world /\ Elsewhere

\* waitForCerts, and its timeout.
WaitForCerts ==
    /\ Call("wait")
    /\ Then(IF Secrets \subseteq objects THEN <<>> ELSE OwnSecrets)
    /\ UNCHANGED world /\ Elsewhere

\* createSSLManualy: a secret that is there is an error.
CreateSecret ==
    /\ Call("own")
    /\ IF <<"secret", Arg>> \in objects THEN pass' = Idle ELSE Then(<<>>)
    /\ objects' = objects \cup {<<"secret", Arg>>}
    /\ UNCHANGED <<sets, configMap, pods, first, claims>> /\ Elsewhere

DropSet(part, withClaims) ==
    /\ objects' = objects \ {SetOf(part)}
    /\ Then(IF SetOf(part) \in objects /\ withClaims THEN <<<<"claims", part>>>> ELSE <<>>)
    /\ UNCHANGED <<sets, configMap, pods, first, claims>> /\ Elsewhere

\* deleteStatefulSet: without a set there are no claims to delete.
DeleteStatefulSet ==
    \/ Call("drop") /\ DropSet(Arg, FALSE)
    \/ Call("dropWithClaims") /\ DropSet(Arg, TRUE)

\* Slip: the claims of the cluster, not of the set.
DeletePVC_Cluster ==
    /\ Call("claims")
    /\ dying' = volumes
    /\ Then(<<>>)
    /\ UNCHANGED <<objects, sets, configMap, pods, first, volumes>> /\ Elsewhere

DeletePVC ==
    /\ Call("claims")
    /\ dying' = dying \cup {p \in volumes : p[1] = Arg}
    /\ Then(<<>>)
    /\ UNCHANGED <<objects, sets, configMap, pods, first, volumes>> /\ Elsewhere

DeleteServices ==
    /\ Call("delete")
    /\ objects' = objects \ {Arg}
    /\ Then(<<>>)
    /\ UNCHANGED <<sets, configMap, pods, first, claims>> /\ Elsewhere

Keep(p, f, err) == [p EXCEPT !.kept = IF err THEN Append(@, f) ELSE @, !.err = err]

\* Slip: the finalizer goes while the pods are still being taken down.
PodsInOrder_NotKept ==
    /\ Call("finalizer") /\ Arg = "pods-in-order"
    /\ replicas' = IF Cardinality(PodsOf("pxc")) \notin {0, 1} /\ SetOf("pxc") \in objects THEN 1 ELSE replicas
    /\ pass' = Following(Keep(pass, Arg, FALSE), <<>>)
    /\ UNCHANGED <<objects, template, configMap, pods, first, claims>> /\ Elsewhere

\* deletePXCPods: scaled down to one, and kept until no more are there.
PodsInOrder ==
    /\ Call("finalizer") /\ Arg = "pods-in-order"
    /\ LET waits == Cardinality(PodsOf("pxc")) \notin {0, 1}
       IN  /\ replicas' = IF waits /\ SetOf("pxc") \in objects THEN 1 ELSE replicas
           /\ pass' = Following(Keep(pass, Arg, waits), <<>>)
    /\ UNCHANGED <<objects, template, configMap, pods, first, claims>> /\ Elsewhere

ClaimsFinalizer ==
    /\ Call("finalizer") /\ Arg \in {"pxc-pvc", "proxysql-pvc"}
    /\ pass' = Following([pass EXCEPT !.err = FALSE],
                         <<<<"dropWithClaims", IF Arg = "pxc-pvc" THEN "pxc" ELSE "proxysql">>>>)
    /\ UNCHANGED world /\ Elsewhere

\* Somebody else's finalizer meets the error of the one before it.
OtherFinalizer ==
    /\ Call("finalizer") /\ Arg = "other"
    /\ pass' = Following(Keep(pass, Arg, pass.err), <<>>)
    /\ UNCHANGED world /\ Elsewhere

\* The update is refused when the object has changed since it was read.
Unfinalize ==
    /\ Call("unfinalize")
    /\ object' = IF object # pass.copy THEN object
                 ELSE [object EXCEPT !.finalizers = pass.kept, !.exists = pass.kept # <<>>]
    /\ pass' = Idle
    /\ UNCHANGED <<world, operator, history, mishaps, edits>>

FinalizerOf(call) == IF call[1] = "finalizer" THEN call[2]
                     ELSE IF call[2] = "pxc" THEN "pxc-pvc" ELSE "proxysql-pvc"

TheSecond == {<<"own", "internal">>, <<"create", <<"certificate", "internal">>>>}

\* Not tried again: the claims of a set that is gone, the second secret once
\* the first is there.
Cut == [history EXCEPT !.cut = @ \cup (IF Call("claims") THEN {"claims"} ELSE {})
                                   \cup (IF \E c \in TheSecond : Call(c[1]) /\ Arg = c[2] THEN {"secrets"} ELSE {})]

\* A call fails: the pass ends with it, the finalizer stays on the list, or the
\* operator makes the certificates itself.
CallFails ==
    /\ pass # Idle /\ Mishap
    /\ ~(Call("finalizer") /\ Arg = "other")
    /\ \/ /\ pass.copy.deleted /\ ~Call("unfinalize")
          /\ pass' = Following(Keep(pass, FinalizerOf(Head(pass.todo)), TRUE), <<>>)
       \/ /\ ~pass.copy.deleted /\ IsCertManagers(Head(pass.todo))
          /\ \E k \in 1 .. Len(pass.todo) :
               /\ pass.todo[k][1] = "wait"
               /\ pass' = [pass EXCEPT !.todo = OwnSecrets \o SubSeq(@, k + 1, Len(@))]
       \/ /\ IF pass.copy.deleted THEN Call("unfinalize") ELSE ~IsCertManagers(Head(pass.todo))
          /\ pass' = Idle
    /\ history' = Cut
    /\ UNCHANGED <<object, world, operator, edits>>

\* The operator is killed, and started again.
Dies ==
    /\ pass # Idle /\ operator = "up" /\ Mishap
    /\ pass' = Idle
    /\ history' = Cut
    /\ UNCHANGED <<object, world, operator, edits>>
-----------------------------------------------------------------------------
(* The end of the operator: its namespace is deleted, clusters first.       *)

GetsStopSignal ==
    /\ operator = "up" /\ object.deleted
    /\ operator' = "stopping"
    /\ UNCHANGED <<object, world, pass, history, mishaps, edits>>

\* Slip: ready once the clusters are marked for deletion.
IsClustersReadyToDelete_Marked == object.exists => object.deleted

IsClustersReadyToDelete == ~(object.exists /\ object.deleted /\ object.finalizers # <<>>)

Stop ==
    /\ operator = "stopping" /\ IsClustersReadyToDelete
    /\ operator' = "down" /\ pass' = Idle
    /\ UNCHANGED <<object, world, history, mishaps, edits>>

Reconcile ==
    \/ Create \/ WriteConfigMap \/ Update \/ ReconcileSSL \/ WaitForCerts \/ CreateSecret
    \/ DeleteStatefulSet \/ DeletePVC \/ DeleteServices
    \/ PodsInOrder \/ ClaimsFinalizer \/ OtherFinalizer \/ Unfinalize

Kubernetes ==
    \/ \E p \in AllPods : PodStarts(p) \/ PodStops(p) \/ ClaimGoes(p)
    \/ \E t \in Tls : Issue(t)
    \/ Restarted \/ GarbageCollect

Next ==
    \/ Begin \/ Reconcile \/ CallFails \/ Dies
    \/ Edit \/ Delete \/ Kubernetes
    \/ GetsStopSignal \/ Stop

Spec == Init /\ [][Next]_vars

\* Passes come every five seconds; Kubernetes goes on; the user need not.
Fairness == WF_vars(Begin \/ Reconcile) /\ WF_vars(Kubernetes) /\ WF_vars(Stop)

FairSpec == Spec /\ Fairness
-----------------------------------------------------------------------------
\* Asked for alone, the finalizer of a cluster whose pods are all there takes
\* them down one by one from the last, and leaves the set when one is left
\* (deletePXCPods).
InOrder ==
    [][ ("pods-in-order" \in history.asked /\ "pxc-pvc" \notin history.asked /\ object.deleted /\ history.whole)
        => \A p \in PodsOf("pxc") : <<"pxc", p[2] + 1>> \in pods => p \in pods' ]_vars

\* No volume of the database goes unless the cluster is deleted and the
\* finalizer was asked for; none of ProxySQL's without its finalizer
\* (deleteStatefulSet, deletePVC).
VolumesKept ==
    \A p \in dying : IF p[1] = "pxc" THEN object.deleted /\ "pxc-pvc" \in history.asked
                     ELSE "proxysql-pvc" \in history.asked

\* A deleted cluster goes, with all it owns and the volumes its finalizers name,
\* although the operator is being stopped; unless a pass was cut short between a
\* set and its claims (Reconcile, stop).
Gone ==
    /\ ~object.exists /\ objects = {} /\ pods = {}
    /\ "claims" \in history.cut \/
       \A p \in volumes : (IF p[1] = "pxc" THEN "pxc-pvc" ELSE "proxysql-pvc") \notin history.asked
DeletionEnds == <>[](object.deleted => Gone)

\* What exists comes to be what the object asks for, whatever was edited in
\* between; the second secret unless its creation failed; and the database comes
\* to run with the configuration of the object (deploy, Reconcile;
\* reconcileConfigMap before the StatefulSet's new hash).
Wanted ==
    ({"pxc"} \cup (Parts \cap {object.proxy})) \X Kinds
Follows == <>[](object.deleted \/
    /\ objects \cap (Parts \X Kinds) = Wanted
    /\ "secrets" \in history.cut \/ Secrets \subseteq objects
    /\ first.config = object.config)
=============================================================================
