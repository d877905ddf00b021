----------------------- MODULE ClusterReconcile_proofs -----------------------
(***************************************************************************)
(* No volume goes that nobody gave up, and pods go in order where that was *)
(* asked for, for any size, finalizers, proxies and configurations, and    *)
(* any number of edits and mishaps.                                        *)
(***************************************************************************)
EXTENDS ClusterReconcile, FiniteSetTheorems, TLAPS

Finalizers == {"pods-in-order", "pxc-pvc", "proxysql-pvc", "other"}

\* The parts whose claims may be deleted, with the object deleted or not and the
\* finalizers it was created with.
GivenUp(deleted, asked) ==
    {part \in {"pxc", "proxysql"} :
        IF part = "pxc" THEN deleted /\ "pxc-pvc" \in asked ELSE "proxysql-pvc" \in asked}

DropCalls(deleted, asked) == {"claims", "dropWithClaims"} \X GivenUp(deleted, asked)

\* The calls of a pass that works off the finalizers, and of one that deploys.
FinalizeCalls(deleted, asked) ==
    DropCalls(deleted, asked) \cup ({"finalizer"} \X asked) \cup {<<"unfinalize", "pxc">>}
DeployCalls(deleted, asked) ==
    DropCalls(deleted, asked)
      \cup ({"create", "config", "update", "ssl", "wait", "own"} \X (Objects \cup Parts \cup Tls))
      \cup ({"drop"} \X (Parts \ {"pxc"})) \cup ({"delete"} \X (Parts \X {"services"}))

ClusterObjects(asked) ==
    [exists: BOOLEAN, deleted: BOOLEAN, finalizers: Seq(asked), proxy: Proxies, config: Configs]

\* Passes with calls of one kind.
Passes(asked, Calls) ==
    [pc: {"busy"}, copy: ClusterObjects(asked), kept: Seq(asked), err: BOOLEAN, todo: Seq(Calls) \ {<<>>}]

\* Every call left to a pass is licensed, by what the object is now: it may have
\* been deleted since the pass has read it, never the other way round.
PassOK(p, deleted, asked) ==
    \/ /\ p \in Passes(asked, FinalizeCalls(deleted, asked))
       /\ p.copy.deleted /\ deleted
    \/ /\ p \in Passes(asked, DeployCalls(deleted, asked))
       /\ ~p.copy.deleted

Histories == [asked: SUBSET Finalizers, whole: BOOLEAN, cut: SUBSET {"claims", "secrets"}]

Licensed ==
    /\ history \in Histories
    /\ object \in ClusterObjects(history.asked)
    /\ pass # Idle => PassOK(pass, object.deleted, history.asked)
    /\ VolumesKept

-----------------------------------------------------------------------------
(* Sequences.                                                               *)

LEMMA ElementOf ==
    ASSUME NEW S, NEW s \in Seq(S), NEW k \in 1 .. Len(s)
    PROVE  s[k] \in S
OBVIOUS

LEMMA ConcatIn ==
    ASSUME NEW S, NEW s \in Seq(S), NEW t \in Seq(S)
    PROVE  s \o t \in Seq(S) /\ (t # <<>> => s \o t # <<>>) /\ (s # <<>> => s \o t # <<>>)
OBVIOUS

LEMMA HeadTailIn ==
    ASSUME NEW S, NEW s \in Seq(S), s # <<>>
    PROVE  Head(s) \in S /\ Tail(s) \in Seq(S)
OBVIOUS

LEMMA RestIn ==
    ASSUME NEW S, NEW s \in Seq(S), NEW k \in 1 .. Len(s)
    PROVE  SubSeq(s, k + 1, Len(s)) \in Seq(S)
OBVIOUS

LEMMA Wider ==
    ASSUME NEW S, NEW T, S \subseteq T, NEW s \in Seq(S)
    PROVE  s \in Seq(T)
OBVIOUS

\* A pass goes on with calls put before those that are left.
LEMMA FollowingKind ==
    ASSUME NEW asked, NEW Calls, NEW p \in Passes(asked, Calls), NEW calls \in Seq(Calls)
    PROVE  \/ Following(p, calls) = Idle
           \/ Following(p, calls) \in Passes(asked, Calls) /\ Following(p, calls).copy = p.copy
<1> DEFINE todo == calls \o Tail(p.todo)
<1>1. p.todo \in Seq(Calls) /\ p.todo # <<>> BY DEF Passes
<1>2. todo \in Seq(Calls) BY <1>1, ConcatIn, HeadTailIn
<1>3. Following(p, calls) = IF todo = <<>> THEN Idle ELSE [p EXCEPT !.todo = todo] BY DEF Following
<1> HIDE DEF todo
<1>4. QED BY <1>2, <1>3 DEF Passes

LEMMA FollowingOK ==
    ASSUME NEW deleted, NEW asked, NEW p, PassOK(p, deleted, asked), NEW calls,
           Following(p, calls) # Idle,
           p.copy.deleted => calls \in Seq(FinalizeCalls(deleted, asked)),
           ~p.copy.deleted => calls \in Seq(DeployCalls(deleted, asked))
    PROVE  PassOK(Following(p, calls), deleted, asked)
BY FollowingKind DEF PassOK

-----------------------------------------------------------------------------
(* What a pass starts with.                                                 *)

LEMMA FinalizeLicensed ==
    ASSUME NEW deleted, NEW asked, NEW c \in ClusterObjects(asked)
    PROVE  Finalize(c) \in Seq(FinalizeCalls(deleted, asked)) /\ Finalize(c) # <<>>
<1> DEFINE each == [k \in 1 .. Len(c.finalizers) |-> <<"finalizer", c.finalizers[k]>>]
           last == <<<<"unfinalize", "pxc">>>>
<1>1. c.finalizers \in Seq(asked) BY DEF ClusterObjects
<1>2. each \in Seq(FinalizeCalls(deleted, asked))
  <2>1. \A k \in 1 .. Len(c.finalizers) : <<"finalizer", c.finalizers[k]>> \in FinalizeCalls(deleted, asked)
    BY <1>1, ElementOf DEF FinalizeCalls
  <2>2. Len(c.finalizers) \in Nat BY <1>1
  <2> HIDE DEF FinalizeCalls
  <2>3. QED BY <2>1, <2>2
<1>3. last \in Seq(FinalizeCalls(deleted, asked)) /\ last # <<>> BY DEF FinalizeCalls
<1>4. Finalize(c) = each \o last BY DEF Finalize
<1> HIDE DEF each, last
<1>5. QED BY <1>2, <1>3, <1>4, ConcatIn

LEMMA DeployLicensed ==
    ASSUME NEW deleted, NEW asked, NEW c \in ClusterObjects(asked)
    PROVE  Deploy(c) \in Seq(DeployCalls(deleted, asked)) /\ Deploy(c) # <<>>
<1>1. \A part \in Parts : Creates(part) \in Seq(DeployCalls(deleted, asked))
  BY DEF Creates, SetOf, DeployCalls, Objects, Kinds
<1>2. DeployDatabase(c) \in Seq(DeployCalls(deleted, asked)) /\ DeployDatabase(c) # <<>>
  <2>1. /\ <<<<"config", "pxc">>, <<"ssl", "pxc">>>> \in Seq(DeployCalls(deleted, asked))
        /\ <<<<"config", "pxc">>, <<"ssl", "pxc">>>> # <<>>
    BY DEF DeployCalls, Parts
  <2>2. Creates("pxc") \in Seq(DeployCalls(deleted, asked)) BY <1>1 DEF Parts
  <2>3. QED BY <2>1, <2>2, ConcatIn DEF DeployDatabase
<1>3. DeployProxy(c) \in Seq(DeployCalls(deleted, asked))
  <2>1. c.proxy = "none" \/ c.proxy \in Parts BY ProxiesAssumption DEF ClusterObjects, Parts
  <2>2. QED BY <1>1, <2>1 DEF DeployProxy
<1>4. \A part \in Parts : <<<<"update", part>>>> \in Seq(DeployCalls(deleted, asked)) BY DEF DeployCalls
<1>5. Drops("haproxy", FALSE) \in Seq(DeployCalls(deleted, asked))
  BY DEF Drops, DeployCalls, Objects, Parts, Kinds
<1>6. UpdateHAProxy(c) \in Seq(DeployCalls(deleted, asked))
  BY <1>4, <1>5 DEF UpdateHAProxy, Parts
<1>7. Drops("proxysql", "proxysql-pvc" \in ToSet(c.finalizers)) \in Seq(DeployCalls(deleted, asked))
  <2>1. <<"drop", "proxysql">> \in DeployCalls(deleted, asked) /\ <<"delete", <<"proxysql", "services">>>> \in DeployCalls(deleted, asked)
    BY DEF DeployCalls, Objects, Parts, Kinds
  <2>2. "proxysql-pvc" \in ToSet(c.finalizers) => <<"dropWithClaims", "proxysql">> \in DeployCalls(deleted, asked)
    <3>1. c.finalizers \in Seq(asked) BY DEF ClusterObjects
    <3>2. "proxysql-pvc" \in ToSet(c.finalizers) => "proxysql-pvc" \in asked
      BY <3>1 DEF ToSet
    <3>3. QED BY <3>2 DEF DeployCalls, DropCalls, GivenUp
  <2>3. QED BY <2>1, <2>2 DEF Drops
<1>8. UpdateProxySQL(c) \in Seq(DeployCalls(deleted, asked))
  BY <1>4, <1>7, Zenon DEF UpdateProxySQL, Parts
<1>9. QED
  <2> DEFINE a == DeployDatabase(c)  b == DeployProxy(c)  d == UpdateDatabase
             e == UpdateHAProxy(c)  f == UpdateProxySQL(c)
  <2>1. Deploy(c) = (((a \o b) \o d) \o e) \o f BY DEF Deploy
  <2>2. a \o b \in Seq(DeployCalls(deleted, asked)) /\ a \o b # <<>> BY <1>2, <1>3, ConcatIn
  <2>3. (a \o b) \o d \in Seq(DeployCalls(deleted, asked)) /\ (a \o b) \o d # <<>>
    BY <1>4, <2>2, ConcatIn DEF UpdateDatabase, Parts
  <2>4. ((a \o b) \o d) \o e \in Seq(DeployCalls(deleted, asked)) /\ ((a \o b) \o d) \o e # <<>> BY <1>6, <2>3, ConcatIn
  <2>5. QED BY <1>8, <2>1, <2>4, ConcatIn

-----------------------------------------------------------------------------
(* The invariant.                                                           *)

LEMMA InitLicensed == Init => Licensed
<1> SUFFICES ASSUME Init PROVE Licensed
  OBVIOUS
<1> DEFINE c == CHOOSE x \in Configs : TRUE
<1>1. c \in Configs BY ConfigsAssumption
<1>2. PICK l \in Lists, p \in Proxies :
        /\ object = [exists |-> TRUE, deleted |-> FALSE, finalizers |-> l, proxy |-> p, config |-> c]
        /\ history = [asked |-> ToSet(l), whole |-> FALSE, cut |-> {}]
  BY DEF Init
<1>3. l \in Seq(Finalizers) BY ListsAssumption DEF Finalizers
<1>4. l \in Seq(ToSet(l)) /\ ToSet(l) \subseteq Finalizers BY <1>3 DEF ToSet
<1> HIDE DEF c
<1>5. object \in ClusterObjects(history.asked) BY <1>1, <1>2, <1>4 DEF ClusterObjects
<1>6. pass = Idle /\ VolumesKept BY DEF Init, VolumesKept
<1>7. QED BY <1>2, <1>4, <1>5, <1>6 DEF Licensed, Histories

\* What is licensed stays so when the object is deleted meanwhile.
LEMMA StaysLicensed ==
    ASSUME NEW asked, NEW deleted \in BOOLEAN, NEW later \in BOOLEAN, deleted => later,
           NEW p, PassOK(p, deleted, asked)
    PROVE  PassOK(p, later, asked)
<1>1. GivenUp(deleted, asked) \subseteq GivenUp(later, asked) BY DEF GivenUp
<1>2. DropCalls(deleted, asked) \subseteq DropCalls(later, asked) BY <1>1 DEF DropCalls
<1>3. FinalizeCalls(deleted, asked) \subseteq FinalizeCalls(later, asked) BY <1>2 DEF FinalizeCalls
<1>4. DeployCalls(deleted, asked) \subseteq DeployCalls(later, asked) BY <1>2 DEF DeployCalls
<1>5. ASSUME NEW C, NEW D, C \subseteq D, p \in Passes(asked, C) PROVE p \in Passes(asked, D)
  <2>1. p.todo \in Seq(D) BY <1>5, Wider DEF Passes
  <2>2. QED BY <1>5, <2>1 DEF Passes
<1>6. QED BY <1>3, <1>4, <1>5 DEF PassOK

\* What the call that is next may be.
LEMMA NextCall ==
    ASSUME Licensed, pass # Idle
    PROVE  /\ PassOK(pass, object.deleted, history.asked)
           /\ Call("claims") \/ Call("dropWithClaims") => Arg \in GivenUp(object.deleted, history.asked)
           /\ Call("finalizer") => Arg \in history.asked /\ pass.copy.deleted /\ object.deleted
           /\ Call("unfinalize") => pass.kept \in Seq(history.asked) /\ pass.copy.deleted
           /\ (\E op \in {"create", "config", "update", "ssl", "wait", "own", "drop", "delete"} : Call(op))
                => ~pass.copy.deleted
           /\ Call("drop") => Arg # "pxc"
           /\ Call("delete") => Arg \in Parts \X {"services"}
           /\ pass.copy.deleted /\ ~Call("unfinalize") => FinalizerOf(Head(pass.todo)) \in history.asked
<1> DEFINE F == FinalizeCalls(object.deleted, history.asked)
           D == DeployCalls(object.deleted, history.asked)
           head == Head(pass.todo)
<1>1. PassOK(pass, object.deleted, history.asked) BY DEF Licensed
<1>2. pass.kept \in Seq(history.asked) BY <1>1 DEF PassOK, Passes
<1>3. CASE pass.copy.deleted
  <2>1. pass.todo \in Seq(F) /\ pass.todo # <<>> /\ object.deleted BY <1>1, <1>3 DEF PassOK, Passes
  <2>2. head \in F BY <2>1, HeadTailIn
  <2>3. \/ head[1] \in {"claims", "dropWithClaims"} /\ head[2] \in GivenUp(object.deleted, history.asked)
        \/ head[1] = "finalizer" /\ head[2] \in history.asked
        \/ head[1] = "unfinalize"
    BY <2>2 DEF FinalizeCalls, DropCalls
  <2>4. FinalizerOf(head) \in history.asked \/ head[1] = "unfinalize"
    BY <2>3 DEF FinalizerOf, GivenUp
  <2> HIDE DEF head
  <2>5. QED BY <1>1, <1>2, <1>3, <2>1, <2>3, <2>4 DEF Call, Arg, head
<1>4. CASE ~pass.copy.deleted
  <2>1. pass.todo \in Seq(D) /\ pass.todo # <<>> BY <1>1, <1>4 DEF PassOK, Passes
  <2>2. head \in D BY <2>1, HeadTailIn
  <2>3. \/ head[1] \in {"claims", "dropWithClaims"} /\ head[2] \in GivenUp(object.deleted, history.asked)
        \/ head[1] \in {"create", "config", "update", "ssl", "wait", "own"}
        \/ head[1] = "drop" /\ head[2] # "pxc"
        \/ head[1] = "delete" /\ head[2] \in Parts \X {"services"}
    BY <2>2 DEF DeployCalls, DropCalls
  <2> HIDE DEF head
  <2>4. QED BY <1>1, <1>2, <1>4, <2>3 DEF Call, Arg, head
<1>5. QED BY <1>3, <1>4

\* A step of a pass that leaves the object as it is, puts calls before those left
\* and marks no other volumes.
LEMMA GoesOn ==
    ASSUME Licensed, pass # Idle, UNCHANGED <<object, history>>, NEW calls,
           pass' = Idle \/ pass' = Following(pass, calls),
           pass.copy.deleted => calls \in Seq(FinalizeCalls(object.deleted, history.asked)),
           ~pass.copy.deleted => calls \in Seq(DeployCalls(object.deleted, history.asked)),
           VolumesKept'
    PROVE  Licensed'
<1>1. PassOK(pass, object.deleted, history.asked) BY DEF Licensed
<1>2. pass' # Idle => PassOK(pass', object.deleted, history.asked) BY <1>1, FollowingOK
<1>3. QED BY <1>2 DEF Licensed

\* Without new calls.
LEMMA GoesOnWith ==
    ASSUME Licensed, pass # Idle, UNCHANGED <<object, history>>,
           pass' = Idle \/ pass' = Following(pass, <<>>), VolumesKept'
    PROVE  Licensed'
<1>1. \A S : <<>> \in Seq(S) OBVIOUS
<1>2. QED BY <1>1, GoesOn

\* A pass that has met an error or none, and has kept a finalizer that was asked
\* for or none, goes on with what is left.
LEMMA KeepOK ==
    ASSUME NEW deleted, NEW asked, NEW p, PassOK(p, deleted, asked),
           NEW f \in asked, NEW err \in BOOLEAN, Following(Keep(p, f, err), <<>>) # Idle
    PROVE  PassOK(Following(Keep(p, f, err), <<>>), deleted, asked)
<1>1. Append(p.kept, f) \in Seq(asked) BY DEF PassOK, Passes
<1>2. ASSUME NEW Calls, p \in Passes(asked, Calls)
      PROVE  Keep(p, f, err) \in Passes(asked, Calls) /\ Keep(p, f, err).copy = p.copy
  BY <1>1, <1>2 DEF Keep, Passes
<1>3. PassOK(Keep(p, f, err), deleted, asked) BY <1>2 DEF PassOK
<1>4. \A S : <<>> \in Seq(S) OBVIOUS
<1>5. QED BY <1>3, <1>4, FollowingOK

-----------------------------------------------------------------------------
(* Its steps.                                                               *)

LEMMA BeginLicensed == Licensed /\ Begin => Licensed'
<1> SUFFICES ASSUME Licensed, Begin PROVE Licensed'
  OBVIOUS
<1> DEFINE p(todo) == [pc |-> "busy", copy |-> object, kept |-> <<>>, err |-> FALSE, todo |-> todo]
<1>1. object \in ClusterObjects(history.asked) BY DEF Licensed
<1>2. \A C : \A todo \in Seq(C) \ {<<>>} :
         p(todo) \in Passes(history.asked, C) /\ p(todo).copy.deleted = object.deleted
  BY <1>1 DEF Passes
<1>3. pass' = p(Finalize(object)) \/ pass' = p(Deploy(object)) BY DEF Begin
<1>4. object.deleted => pass' = p(Finalize(object)) BY DEF Begin
<1>5. ~object.deleted => pass' = p(Deploy(object)) BY DEF Begin
<1> HIDE DEF p
<1>6. PassOK(pass', object.deleted, history.asked)
  BY <1>1, <1>2, <1>4, <1>5, FinalizeLicensed, DeployLicensed DEF PassOK
<1>7. UNCHANGED <<object, history>> /\ VolumesKept'
  BY DEF Begin, world, claims, Licensed, VolumesKept
<1>8. QED BY <1>6, <1>7 DEF Licensed

\* Nothing but the object becomes deleted, and no volume is marked.
LEMMA OthersLicensed ==
    Licensed /\ (Edit \/ Delete \/ Kubernetes \/ GetsStopSignal) => Licensed'
<1> SUFFICES ASSUME Licensed, Edit \/ Delete \/ Kubernetes \/ GetsStopSignal PROVE Licensed'
  OBVIOUS
<1>1. pass' = pass /\ dying' \subseteq dying
  BY DEF Edit, Delete, Kubernetes, GetsStopSignal, world, claims, sets, PodStarts, PodStops, ClaimGoes,
         Issue, Restarted, GarbageCollect
<1>2. /\ history' \in Histories /\ history'.asked = history.asked
      /\ object' \in ClusterObjects(history.asked) /\ (object.deleted => object'.deleted)
  <2>1. history \in Histories /\ object \in ClusterObjects(history.asked) BY DEF Licensed
  <2>2. CASE Edit
    <3>1. \/ \E p \in Proxies : object' = [object EXCEPT !.proxy = p]
          \/ \E c \in Configs : object' = [object EXCEPT !.config = c]
      BY <2>2 DEF Edit
    <3>2. history' = history BY <2>2 DEF Edit
    <3>3. QED BY <2>1, <3>1, <3>2 DEF ClusterObjects
  <2>3. CASE Delete
    <3>1. PICK whole \in BOOLEAN : history' = [history EXCEPT !.whole = whole]
      BY <2>3 DEF Delete
    <3>2. PICK exists \in BOOLEAN : object' = [object EXCEPT !.deleted = TRUE, !.exists = exists]
      BY <2>1, <2>3 DEF Delete, ClusterObjects
    <3>3. QED BY <2>1, <3>1, <3>2 DEF ClusterObjects, Histories
  <2>4. CASE Kubernetes \/ GetsStopSignal
    BY <2>1, <2>4 DEF Kubernetes, GetsStopSignal, PodStarts, PodStops, ClaimGoes, Issue, Restarted, GarbageCollect
  <2>5. QED BY <2>2, <2>3, <2>4
<1>3. pass # Idle => PassOK(pass, object'.deleted, history.asked)
  BY <1>2, StaysLicensed DEF Licensed, ClusterObjects
<1>4. VolumesKept' BY <1>1, <1>2 DEF Licensed, VolumesKept
<1>5. QED BY <1>1, <1>2, <1>3, <1>4 DEF Licensed

\* The calls that put no others before those that are left, and mark no volumes.
LEMMA PlainLicensed ==
    Licensed /\ (Create \/ WriteConfigMap \/ Update \/ CreateSecret \/ DeleteServices) => Licensed'
<1> SUFFICES ASSUME Licensed, Create \/ WriteConfigMap \/ Update \/ CreateSecret \/ DeleteServices
             PROVE  Licensed'
  OBVIOUS
<1>1. pass # Idle /\ (pass' = Idle \/ pass' = Following(pass, <<>>))
  BY DEF Create, WriteConfigMap, Update, CreateSecret, DeleteServices, Call, Then
<1>2. UNCHANGED <<object, history, dying>>
  BY DEF Create, WriteConfigMap, Update, CreateSecret, DeleteServices, Elsewhere, claims
<1>3. VolumesKept' BY <1>2 DEF Licensed, VolumesKept
<1>4. QED BY <1>1, <1>2, <1>3, GoesOnWith

LEMMA OwnSecretsLicensed == \A deleted, asked : OwnSecrets \in Seq(DeployCalls(deleted, asked))
<1>1. SUFFICES ASSUME NEW deleted, NEW asked PROVE OwnSecrets \in Seq(DeployCalls(deleted, asked))
  OBVIOUS
<1>2. <<"own", "ssl">> \in DeployCalls(deleted, asked) /\ <<"own", "internal">> \in DeployCalls(deleted, asked)
  BY DEF DeployCalls, Tls
<1>3. QED BY <1>2 DEF OwnSecrets

\* The certificates are a matter of a pass that deploys.
LEMMA CertificatesLicensed == Licensed /\ (ReconcileSSL \/ WaitForCerts) => Licensed'
<1> SUFFICES ASSUME Licensed, ReconcileSSL \/ WaitForCerts PROVE Licensed'
  OBVIOUS
<1> DEFINE D == DeployCalls(object.deleted, history.asked)
           certs == <<<<"create", <<"certificate", "ssl">>>>, <<"create", <<"certificate", "internal">>>>, <<"wait", "pxc">>>>
<1>1. pass # Idle /\ (Call("ssl") \/ Call("wait")) BY DEF ReconcileSSL, WaitForCerts, Call
<1>2. ~pass.copy.deleted BY <1>1, NextCall
<1>3. certs \in Seq(D)
  <2>1. /\ <<"create", <<"certificate", "ssl">>>> \in D /\ <<"wait", "pxc">> \in D
        /\ <<"create", <<"certificate", "internal">>>> \in D
    BY DEF DeployCalls, Objects, Certificates, Tls, Parts
  <2> HIDE DEF D
  <2>2. QED BY <2>1
<1>4. <<>> \in Seq(D) OBVIOUS
<1>5. \E calls \in {<<>>, certs, OwnSecrets} : pass' = Following(pass, calls)
  BY DEF ReconcileSSL, WaitForCerts, Then
<1>6. UNCHANGED <<object, history, dying>>
  BY DEF ReconcileSSL, WaitForCerts, Elsewhere, world, claims
<1>7. VolumesKept' BY <1>6 DEF Licensed, VolumesKept
<1> HIDE DEF D, certs
<1>8. PICK calls \in Seq(D) : pass' = Following(pass, calls) BY <1>3, <1>4, <1>5, OwnSecretsLicensed DEF D
<1>9. QED BY <1>1, <1>2, <1>6, <1>7, <1>8, GoesOn DEF D

\* The claims of a set that is dropped are given up, and stay so until they go.
LEMMA DropLicensed == Licensed /\ (DeleteStatefulSet \/ DeletePVC) => Licensed'
<1> SUFFICES ASSUME Licensed, DeleteStatefulSet \/ DeletePVC PROVE Licensed'
  OBVIOUS
<1>1. pass # Idle /\ UNCHANGED <<object, history>>
  BY DEF DeleteStatefulSet, DropSet, DeletePVC, Call, Elsewhere
<1>2. CASE DeleteStatefulSet
  <2>1. VolumesKept' BY <1>2 DEF DeleteStatefulSet, DropSet, claims, Elsewhere, Licensed, VolumesKept
  <2>2. \/ pass' = Following(pass, <<>>)
        \/ Call("dropWithClaims") /\ pass' = Following(pass, <<<<"claims", Arg>>>>)
    BY <1>2 DEF DeleteStatefulSet, DropSet, Then
  <2>3. CASE pass' = Following(pass, <<>>) BY <1>1, <2>1, <2>3, GoesOnWith
  <2>4. CASE Call("dropWithClaims") /\ pass' = Following(pass, <<<<"claims", Arg>>>>)
    <3>1. Arg \in GivenUp(object.deleted, history.asked) BY <1>1, <2>4, NextCall
    <3>2. /\ <<"claims", Arg>> \in FinalizeCalls(object.deleted, history.asked)
          /\ <<"claims", Arg>> \in DeployCalls(object.deleted, history.asked)
      BY <3>1 DEF FinalizeCalls, DeployCalls, DropCalls
    <3>3. \A S : <<"claims", Arg>> \in S => <<<<"claims", Arg>>>> \in Seq(S) OBVIOUS
    <3>4. QED BY <1>1, <2>1, <2>4, <3>2, <3>3, GoesOn
  <2>5. QED BY <2>2, <2>3, <2>4
<1>3. CASE DeletePVC
  <2>1. Arg \in GivenUp(object.deleted, history.asked) BY <1>1, <1>3, NextCall DEF DeletePVC
  <2>2. \A p \in dying' : p \in dying \/ p[1] = Arg BY <1>3 DEF DeletePVC
  <2>3. VolumesKept' BY <1>1, <2>1, <2>2 DEF GivenUp, Licensed, VolumesKept
  <2>4. QED BY <1>1, <1>3, <2>3, GoesOnWith DEF DeletePVC, Then
<1>4. QED BY <1>2, <1>3

\* A finalizer is worked off: the object is deleted, and it was asked for.
LEMMA FinalizersLicensed == Licensed /\ (PodsInOrder \/ OtherFinalizer \/ ClaimsFinalizer) => Licensed'
<1> SUFFICES ASSUME Licensed, PodsInOrder \/ OtherFinalizer \/ ClaimsFinalizer PROVE Licensed'
  OBVIOUS
<1> DEFINE F == FinalizeCalls(object.deleted, history.asked)
<1>1. pass # Idle /\ Call("finalizer") BY DEF PodsInOrder, OtherFinalizer, ClaimsFinalizer, Call
<1>2. UNCHANGED <<object, history, dying>>
  BY DEF PodsInOrder, OtherFinalizer, ClaimsFinalizer, Elsewhere, world, claims
<1>3. VolumesKept' BY <1>2 DEF Licensed, VolumesKept
<1>4. /\ Arg \in history.asked /\ pass.copy.deleted /\ object.deleted
      /\ PassOK(pass, object.deleted, history.asked)
  BY <1>1, NextCall
<1>5. pass.err \in BOOLEAN BY <1>4 DEF PassOK, Passes
<1>6. ASSUME pass' # Idle PROVE PassOK(pass', object.deleted, history.asked)
  <2>1. CASE PodsInOrder
    <3>1. PICK waits \in BOOLEAN : pass' = Following(Keep(pass, Arg, waits), <<>>) BY <2>1 DEF PodsInOrder
    <3>2. QED BY <1>4, <1>6, <3>1, KeepOK, Zenon
  <2>2. CASE OtherFinalizer
    <3>1. pass' = Following(Keep(pass, Arg, pass.err), <<>>) BY <2>2 DEF OtherFinalizer
    <3>2. QED BY <1>4, <1>5, <1>6, <3>1, KeepOK, Zenon
  <2>3. CASE ClaimsFinalizer
    <3> DEFINE p == [pass EXCEPT !.err = FALSE]
    <3>1. PICK part \in GivenUp(object.deleted, history.asked) :
            pass' = Following(p, <<<<"dropWithClaims", part>>>>)
      <4>1. \/ /\ Arg = "pxc-pvc"
               /\ pass' = Following(p, <<<<"dropWithClaims", "pxc">>>>)
            \/ /\ Arg = "proxysql-pvc"
               /\ pass' = Following(p, <<<<"dropWithClaims", "proxysql">>>>)
        BY <2>3 DEF ClaimsFinalizer
      <4>2. QED BY <1>4, <4>1 DEF GivenUp
    <3>2. <<"dropWithClaims", part>> \in F BY DEF FinalizeCalls, DropCalls
    <3>3. <<<<"dropWithClaims", part>>>> \in Seq(F) BY <3>2
    <3>4. p.copy = pass.copy /\ PassOK(p, object.deleted, history.asked) BY <1>4 DEF PassOK, Passes
    <3> HIDE DEF p
    <3>5. QED BY <1>4, <1>6, <3>1, <3>3, <3>4, FollowingOK
  <2>4. QED BY <2>1, <2>2, <2>3
<1>7. QED BY <1>2, <1>3, <1>6 DEF Licensed

\* What is left of the list was on it.
LEMMA UnfinalizeLicensed == Licensed /\ Unfinalize => Licensed'
<1> SUFFICES ASSUME Licensed, Unfinalize PROVE Licensed'
  OBVIOUS
<1>1. pass.kept \in Seq(history.asked) BY NextCall DEF Unfinalize, Call
<1>2. /\ object' \in ClusterObjects(history.asked) /\ object'.deleted = object.deleted
      /\ pass' = Idle /\ UNCHANGED <<history, dying>>
  BY <1>1 DEF Unfinalize, Licensed, ClusterObjects, world, claims
<1>3. QED BY <1>2 DEF Licensed, VolumesKept

LEMMA CutKeeps == history \in Histories => Cut \in Histories /\ Cut.asked = history.asked
<1> DEFINE cut == (IF Call("claims") THEN {"claims"} ELSE {})
                    \cup (IF \E c \in TheSecond : Call(c[1]) /\ Arg = c[2] THEN {"secrets"} ELSE {})
<1>1. cut \subseteq {"claims", "secrets"} OBVIOUS
<1>2. Cut = [history EXCEPT !.cut = history.cut \cup cut] BY Zenon DEF Cut
<1> HIDE DEF cut
<1>3. QED BY <1>1, <1>2 DEF Histories

\* A call that fails: a finalizer is kept, the operator makes the certificates
\* itself, or the pass ends.
LEMMA CallFailsLicensed == Licensed /\ CallFails => Licensed'
<1> SUFFICES ASSUME Licensed, CallFails PROVE Licensed'
  OBVIOUS
<1> DEFINE D == DeployCalls(object.deleted, history.asked)
<1>1. pass # Idle /\ PassOK(pass, object.deleted, history.asked) BY NextCall DEF CallFails
<1>2. UNCHANGED <<object, dying>> /\ history' = Cut BY DEF CallFails, world, claims
<1>3. history' \in Histories /\ history'.asked = history.asked BY <1>2, CutKeeps DEF Licensed
<1>4. VolumesKept' BY <1>2, <1>3 DEF Licensed, VolumesKept
<1>5. ASSUME pass' # Idle PROVE PassOK(pass', object.deleted, history.asked)
  <2>1. CASE pass.copy.deleted /\ ~Call("unfinalize")
    <3> DEFINE f == FinalizerOf(Head(pass.todo))
    <3>1. pass' = Following(Keep(pass, f, TRUE), <<>>) BY <2>1 DEF CallFails
    <3>2. f \in history.asked BY <1>1, <2>1, NextCall
    <3> HIDE DEF f
    <3>3. QED BY <1>1, <1>5, <3>1, <3>2, KeepOK, Zenon
  <2>2. CASE ~pass.copy.deleted /\ IsCertManagers(Head(pass.todo))
    <3>1. PICK k \in 1 .. Len(pass.todo) :
            pass' = [pass EXCEPT !.todo = OwnSecrets \o SubSeq(pass.todo, k + 1, Len(pass.todo))]
      BY <2>2 DEF CallFails
    <3>2. pass \in Passes(history.asked, D) BY <1>1, <2>2 DEF PassOK
    <3>3. SubSeq(pass.todo, k + 1, Len(pass.todo)) \in Seq(D) BY <3>2, RestIn DEF Passes
    <3>4. OwnSecrets \in Seq(D) /\ OwnSecrets # <<>> BY OwnSecretsLicensed DEF OwnSecrets
    <3> HIDE DEF D
    <3>5. OwnSecrets \o SubSeq(pass.todo, k + 1, Len(pass.todo)) \in Seq(D) \ {<<>>}
      BY <3>3, <3>4, ConcatIn
    <3>6. pass' \in Passes(history.asked, D) /\ pass'.copy = pass.copy BY <3>1, <3>2, <3>5 DEF Passes
    <3>7. QED BY <2>2, <3>6 DEF PassOK, D
  <2>3. QED BY <1>5, <2>1, <2>2 DEF CallFails
<1>6. QED BY <1>2, <1>3, <1>4, <1>5 DEF Licensed

\* Nothing is left of a pass that is cut short.
LEMMA EndLicensed == Licensed /\ (Dies \/ Stop) => Licensed'
<1> SUFFICES ASSUME Licensed, Dies \/ Stop PROVE Licensed'
  OBVIOUS
<1>1. pass' = Idle /\ UNCHANGED <<object, dying>> BY DEF Dies, Stop, world, claims
<1>2. history' = Cut \/ history' = history BY DEF Dies, Stop
<1>3. history' \in Histories /\ history'.asked = history.asked BY <1>2, CutKeeps DEF Licensed
<1>4. QED BY <1>1, <1>3 DEF Licensed, VolumesKept

LEMMA NextLicensed == Licensed /\ [Next]_vars => Licensed'
<1> SUFFICES ASSUME Licensed, [Next]_vars PROVE Licensed'
  OBVIOUS
<1>1. CASE Reconcile
  BY <1>1, PlainLicensed, CertificatesLicensed, DropLicensed, FinalizersLicensed, UnfinalizeLicensed DEF Reconcile
<1>2. CASE UNCHANGED vars BY <1>2 DEF vars, world, claims, Licensed, VolumesKept
<1>3. QED
  BY <1>1, <1>2, BeginLicensed, OthersLicensed, CallFailsLicensed, EndLicensed DEF Next

\* The claims of a database that was not deleted, or whose finalizer nobody asked
\* for, are never marked; nor ProxySQL's without its finalizer. Whatever a pass
\* still does of a copy it read before, whatever fails in between
\* (deleteStatefulSet, deletePVC, the finalizers of Reconcile).
THEOREM VolumesAlwaysKept == Spec => []VolumesKept
<1>1. Licensed => VolumesKept BY DEF Licensed
<1>2. QED BY <1>1, InitLicensed, NextLicensed, PTL DEF Spec
-----------------------------------------------------------------------------
(* Pods in order.                                                           *)

Ordered     == "pods-in-order" \in history.asked /\ "pxc-pvc" \notin history.asked
Numbered(n) == {"pxc"} \X (0 .. n - 1)

\* One pod at most is there, and no other will start.
Few == replicas = 1 /\ PodsOf("pxc") \subseteq Numbered(1)

InTurn == <<"finalizer", "pods-in-order">>

\* The object is written back by the last call only.
LastOnly(calls) == \A k \in 1 .. Len(calls) - 1 : calls[k] # <<"unfinalize", "pxc">>

\* The set is there while its pods are, and the finalizer while it is not due.
Founded ==
    /\ pods \subseteq AllPods /\ replicas \in {1, Size}
    /\ ~object.deleted => replicas = Size
    /\ pass # Idle => pass.copy.exists /\ (pass.copy.deleted => LastOnly(pass.todo))
    /\ Ordered =>
         /\ ~object.deleted => object.exists /\ "pods-in-order" \in ToSet(object.finalizers)
         /\ object.exists /\ PodsOf("pxc") # {} => SetOf("pxc") \in objects
         /\ pass # Idle /\ ~pass.copy.deleted => object.exists

\* A pass that still deploys finds all pods; one that works off the finalizers
\* has this one before it, keeps it, or finds few pods.
PassInOrder ==
    IF pass.copy.deleted
    THEN \/ Few
         \/ "pods-in-order" \in ToSet(pass.kept)
         \/ InTurn \in ToSet(pass.todo)
         \/ "pods-in-order" \notin ToSet(pass.copy.finalizers)
    ELSE replicas = Size /\ PodsOf("pxc") = Numbered(Size)

\* The pods are the first ones, and the finalizer stays until they are few.
Shrinking ==
    Ordered /\ history.whole /\ object.deleted =>
        /\ \E n \in 0 .. Size : PodsOf("pxc") = Numbered(n) /\ (n = Size \/ replicas = 1)
        /\ "pods-in-order" \in ToSet(object.finalizers) \/ Few
        /\ ~object.exists => Few
        /\ pass # Idle => PassInOrder

\* There are as many numbered pods as their number says.
LEMMA CountNumbered ==
    \A n \in Nat : IsFiniteSet(Numbered(n)) /\ Cardinality(Numbered(n)) = n
<1> SUFFICES ASSUME NEW n \in Nat PROVE IsFiniteSet(Numbered(n)) /\ Cardinality(Numbered(n)) = n
  OBVIOUS
<1>1. n - 1 \in Int /\ 0 \in Int OBVIOUS
<1>2. IsFiniteSet(0 .. n - 1) /\ Cardinality(0 .. n - 1) = n BY <1>1, FS_Interval
<1>3. IsFiniteSet({"pxc"}) /\ Cardinality({"pxc"}) = 1 BY FS_Singleton
<1>4. IsFiniteSet(Numbered(n)) /\ Cardinality(Numbered(n)) = Cardinality({"pxc"}) * Cardinality(0 .. n - 1)
  BY <1>2, <1>3, FS_Product, Zenon DEF Numbered
<1>5. QED BY <1>2, <1>3, <1>4

\* Without its head, and with one other call before it.
LEMMA Onwards ==
    ASSUME NEW S, NEW s \in Seq(S), s # <<>>, LastOnly(s), NEW x \in S, x # <<"unfinalize", "pxc">>,
           NEW calls \in {<<>>, <<x>>}, calls \o Tail(s) # <<>>
    PROVE  /\ LastOnly(calls \o Tail(s))
           /\ InTurn \in ToSet(s) => Head(s) = InTurn \/ InTurn \in ToSet(calls \o Tail(s))
<1>1. Len(s) \in Nat /\ Len(s) > 0 /\ Head(s) = s[1] /\ Tail(s) \in Seq(S)
  OBVIOUS
<1>2. Len(Tail(s)) = Len(s) - 1 /\ \A k \in 1 .. Len(s) - 1 : Tail(s)[k] = s[k + 1]
  OBVIOUS
<1>3. ASSUME NEW k \in 1 .. Len(s), s[k] = InTurn, k # 1
      PROVE  k - 1 \in 1 .. Len(Tail(s)) /\ Tail(s)[k - 1] = InTurn
  <2>1. k - 1 \in 1 .. Len(s) - 1 /\ (k - 1) + 1 = k BY <1>1, <1>3
  <2>2. QED BY <1>2, <1>3, <2>1
<1>4. CASE calls = <<>>
  <2>1. calls \o Tail(s) = Tail(s) BY <1>1, <1>4
  <2>2. LastOnly(Tail(s)) BY <1>1, <1>2 DEF LastOnly
  <2>3. ASSUME NEW k \in 1 .. Len(s), s[k] = InTurn, k # 1 PROVE InTurn \in ToSet(Tail(s))
    <3>1. k - 1 \in DOMAIN Tail(s) BY <1>1, <1>3, <2>3
    <3>2. QED BY <1>3, <2>3, <3>1 DEF ToSet
  <2>4. InTurn \in ToSet(s) => Head(s) = InTurn \/ InTurn \in ToSet(Tail(s))
    <3>1. SUFFICES ASSUME NEW k \in 1 .. Len(s), s[k] = InTurn
                   PROVE  Head(s) = InTurn \/ InTurn \in ToSet(Tail(s))
      BY <1>1 DEF ToSet
    <3>2. QED BY <1>1, <2>3, <3>1
  <2>5. QED BY <2>1, <2>2, <2>4, Zenon
<1>5. CASE calls = <<x>>
  <2> DEFINE t == calls \o Tail(s)
  <2>1. Len(t) = Len(s) /\ t[1] = x /\ \A k \in 2 .. Len(s) : t[k] = s[k]
    BY <1>1, <1>2, <1>5
  <2>2. LastOnly(t)
    <3> HIDE DEF t
    <3>1. ASSUME NEW k \in 1 .. Len(t) - 1 PROVE t[k] # <<"unfinalize", "pxc">>
      <4>1. k \in 1 .. Len(s) - 1 /\ (k = 1 \/ k \in 2 .. Len(s)) BY <1>1, <2>1
      <4>2. s[k] # <<"unfinalize", "pxc">> BY <4>1 DEF LastOnly
      <4>3. QED BY <2>1, <4>1, <4>2
    <3>2. QED BY <3>1 DEF LastOnly
  <2>3. ASSUME NEW k \in 1 .. Len(s), s[k] = InTurn, k # 1 PROVE InTurn \in ToSet(t)
    <3>1. t[k] = InTurn /\ k \in 1 .. Len(t) BY <1>1, <2>1, <2>3
    <3>2. QED BY <1>1, <1>5, <3>1 DEF ToSet
  <2>4. QED BY <1>1, <2>2, <2>3 DEF ToSet
<1>6. QED BY <1>4, <1>5

\* The calls of a pass that begins have the object's finalizers in them.
LEMMA FinalizeInTurn ==
    ASSUME NEW asked, NEW c \in ClusterObjects(asked)
    PROVE  /\ LastOnly(Finalize(c))
           /\ "pods-in-order" \in ToSet(c.finalizers) => InTurn \in ToSet(Finalize(c))
<1> DEFINE l == c.finalizers
           each == [k \in 1 .. Len(l) |-> <<"finalizer", l[k]>>]
           last == <<<<"unfinalize", "pxc">>>>
<1>1. l \in Seq(asked) BY DEF ClusterObjects
<1>2. Len(l) \in Nat BY <1>1
<1>3. each \in Seq({"finalizer"} \X asked) /\ Len(each) = Len(l)
  <2>1. \A k \in 1 .. Len(l) : <<"finalizer", l[k]>> \in {"finalizer"} \X asked BY <1>1, ElementOf
  <2>2. QED BY <1>2, <2>1
<1>4. Finalize(c) = each \o last BY DEF Finalize
<1>5. \A k \in 1 .. Len(l) : each[k] = <<"finalizer", l[k]>> OBVIOUS
<1> HIDE DEF each
<1>6. Len(Finalize(c)) = Len(l) + 1 /\ \A k \in 1 .. Len(l) : Finalize(c)[k] = each[k]
  BY <1>2, <1>3, <1>4
<1>7. LastOnly(Finalize(c)) BY <1>2, <1>5, <1>6 DEF LastOnly
<1>8. ASSUME NEW k \in 1 .. Len(l), l[k] = "pods-in-order" PROVE InTurn \in ToSet(Finalize(c))
  <2>1. Finalize(c)[k] = InTurn /\ k \in DOMAIN Finalize(c)
    BY <1>2, <1>3, <1>4, <1>5, <1>6, <1>8 DEF InTurn
  <2>2. QED BY <2>1 DEF ToSet
<1>9. QED BY <1>1, <1>7, <1>8 DEF ToSet

\* What a step of a pass may make of it.
Onward ==
    pass' # Idle =>
        /\ pass'.copy = pass.copy
        /\ pass.copy.deleted =>
             /\ LastOnly(pass'.todo)
             /\ "pods-in-order" \in ToSet(pass.kept) => "pods-in-order" \in ToSet(pass'.kept)
             /\ InTurn \in ToSet(pass.todo) =>
                  (Call("finalizer") /\ Arg = "pods-in-order") \/ InTurn \in ToSet(pass'.todo)

\* A step of a pass that leaves the pods alone, the set of the database where
\* it is, and its size as configured.
LEMMA PassShrinking ==
    ASSUME Licensed, Founded, Shrinking, pass # Idle, UNCHANGED <<object, pods>>,
           history'.asked = history.asked, history'.whole = history.whole, Onward,
           Ordered /\ SetOf("pxc") \in objects => SetOf("pxc") \in objects',
           replicas' = replicas \/ (~pass.copy.deleted /\ replicas' = Size),
           Call("finalizer") /\ Arg = "pods-in-order" => pass' = Idle \/ "pods-in-order" \in ToSet(pass'.kept)
    PROVE  Founded' /\ Shrinking'
<1>1. PodsOf("pxc")' = PodsOf("pxc") /\ Ordered' = Ordered BY DEF PodsOf, Ordered
<1>2. pass.copy.deleted => object.deleted BY DEF Licensed, PassOK
<1>3. Founded'
  BY <1>1 DEF Founded, Onward
<1>4. Shrinking'
  <2> SUFFICES ASSUME Ordered, history.whole, object.deleted
               PROVE  /\ \E n \in 0 .. Size : PodsOf("pxc") = Numbered(n) /\ (n = Size \/ replicas' = 1)
                      /\ "pods-in-order" \in ToSet(object.finalizers) \/ Few'
                      /\ ~object.exists => Few'
                      /\ pass' # Idle => PassInOrder'
    BY <1>1 DEF Shrinking
  <2>1. /\ \E n \in 0 .. Size : PodsOf("pxc") = Numbered(n) /\ (n = Size \/ replicas = 1)
        /\ "pods-in-order" \in ToSet(object.finalizers) \/ Few
        /\ ~object.exists => Few
        /\ PassInOrder
    BY DEF Shrinking
  <2>2. replicas' = replicas BY <2>1 DEF PassInOrder
  <2>3. Few' = Few BY <1>1, <2>2 DEF Few
  <2>4. pass' # Idle => PassInOrder'
    BY <1>1, <2>1, <2>2, <2>3 DEF PassInOrder, Onward
  <2>5. QED BY <2>1, <2>2, <2>3, <2>4
<1>5. QED BY <1>3, <1>4

\* Calls put before those that are left, or none.
LEMMA FollowingOnward ==
    ASSUME Licensed, Founded, pass # Idle, NEW p,
           p = pass \/ \E err \in BOOLEAN : p = [pass EXCEPT !.err = err],
           NEW x,
           pass.copy.deleted =>
             /\ x \in FinalizeCalls(object.deleted, history.asked) /\ x # <<"unfinalize", "pxc">>
             /\ pass' \in {Following(p, <<>>), Following(p, <<x>>)},
           pass' = Idle \/ \E calls : pass' = Following(p, calls)
    PROVE  Onward
<1> DEFINE F == FinalizeCalls(object.deleted, history.asked)
<1>1. PICK Calls : pass \in Passes(history.asked, Calls) /\ (pass.copy.deleted => Calls = F)
  BY DEF Licensed, PassOK
<1>2. p \in Passes(history.asked, Calls) /\ p.copy = pass.copy /\ p.kept = pass.kept /\ p.todo = pass.todo
  BY <1>1 DEF Passes
<1>3. \A calls : Following(p, calls) # Idle =>
        /\ calls \o Tail(pass.todo) # <<>>
        /\ Following(p, calls).copy = pass.copy
        /\ Following(p, calls).kept = pass.kept
        /\ Following(p, calls).todo = calls \o Tail(pass.todo)
  <2> SUFFICES ASSUME NEW calls, Following(p, calls) # Idle
               PROVE  /\ calls \o Tail(pass.todo) # <<>>
                      /\ Following(p, calls).copy = pass.copy
                      /\ Following(p, calls).kept = pass.kept
                      /\ Following(p, calls).todo = calls \o Tail(pass.todo)
    OBVIOUS
  <2> DEFINE t == calls \o Tail(p.todo)
  <2>1. t # <<>> /\ Following(p, calls) = [p EXCEPT !.todo = t] BY DEF Following
  <2> HIDE DEF t
  <2>2. Following(p, calls).copy = p.copy /\ Following(p, calls).kept = p.kept /\ Following(p, calls).todo = t
    BY <1>2, <2>1 DEF Passes
  <2>3. QED BY <1>2, <2>1, <2>2 DEF t
<1>4. pass' # Idle => pass'.copy = pass.copy BY <1>3
<1>5. ASSUME pass' # Idle, pass.copy.deleted
      PROVE  /\ LastOnly(pass'.todo) /\ pass'.kept = pass.kept
             /\ InTurn \in ToSet(pass.todo) => Head(pass.todo) = InTurn \/ InTurn \in ToSet(pass'.todo)
  <2>1. PICK calls \in {<<>>, <<x>>} : pass' = Following(p, calls) BY <1>5
  <2>2. pass.todo \in Seq(F) /\ pass.todo # <<>> /\ LastOnly(pass.todo)
    BY <1>1, <1>5 DEF Passes, Founded
  <2>3. /\ calls \o Tail(pass.todo) # <<>> /\ pass'.todo = calls \o Tail(pass.todo)
        /\ pass'.kept = pass.kept
    BY <1>3, <1>5, <2>1
  <2>4. x \in F /\ x # <<"unfinalize", "pxc">> BY <1>5
  <2> HIDE DEF F
  <2>5. /\ LastOnly(calls \o Tail(pass.todo))
        /\ InTurn \in ToSet(pass.todo) =>
             Head(pass.todo) = InTurn \/ InTurn \in ToSet(calls \o Tail(pass.todo))
    BY <2>2, <2>3, <2>4, Onwards
  <2>6. QED BY <2>3, <2>5
<1>6. Head(pass.todo) = InTurn => Call("finalizer") /\ Arg = "pods-in-order" BY DEF Call, Arg, InTurn
<1>7. QED BY <1>4, <1>5, <1>6 DEF Onward

\* A finalizer is kept, or not.
LEMMA KeepOnward ==
    ASSUME Licensed, Founded, pass # Idle, pass.copy.deleted, NEW f \in history.asked, NEW err \in BOOLEAN,
           pass' = Following(Keep(pass, f, err), <<>>)
    PROVE  Onward /\ (pass' # Idle /\ err => f \in ToSet(pass'.kept))
<1> DEFINE F == FinalizeCalls(object.deleted, history.asked)
           p == Keep(pass, f, err)
<1>1. pass \in Passes(history.asked, F) BY DEF Licensed, PassOK
<1>2. /\ p \in Passes(history.asked, F) /\ p.copy = pass.copy /\ p.todo = pass.todo
      /\ p.kept = IF err THEN Append(pass.kept, f) ELSE pass.kept
  <2>1. pass.kept \in Seq(history.asked) /\ Append(pass.kept, f) \in Seq(history.asked) BY <1>1 DEF Passes
  <2>2. QED BY <1>1, <2>1 DEF Keep, Passes
<1>3. \A g : g \in ToSet(pass.kept) => g \in ToSet(Append(pass.kept, f))
  <2>1. pass.kept \in Seq(history.asked) BY <1>1 DEF Passes
  <2>2. \A k \in DOMAIN pass.kept : k \in DOMAIN Append(pass.kept, f) /\ Append(pass.kept, f)[k] = pass.kept[k]
    BY <2>1
  <2>3. QED BY <2>2 DEF ToSet
<1>4. f \in ToSet(Append(pass.kept, f))
  <2>1. pass.kept \in Seq(history.asked) BY <1>1 DEF Passes
  <2>2. Len(pass.kept) + 1 \in DOMAIN Append(pass.kept, f) /\ Append(pass.kept, f)[Len(pass.kept) + 1] = f
    BY <2>1
  <2>3. QED BY <2>2 DEF ToSet
<1> HIDE DEF p
<1>5. ASSUME pass' # Idle
      PROVE  /\ pass'.copy = pass.copy /\ pass'.kept = p.kept
             /\ <<>> \o Tail(pass.todo) # <<>> /\ pass'.todo = <<>> \o Tail(pass.todo)
  <2> DEFINE t == <<>> \o Tail(p.todo)
  <2>1. t # <<>> /\ pass' = [p EXCEPT !.todo = t] BY <1>5 DEF Following, p
  <2> HIDE DEF t
  <2>2. QED BY <1>2, <2>1 DEF Passes, t
<1>6. ASSUME pass' # Idle
      PROVE  /\ LastOnly(pass'.todo)
             /\ InTurn \in ToSet(pass.todo) => Head(pass.todo) = InTurn \/ InTurn \in ToSet(pass'.todo)
  <2>1. pass.todo \in Seq(F) /\ pass.todo # <<>> /\ LastOnly(pass.todo) BY <1>1 DEF Passes, Founded
  <2>2. <<"finalizer", f>> \in F /\ <<"finalizer", f>> # <<"unfinalize", "pxc">> BY DEF FinalizeCalls
  <2> HIDE DEF F
  <2>3. QED BY <1>5, <1>6, <2>1, <2>2, Onwards
<1>7. Head(pass.todo) = InTurn => Call("finalizer") /\ Arg = "pods-in-order" BY DEF Call, Arg, InTurn
<1>8. pass' # Idle => \A g : g \in ToSet(pass.kept) => g \in ToSet(pass'.kept) BY <1>2, <1>3, <1>5
<1>9. QED BY <1>2, <1>4, <1>5, <1>6, <1>7, <1>8 DEF Onward

\* The deploying calls: the set of the database is never among what they drop.
LEMMA DeployShrinks ==
    ASSUME Licensed, Founded, Shrinking,
           \/ Create \/ WriteConfigMap \/ Update \/ ReconcileSSL \/ WaitForCerts \/ CreateSecret
           \/ DeleteServices
    PROVE  Founded' /\ Shrinking'
<1>1. pass # Idle /\ ~pass.copy.deleted
  <2>1. pass # Idle
    BY DEF Create, WriteConfigMap, Update, ReconcileSSL, WaitForCerts, CreateSecret, DeleteServices, Call
  <2>2. \E op \in {"create", "config", "update", "ssl", "wait", "own", "drop", "delete"} : Call(op)
    BY DEF Create, WriteConfigMap, Update, ReconcileSSL, WaitForCerts, CreateSecret, DeleteServices
  <2>3. QED BY <2>1, <2>2, NextCall
<1>2. UNCHANGED <<object, pods, history>>
  BY DEF Create, WriteConfigMap, Update, ReconcileSSL, WaitForCerts, CreateSecret, DeleteServices,
         Elsewhere, world
<1>3. SetOf("pxc") \in objects => SetOf("pxc") \in objects'
  <2>1. CASE DeleteServices
    <3>1. Arg # SetOf("pxc") BY <1>1, <2>1, NextCall DEF DeleteServices, SetOf
    <3>2. QED BY <2>1, <3>1 DEF DeleteServices
  <2>2. CASE ~DeleteServices
    BY <2>2 DEF Create, WriteConfigMap, Update, ReconcileSSL, WaitForCerts, CreateSecret, world
  <2>3. QED BY <2>1, <2>2
<1>4. replicas' = replicas \/ replicas' = Size
  BY DEF Create, WriteConfigMap, Update, ReconcileSSL, WaitForCerts, CreateSecret, DeleteServices,
         world, sets
<1>5. pass' = Idle \/ \E calls : pass' = Following(pass, calls)
  BY Zenon DEF Create, WriteConfigMap, Update, ReconcileSSL, WaitForCerts, CreateSecret, DeleteServices, Then
<1>6. Onward
  <2>1. \E Calls : pass \in Passes(history.asked, Calls) BY <1>1 DEF Licensed, PassOK
  <2>2. ASSUME NEW calls, Following(pass, calls) # Idle PROVE Following(pass, calls).copy = pass.copy
    <3> DEFINE t == calls \o Tail(pass.todo)
    <3>1. Following(pass, calls) = [pass EXCEPT !.todo = t] BY <2>2 DEF Following
    <3> HIDE DEF t
    <3>2. QED BY <2>1, <3>1 DEF Passes
  <2>3. QED BY <1>1, <1>5, <2>2 DEF Onward
<1>7. ~(Call("finalizer") /\ Arg = "pods-in-order") BY <1>1, NextCall
<1>8. QED BY <1>1, <1>2, <1>3, <1>4, <1>6, <1>7, PassShrinking

\* Sets are dropped with their claims for a finalizer, and without for a proxy:
\* not that of the database, where its finalizer was not asked for.
LEMMA DropShrinks ==
    ASSUME Licensed, Founded, Shrinking, DeleteStatefulSet \/ DeletePVC \/ ClaimsFinalizer
    PROVE  Founded' /\ Shrinking'
<1>1. pass # Idle BY DEF DeleteStatefulSet, DropSet, DeletePVC, ClaimsFinalizer, Call
<1>2. UNCHANGED <<object, pods, history, replicas>>
  BY DEF DeleteStatefulSet, DropSet, DeletePVC, ClaimsFinalizer, Elsewhere, world, sets
<1>3. Ordered /\ SetOf("pxc") \in objects => SetOf("pxc") \in objects'
  <2>1. ASSUME Ordered, DeleteStatefulSet PROVE Arg # "pxc"
    BY <1>1, <2>1, NextCall DEF DeleteStatefulSet, Ordered, GivenUp
  <2>2. DeleteStatefulSet => objects' = objects \ {SetOf(Arg)}
    BY DEF DeleteStatefulSet, DropSet
  <2>3. DeletePVC \/ ClaimsFinalizer => objects' = objects
    BY DEF DeletePVC, ClaimsFinalizer, world
  <2>4. QED BY <2>1, <2>2, <2>3 DEF SetOf
<1>4. Onward
  <2> DEFINE G == GivenUp(object.deleted, history.asked)
             F == FinalizeCalls(object.deleted, history.asked)
  <2>1. \A op \in {"claims", "dropWithClaims"}, part \in G :
          <<op, part>> \in F /\ <<op, part>> # <<"unfinalize", "pxc">>
    BY DEF FinalizeCalls, DropCalls
  <2>2. CASE DeletePVC
    <3>1. Arg \in G BY <1>1, <2>2, NextCall DEF DeletePVC
    <3>2. pass' = Following(pass, <<>>) BY <2>2 DEF DeletePVC, Then
    <3> HIDE DEF G, F
    <3>3. QED BY <1>1, <2>1, <3>1, <3>2, FollowingOnward DEF F
  <2>3. CASE DeleteStatefulSet
    <3>1. \/ Call("drop") /\ pass' = Following(pass, <<>>)
          \/ /\ Call("dropWithClaims")
             /\ pass' = Following(pass, <<>>) \/ pass' = Following(pass, <<<<"claims", Arg>>>>)
      BY <2>3 DEF DeleteStatefulSet, DropSet, Then
    <3>2. Call("drop") => ~pass.copy.deleted BY <1>1, NextCall
    <3>3. Call("dropWithClaims") => Arg \in G BY <1>1, NextCall
    <3> HIDE DEF G, F
    <3>4. pass.copy.deleted => <<"claims", Arg>> \in F /\ <<"claims", Arg>> # <<"unfinalize", "pxc">>
      BY <2>1, <3>1, <3>2, <3>3
    <3>5. QED BY <1>1, <3>1, <3>4, FollowingOnward DEF F
  <2>4. CASE ClaimsFinalizer
    <3> DEFINE p == [pass EXCEPT !.err = FALSE]
    <3>1. PICK part \in G : pass' = Following(p, <<<<"dropWithClaims", part>>>>)
      <4>1. \/ /\ Arg = "pxc-pvc"
               /\ pass' = Following(p, <<<<"dropWithClaims", "pxc">>>>)
            \/ /\ Arg = "proxysql-pvc"
               /\ pass' = Following(p, <<<<"dropWithClaims", "proxysql">>>>)
        BY <2>4 DEF ClaimsFinalizer
      <4>2. Arg \in history.asked /\ object.deleted BY <1>1, <2>4, NextCall DEF ClaimsFinalizer
      <4>3. QED BY <4>1, <4>2 DEF GivenUp
    <3>2. \E err \in BOOLEAN : p = [pass EXCEPT !.err = err] OBVIOUS
    <3> HIDE DEF p, F, G
    <3>3. <<"dropWithClaims", part>> \in F /\ <<"dropWithClaims", part>> # <<"unfinalize", "pxc">>
      BY <2>1
    <3>4. QED BY <1>1, <3>1, <3>2, <3>3, FollowingOnward DEF F
  <2>5. QED BY <2>2, <2>3, <2>4
<1>5. ~(Call("finalizer") /\ Arg = "pods-in-order")
  BY DEF DeleteStatefulSet, DeletePVC, ClaimsFinalizer, Call
<1>6. QED BY <1>1, <1>2, <1>3, <1>4, <1>5, PassShrinking

\* The finalizer of somebody else.
LEMMA OtherShrinks ==
    ASSUME Licensed, Founded, Shrinking, OtherFinalizer
    PROVE  Founded' /\ Shrinking'
<1>1. pass # Idle /\ Call("finalizer") /\ Arg = "other" BY DEF OtherFinalizer, Call
<1>2. Arg \in history.asked /\ pass.copy.deleted BY <1>1, NextCall
<1>3. pass.err \in BOOLEAN BY <1>1 DEF Licensed, PassOK, Passes
<1>4. pass' = Following(Keep(pass, Arg, pass.err), <<>>) BY DEF OtherFinalizer
<1>5. Onward BY <1>1, <1>2, <1>3, <1>4, KeepOnward
<1>6. UNCHANGED <<object, pods, history, replicas, objects>> BY DEF OtherFinalizer, Elsewhere, world, sets
<1>7. QED BY <1>1, <1>5, <1>6, PassShrinking

\* The finalizer in question: it is dropped when few pods are there.
LEMMA OrderShrinks ==
    ASSUME Licensed, Founded, Shrinking, PodsInOrder
    PROVE  Founded' /\ Shrinking'
<1> DEFINE waits == Cardinality(PodsOf("pxc")) \notin {0, 1}
<1>1. pass # Idle /\ Call("finalizer") /\ Arg = "pods-in-order" BY DEF PodsInOrder, Call
<1>2. Arg \in history.asked /\ pass.copy.deleted /\ object.deleted BY <1>1, NextCall
<1>3. pass' = Following(Keep(pass, Arg, waits), <<>>) /\ waits \in BOOLEAN BY DEF PodsInOrder
<1>4. /\ UNCHANGED <<object, objects, pods, history>>
      /\ replicas' = IF waits /\ SetOf("pxc") \in objects THEN 1 ELSE replicas
  BY DEF PodsInOrder, Elsewhere
<1>5. Onward /\ (pass' # Idle /\ waits => "pods-in-order" \in ToSet(pass'.kept))
  BY <1>1, <1>2, <1>3, KeepOnward
<1>6. PodsOf("pxc")' = PodsOf("pxc") /\ Ordered' = Ordered BY <1>4 DEF PodsOf, Ordered
<1> HIDE DEF waits
<1>7. Founded' BY <1>1, <1>2, <1>4, <1>5, <1>6 DEF Founded, Onward
<1>8. Shrinking'
  <2> SUFFICES ASSUME Ordered, history.whole, object.deleted
               PROVE  /\ \E n \in 0 .. Size : PodsOf("pxc") = Numbered(n) /\ (n = Size \/ replicas' = 1)
                      /\ "pods-in-order" \in ToSet(object.finalizers) \/ Few'
                      /\ ~object.exists => Few'
                      /\ pass' # Idle => PassInOrder'
    BY <1>4, <1>6 DEF Shrinking
  <2>1. PICK n \in 0 .. Size : PodsOf("pxc") = Numbered(n) /\ (n = Size \/ replicas = 1)
    BY DEF Shrinking
  <2>2. replicas' = replicas \/ replicas' = 1 BY <1>4
  <2>3. Few => Few' BY <1>6, <2>2 DEF Few
  <2>4. ~waits => Few
    <3>1. n \in Nat /\ Size \in Nat /\ Size # 0 /\ Cardinality(PodsOf("pxc")) = n
      BY <2>1, SizeAssumption, CountNumbered DEF SizeAssumption
    <3>2. ~waits => n \in {0, 1} BY <3>1 DEF waits
    <3>3. n \in {0, 1} => replicas = 1 BY <2>1, <3>1 DEF Founded
    <3>4. n \in {0, 1} => Numbered(n) \subseteq Numbered(1) BY DEF Numbered
    <3>5. QED BY <2>1, <3>2, <3>3, <3>4 DEF Few
  <2>5. pass' # Idle => PassInOrder'
    <3>1. SUFFICES ASSUME pass' # Idle PROVE PassInOrder'
      OBVIOUS
    <3>2. pass'.copy.deleted BY <1>2, <1>5, <3>1 DEF Onward
    <3>3. CASE waits BY <1>5, <3>1, <3>2, <3>3 DEF PassInOrder
    <3>4. CASE ~waits BY <2>3, <2>4, <3>2, <3>4 DEF PassInOrder
    <3>5. QED BY <3>3, <3>4
  <2>6. QED BY <2>1, <2>2, <2>3, <2>5 DEF Shrinking
<1>9. QED BY <1>7, <1>8

\* What is kept is written back, to the object that the pass has read.
LEMMA UnfinalizeShrinks ==
    ASSUME Licensed, Founded, Shrinking, Unfinalize
    PROVE  Founded' /\ Shrinking'
<1>1. pass # Idle /\ Call("unfinalize") /\ pass.copy.deleted /\ pass.kept \in Seq(history.asked)
  BY NextCall DEF Unfinalize, Call
<1>2. /\ pass' = Idle /\ UNCHANGED <<objects, replicas, pods, history>>
      /\ object' = object \/ (/\ object = pass.copy
                              /\ object'.deleted = object.deleted
                              /\ object'.finalizers = pass.kept
                              /\ object'.exists = (pass.kept # <<>>))
  BY DEF Unfinalize, world, sets, Licensed, ClusterObjects
<1>3. PodsOf("pxc")' = PodsOf("pxc") /\ Ordered' = Ordered /\ Few' = Few BY <1>2 DEF PodsOf, Ordered, Few
<1>4. object.deleted BY <1>1 DEF Licensed, PassOK
<1>5. object = pass.copy => object.exists BY <1>1 DEF Founded
<1>6. Founded' BY <1>2, <1>3, <1>4, <1>5 DEF Founded
<1>7. InTurn \notin ToSet(pass.todo)
  <2>1. pass.todo \in Seq(FinalizeCalls(object.deleted, history.asked)) /\ pass.todo # <<>> /\ LastOnly(pass.todo)
    BY <1>1 DEF Licensed, PassOK, Passes, Founded
  <2>2. Head(pass.todo) = pass.todo[1] /\ Len(pass.todo) \in Nat \ {0} BY <2>1
  <2>3. pass.todo[1] \in FinalizeCalls(object.deleted, history.asked) /\ pass.todo[1][1] = "unfinalize"
    BY <1>1, <2>1, <2>2, ElementOf DEF Call
  <2>4. pass.todo[1] = <<"unfinalize", "pxc">> BY <2>3 DEF FinalizeCalls, DropCalls
  <2>5. Len(pass.todo) = 1
    <3>1. \A l \in Nat \ {0} : l # 1 => 1 \in 1 .. l - 1 OBVIOUS
    <3>2. QED BY <2>1, <2>2, <2>4, <3>1 DEF LastOnly
  <2>6. ToSet(pass.todo) = {pass.todo[1]} BY <2>1, <2>5 DEF ToSet
  <2>7. QED BY <2>4, <2>6 DEF InTurn
<1>8. Shrinking'
  <2> SUFFICES ASSUME Ordered, history.whole
               PROVE  /\ \E n \in 0 .. Size : PodsOf("pxc") = Numbered(n) /\ (n = Size \/ replicas = 1)
                      /\ "pods-in-order" \in ToSet(object'.finalizers) \/ Few
                      /\ ~object'.exists => Few
    BY <1>2, <1>3 DEF Shrinking
  <2>1. /\ \E n \in 0 .. Size : PodsOf("pxc") = Numbered(n) /\ (n = Size \/ replicas = 1)
        /\ "pods-in-order" \in ToSet(object.finalizers) \/ Few
        /\ ~object.exists => Few
        /\ Few \/ "pods-in-order" \in ToSet(pass.kept) \/ "pods-in-order" \notin ToSet(pass.copy.finalizers)
    BY <1>1, <1>4, <1>7 DEF Shrinking, PassInOrder
  <2>2. pass.kept = <<>> => "pods-in-order" \notin ToSet(pass.kept) BY DEF ToSet
  <2>3. QED BY <1>2, <2>1, <2>2
<1>9. QED BY <1>6, <1>8

\* A call fails.
LEMMA FailureShrinks ==
    ASSUME Licensed, Founded, Shrinking, CallFails \/ Dies \/ Stop
    PROVE  Founded' /\ Shrinking'
<1>1. UNCHANGED <<object, objects, replicas, pods>> BY DEF CallFails, Dies, Stop, world, sets
<1>2. history'.asked = history.asked /\ history'.whole = history.whole
  <2>1. history \in Histories BY DEF Licensed
  <2>2. \E cut : Cut = [history EXCEPT !.cut = cut] BY Zenon DEF Cut
  <2>3. Cut.asked = history.asked /\ Cut.whole = history.whole BY <2>1, <2>2 DEF Histories
  <2>4. QED BY <2>3 DEF CallFails, Dies, Stop
<1>3. CASE pass = Idle \/ pass' = Idle
  <2>1. pass' = Idle BY <1>3 DEF CallFails, Dies, Stop
  <2>2. PodsOf("pxc")' = PodsOf("pxc") /\ Ordered' = Ordered /\ Few' = Few
    BY <1>1, <1>2 DEF PodsOf, Ordered, Few
  <2>3. Founded' BY <1>1, <2>1, <2>2 DEF Founded
  <2>4. Shrinking' BY <1>1, <1>2, <2>1, <2>2 DEF Shrinking
  <2>5. QED BY <2>3, <2>4
<1>4. CASE pass # Idle /\ pass' # Idle
  <2>1. CASE pass.copy.deleted
    <3> DEFINE f == FinalizerOf(Head(pass.todo))
    <3>1. ~Call("unfinalize") /\ pass' = Following(Keep(pass, f, TRUE), <<>>)
      BY <1>4, <2>1 DEF CallFails, Dies, Stop
    <3>2. f \in history.asked BY <1>4, <2>1, <3>1, NextCall
    <3>3. Call("finalizer") => f = Arg BY DEF Call, FinalizerOf, Arg
    <3> HIDE DEF f
    <3>4. Onward /\ f \in ToSet(pass'.kept) BY <1>4, <2>1, <3>1, <3>2, KeepOnward
    <3>5. QED BY <1>1, <1>2, <1>4, <3>3, <3>4, PassShrinking
  <2>2. CASE ~pass.copy.deleted
    <3>1. PICK todo : pass' = [pass EXCEPT !.todo = todo]
      BY <1>4, <2>2 DEF CallFails, Dies, Stop
    <3>2. pass'.copy = pass.copy BY <1>4, <3>1 DEF Licensed, PassOK, Passes
    <3>3. ~Call("finalizer") BY <1>4, <2>2, NextCall
    <3>4. Onward BY <2>2, <3>2 DEF Onward
    <3>5. QED BY <1>1, <1>2, <1>4, <3>3, <3>4, PassShrinking
  <2>3. QED BY <2>1, <2>2
<1>5. QED BY <1>3, <1>4

\* A pass begins with what the object is.
LEMMA BeginShrinks ==
    ASSUME Licensed, Founded, Shrinking, Begin
    PROVE  Founded' /\ Shrinking'
<1>1. UNCHANGED <<object, objects, replicas, pods, history>> BY DEF Begin, world, sets
<1>2. PodsOf("pxc")' = PodsOf("pxc") /\ Ordered' = Ordered /\ Few' = Few BY <1>1 DEF PodsOf, Ordered, Few
<1>3. /\ object.exists /\ pass'.copy = object
      /\ object.deleted => pass'.todo = Finalize(object)
  BY DEF Begin
<1>4. object.deleted =>
        /\ LastOnly(pass'.todo)
        /\ "pods-in-order" \in ToSet(object.finalizers) => InTurn \in ToSet(pass'.todo)
  BY <1>3, FinalizeInTurn DEF Licensed
<1>5. Founded' BY <1>1, <1>2, <1>3, <1>4 DEF Founded
<1>6. object.deleted => PassInOrder' BY <1>2, <1>3, <1>4 DEF PassInOrder
<1>7. Shrinking' BY <1>1, <1>2, <1>6 DEF Shrinking
<1>8. QED BY <1>5, <1>7

\* The pods of the database there may be.
LEMMA DatabasePods ==
    ASSUME Founded
    PROVE  /\ PodsOf("pxc") \subseteq Numbered(Size)
           /\ Cardinality(PodsOf("pxc")) = Size => PodsOf("pxc") = Numbered(Size)
<1>1. PodsOf("pxc") \subseteq Numbered(Size) BY DEF Founded, PodsOf, AllPods, Numbered, Ordinals
<1>2. IsFiniteSet(Numbered(Size)) /\ Cardinality(Numbered(Size)) = Size
  BY SizeAssumption, CountNumbered DEF SizeAssumption
<1>3. QED BY <1>1, <1>2, FS_Subset

\* The user edits and deletes the object.
LEMMA UserShrinks ==
    ASSUME Licensed, Founded, Shrinking, Edit \/ Delete
    PROVE  Founded' /\ Shrinking'
<1>1. UNCHANGED <<objects, replicas, pods, pass>> BY DEF Edit, Delete, world, sets
<1>2. PodsOf("pxc")' = PodsOf("pxc") /\ Few' = Few BY <1>1 DEF PodsOf, Few
<1>3. ~object.deleted /\ object.exists /\ object \in ClusterObjects(history.asked) /\ history \in Histories
  BY DEF Edit, Delete, Licensed
<1>4. CASE Edit
  <2>1. history' = history BY <1>4 DEF Edit
  <2>2. \/ \E x : object' = [object EXCEPT !.proxy = x]
        \/ \E c : object' = [object EXCEPT !.config = c]
    BY <1>4 DEF Edit
  <2>3. ~object'.deleted /\ object'.exists /\ object'.finalizers = object.finalizers
    BY <1>3, <2>2 DEF ClusterObjects
  <2>4. Ordered' = Ordered BY <2>1 DEF Ordered
  <2>5. Founded' BY <1>1, <1>2, <1>3, <2>3, <2>4 DEF Founded
  <2>6. Shrinking' BY <2>3 DEF Shrinking
  <2>7. QED BY <2>5, <2>6
<1>5. CASE Delete
  <2>1. PICK whole \in BOOLEAN :
          /\ history' = [history EXCEPT !.whole = whole]
          /\ whole <=> Cardinality(PodsOf("pxc")) = Size
    BY <1>5 DEF Delete
  <2>2. history'.asked = history.asked /\ history'.whole = whole BY <1>3, <2>1 DEF Histories
  <2>3. /\ object'.deleted /\ object'.finalizers = object.finalizers
        /\ object'.exists <=> object.finalizers # <<>>
    BY <1>3, <1>5 DEF Delete, ClusterObjects
  <2>4. Ordered' = Ordered BY <2>2 DEF Ordered
  <2>5. Ordered => "pods-in-order" \in ToSet(object.finalizers) /\ object'.exists
    <3>1. Ordered => "pods-in-order" \in ToSet(object.finalizers) BY <1>3 DEF Founded
    <3>2. "pods-in-order" \in ToSet(object.finalizers) => object.finalizers # <<>> BY DEF ToSet
    <3>3. QED BY <2>3, <3>1, <3>2
  <2>6. Founded' BY <1>1, <1>2, <1>3, <2>3, <2>4, <2>5 DEF Founded
  <2>7. Shrinking'
    <3>1. SUFFICES ASSUME Ordered, whole
                   PROVE  /\ \E n \in 0 .. Size : PodsOf("pxc") = Numbered(n) /\ (n = Size \/ replicas = 1)
                          /\ "pods-in-order" \in ToSet(object'.finalizers) \/ Few
                          /\ ~object'.exists => Few
                          /\ pass # Idle => PassInOrder'
      BY <1>1, <1>2, <2>2, <2>4 DEF Shrinking
    <3>2. PodsOf("pxc") = Numbered(Size) BY <2>1, <3>1, DatabasePods
    <3>3. Size \in 0 .. Size BY SizeAssumption DEF SizeAssumption
    <3>4. replicas = Size BY <1>3 DEF Founded
    <3>5. pass # Idle => ~pass.copy.deleted BY <1>3 DEF Licensed, PassOK
    <3>6. pass # Idle => PassInOrder' BY <1>1, <1>2, <3>2, <3>4, <3>5 DEF PassInOrder
    <3>7. QED BY <2>3, <2>5, <3>1, <3>2, <3>3, <3>6
  <2>8. QED BY <2>6, <2>7
<1>6. QED BY <1>4, <1>5

\* What happens to the cluster without a pod of the database that starts or stops.
LEMMA WorldShrinks ==
    ASSUME Licensed, Founded, Shrinking, UNCHANGED <<object, replicas, pass, history>>,
           PodsOf("pxc")' = PodsOf("pxc"), pods' \subseteq AllPods,
           object.exists /\ SetOf("pxc") \in objects => SetOf("pxc") \in objects'
    PROVE  Founded' /\ Shrinking'
<1>1. Ordered' = Ordered /\ Few' = Few BY DEF Ordered, Few
<1>2. Founded' BY <1>1 DEF Founded
<1>3. pass # Idle => PassInOrder' = PassInOrder BY <1>1 DEF PassInOrder
<1>4. Shrinking' BY <1>1, <1>3 DEF Shrinking
<1>5. QED BY <1>2, <1>4

\* A pod starts: the first, or beside the first ones while all are asked for.
LEMMA StartShrinks ==
    ASSUME Licensed, Founded, Shrinking, NEW p \in AllPods, PodStarts(p)
    PROVE  Founded' /\ Shrinking'
<1>1. /\ UNCHANGED <<object, objects, replicas, pass, history>> /\ pods' = pods \cup {p}
      /\ p \notin pods /\ SetOf(p[1]) \in objects
  BY DEF PodStarts, sets
<1>2. CASE p[1] # "pxc"
  <2>1. PodsOf("pxc")' = PodsOf("pxc") BY <1>1, <1>2 DEF PodsOf
  <2>2. QED BY <1>1, <2>1, WorldShrinks DEF Founded
<1>3. CASE p[1] = "pxc"
  <2>1. PICK i \in Ordinals : p = <<"pxc", i>> BY <1>3 DEF AllPods
  <2>2. i < replicas /\ i \in Nat /\ Size \in Nat \ {0} /\ i < Size
    <3>1. p[2] = i /\ p[2] < replicas BY <1>3, <2>1 DEF PodStarts
    <3>2. Size \in Nat \ {0} /\ i \in 0 .. Size - 1 BY SizeAssumption DEF SizeAssumption, Ordinals
    <3>3. QED BY <3>1, <3>2
  <2>3. PodsOf("pxc")' = PodsOf("pxc") \cup {p} /\ Ordered' = Ordered BY <1>1, <1>3 DEF PodsOf, Ordered
  <2>4. Founded'
    <3>1. Ordered /\ object.exists => SetOf("pxc") \in objects BY <1>1, <1>3
    <3>2. QED BY <1>1, <2>3, <3>1 DEF Founded
  <2>5. Few => Few'
    <3>1. Few => p \in Numbered(1) BY <2>1, <2>2 DEF Few, Numbered
    <3>2. QED BY <1>1, <2>3, <3>1 DEF Few
  <2>6. Shrinking'
    <3>1. SUFFICES ASSUME Ordered, history.whole, object.deleted
                   PROVE  /\ \E n \in 0 .. Size : PodsOf("pxc")' = Numbered(n) /\ (n = Size \/ replicas = 1)
                          /\ "pods-in-order" \in ToSet(object.finalizers) \/ Few'
                          /\ ~object.exists => Few'
                          /\ pass # Idle => PassInOrder'
      BY <1>1, <2>3 DEF Shrinking
    <3>2. PICK n \in 0 .. Size : PodsOf("pxc") = Numbered(n) /\ (n = Size \/ replicas = 1)
      BY <3>1 DEF Shrinking
    <3>3. PodsOf("pxc") # Numbered(Size) /\ n # Size
      <4>1. p \in Numbered(Size) BY <2>1, <2>2 DEF Numbered
      <4>2. p \notin PodsOf("pxc") BY <1>1 DEF PodsOf
      <4>3. QED BY <3>2, <4>1, <4>2
    <3>4. replicas = 1 /\ i = 0 BY <2>2, <3>2, <3>3
    <3>5. n = 0
      <4>1. n # 0 => <<"pxc", 0>> \in Numbered(n) BY DEF Numbered
      <4>2. QED BY <1>1, <2>1, <3>2, <3>4, <4>1 DEF PodsOf
    <3>6. PodsOf("pxc")' = Numbered(1)
      <4>1. Numbered(0) = {} /\ Numbered(1) = {<<"pxc", 0>>} BY DEF Numbered
      <4>2. QED BY <2>1, <2>3, <3>2, <3>4, <3>5, <4>1
    <3>7. Few' BY <1>1, <3>4, <3>6 DEF Few
    <3>8. pass # Idle => PassInOrder'
      <4>1. pass # Idle /\ ~pass.copy.deleted => FALSE
        BY <3>1, <3>3 DEF Shrinking, PassInOrder
      <4>2. QED BY <1>1, <3>7, <4>1 DEF PassInOrder
    <3>9. 1 \in 0 .. Size BY <2>2
    <3>10. QED BY <3>4, <3>6, <3>7, <3>8, <3>9
  <2>7. QED BY <2>4, <2>6
<1>4. QED BY <1>2, <1>3

\* A pod stops: the last of those not asked for any more, or the only one left.
LEMMA StopShrinks ==
    ASSUME Licensed, Founded, Shrinking, NEW p \in AllPods, PodStops(p)
    PROVE  /\ Founded' /\ Shrinking'
           /\ Ordered /\ history.whole /\ object.deleted /\ p[1] = "pxc" => <<"pxc", p[2] + 1>> \notin pods
<1>1. /\ UNCHANGED <<object, objects, replicas, pass, history>> /\ pods' = pods \ {p} /\ p \in pods
  BY DEF PodStops, sets
<1>2. CASE p[1] # "pxc"
  <2>1. PodsOf("pxc")' = PodsOf("pxc") BY <1>1, <1>2 DEF PodsOf
  <2>2. QED BY <1>1, <1>2, <2>1, WorldShrinks DEF Founded
<1>3. CASE p[1] = "pxc"
  <2>1. PICK i \in Ordinals : p = <<"pxc", i>> BY <1>3 DEF AllPods
  <2>2. Size \in Nat \ {0} /\ i \in 0 .. Size - 1 BY SizeAssumption DEF SizeAssumption, Ordinals
  <2>3. PodsOf("pxc")' = PodsOf("pxc") \ {p} /\ p \in PodsOf("pxc") /\ Ordered' = Ordered
    BY <1>1, <1>3 DEF PodsOf, Ordered
  <2>4. Founded' BY <1>1, <2>3 DEF Founded
  <2>5. Few => Few' BY <1>1, <2>3 DEF Few
  <2>6. ASSUME Ordered, history.whole, object.deleted
        PROVE  /\ \E n \in 0 .. Size : PodsOf("pxc")' = Numbered(n) /\ (n = Size \/ replicas = 1)
               /\ "pods-in-order" \in ToSet(object.finalizers) \/ Few'
               /\ ~object.exists => Few'
               /\ pass # Idle => PassInOrder'
               /\ <<"pxc", i + 1>> \notin pods
    <3>1. PICK n \in 0 .. Size : PodsOf("pxc") = Numbered(n) /\ (n = Size \/ replicas = 1)
      BY <2>6 DEF Shrinking
    <3>2. n \in Nat /\ i < n /\ n - 1 \in 0 .. Size
      BY <2>1, <2>2, <2>3, <3>1 DEF Numbered
    <3>3. i + 1 = n
      <4>1. CASE SetOf("pxc") \notin objects
        <5>1. ~object.exists BY <2>3, <2>6, <4>1 DEF Founded
        <5>2. Few BY <2>6, <5>1 DEF Shrinking
        <5>3. Numbered(n) \subseteq Numbered(1) BY <3>1, <5>2 DEF Few
        <5>4. n < 2
          <6>1. n >= 2 => <<"pxc", 1>> \in Numbered(n) BY <3>2 DEF Numbered
          <6>2. <<"pxc", 1>> \notin Numbered(1) BY DEF Numbered
          <6>3. QED BY <3>2, <5>3, <6>1, <6>2
        <5>5. QED BY <2>2, <3>2, <5>4
      <4>2. CASE SetOf("pxc") \in objects
        <5>1. p[2] + 1 = Cardinality(PodsOf("pxc")) BY <1>3, <4>2 DEF PodStops
        <5>2. QED BY <2>1, <3>1, <3>2, <5>1, CountNumbered
      <4>3. QED BY <4>1, <4>2
    <3>4. replicas = 1
      <4>1. CASE SetOf("pxc") \notin objects
        <5>1. ~object.exists BY <2>3, <2>6, <4>1 DEF Founded
        <5>2. QED BY <2>6, <5>1 DEF Shrinking, Few
      <4>2. CASE SetOf("pxc") \in objects
        <5>1. p[2] >= replicas /\ p[2] = i BY <1>3, <2>1, <4>2 DEF PodStops
        <5>2. replicas # Size BY <2>2, <5>1
        <5>3. QED BY <5>2 DEF Founded
      <4>3. QED BY <4>1, <4>2
    <3>5. PodsOf("pxc")' = Numbered(n - 1)
      <4>1. Numbered(n) \ {<<"pxc", n - 1>>} = Numbered(n - 1)
        <5>1. 0 .. n - 1 = (0 .. (n - 1) - 1) \cup {n - 1} /\ n - 1 \notin 0 .. (n - 1) - 1 BY <3>2
        <5>2. QED BY <5>1 DEF Numbered
      <4>2. i = n - 1 BY <2>2, <3>2, <3>3
      <4>3. QED BY <2>1, <2>3, <3>1, <4>1, <4>2
    <3>6. <<"pxc", i + 1>> \notin pods
      <4>1. <<"pxc", n>> \notin Numbered(n) BY <3>2 DEF Numbered
      <4>2. QED BY <3>1, <3>3, <4>1 DEF PodsOf
    <3>7. pass # Idle => PassInOrder'
      <4>1. pass # Idle /\ ~pass.copy.deleted => FALSE
        <5>1. SUFFICES ASSUME pass # Idle, ~pass.copy.deleted PROVE FALSE
          OBVIOUS
        <5>2. replicas = Size BY <2>6, <5>1 DEF Shrinking, PassInOrder
        <5>3. CASE SetOf("pxc") \in objects
          BY <1>3, <2>1, <2>2, <5>2, <5>3 DEF PodStops
        <5>4. CASE SetOf("pxc") \notin objects
          BY <2>3, <2>6, <5>1, <5>4 DEF Founded
        <5>5. QED BY <5>3, <5>4
      <4>2. pass # Idle => PassInOrder BY <2>6 DEF Shrinking
      <4>3. QED BY <1>1, <2>5, <4>1, <4>2 DEF PassInOrder
    <3>8. "pods-in-order" \in ToSet(object.finalizers) \/ Few' BY <2>5, <2>6 DEF Shrinking
    <3>9. ~object.exists => Few' BY <2>5, <2>6 DEF Shrinking
    <3>10. QED BY <3>2, <3>4, <3>5, <3>6, <3>7, <3>8, <3>9
  <2>7. Shrinking' BY <1>1, <2>3, <2>6 DEF Shrinking
  <2>8. QED BY <2>1, <2>4, <2>6, <2>7
<1>4. QED BY <1>2, <1>3

LEMMA KubernetesShrinks ==
    ASSUME Licensed, Founded, Shrinking, Kubernetes \/ GetsStopSignal
    PROVE  Founded' /\ Shrinking'
<1>1. ASSUME UNCHANGED <<object, replicas, pass, history, pods>>,
             object.exists /\ SetOf("pxc") \in objects => SetOf("pxc") \in objects'
      PROVE  Founded' /\ Shrinking'
  <2>1. PodsOf("pxc")' = PodsOf("pxc") BY <1>1 DEF PodsOf
  <2>2. QED BY <1>1, <2>1, WorldShrinks DEF Founded
<1>2. CASE GarbageCollect
  <2>1. object.exists /\ SetOf("pxc") \in objects => SetOf("pxc") \in objects'
    BY <1>2 DEF GarbageCollect, Owned, SetOf
  <2>2. UNCHANGED <<object, replicas, pass, history, pods>> BY <1>2 DEF GarbageCollect, sets
  <2>3. QED BY <1>1, <2>1, <2>2
<1>3. CASE GetsStopSignal \/ Restarted \/ (\E t \in Tls : Issue(t)) \/ \E p \in AllPods : ClaimGoes(p)
  BY <1>1, <1>3 DEF GetsStopSignal, Restarted, Issue, ClaimGoes, world, sets
<1>4. QED BY <1>2, <1>3, StartShrinks, StopShrinks DEF Kubernetes

LEMMA OrderInit == Init => Founded /\ Shrinking
<1> SUFFICES ASSUME Init PROVE Founded /\ Shrinking
  OBVIOUS
<1>1. PICK l \in Lists, p \in Proxies :
        /\ object = [exists |-> TRUE, deleted |-> FALSE, finalizers |-> l, proxy |-> p,
                     config |-> CHOOSE x \in Configs : TRUE]
        /\ history = [asked |-> ToSet(l), whole |-> FALSE, cut |-> {}]
  BY DEF Init
<1>2. object.exists /\ ~object.deleted /\ object.finalizers = l /\ history.asked = ToSet(l) BY <1>1
<1>3. QED BY <1>2 DEF Init, Founded, Shrinking, Ordered, PodsOf

LEMMA OrderStep == Licensed /\ Founded /\ Shrinking /\ [Next]_vars => Founded' /\ Shrinking'
<1> SUFFICES ASSUME Licensed, Founded, Shrinking, [Next]_vars PROVE Founded' /\ Shrinking'
  OBVIOUS
<1>1. CASE Reconcile
  BY <1>1, DeployShrinks, DropShrinks, OtherShrinks, OrderShrinks, UnfinalizeShrinks DEF Reconcile
<1>2. CASE UNCHANGED vars
  <2>1. PodsOf("pxc")' = PodsOf("pxc") BY <1>2 DEF vars, world, PodsOf
  <2>2. QED BY <1>2, <2>1, WorldShrinks DEF vars, world, sets, Founded
<1>3. QED
  BY <1>1, <1>2, BeginShrinks, FailureShrinks, UserShrinks, KubernetesShrinks DEF Next

\* Only the StatefulSet controller and the garbage collector stop pods.
LEMMA WhoStopsPods ==
    ASSUME [Next]_vars, NEW p \in AllPods, p \in pods, p \notin pods'
    PROVE  PodStops(p)
BY DEF Next, Reconcile, Kubernetes, Begin, Create, WriteConfigMap, Update, ReconcileSSL, WaitForCerts,
       CreateSecret, DeleteStatefulSet, DropSet, DeletePVC, DeleteServices, PodsInOrder, ClaimsFinalizer,
       OtherFinalizer, Unfinalize, CallFails, Dies, Edit, Delete, PodStarts, PodStops, ClaimGoes, Issue,
       Restarted, GarbageCollect, GetsStopSignal, Stop, vars, world, sets, claims

\* Asked for without the database's claims, the finalizer of a cluster whose pods
\* are all there takes them down one by one from the last, whatever passes were
\* begun before the deletion, fail or are cut short (deletePXCPods,
\* deleteStatefulSetPods).
THEOREM PodsGoInOrder == Spec => InOrder
<1> DEFINE IInv == Licensed /\ Founded /\ Shrinking
<1>1. Init => IInv BY InitLicensed, OrderInit
<1>2. IInv /\ [Next]_vars => IInv' BY NextLicensed, OrderStep
<1>3. IInv /\ [Next]_vars =>
        [ ("pods-in-order" \in history.asked /\ "pxc-pvc" \notin history.asked /\ object.deleted /\ history.whole)
          => \A p \in PodsOf("pxc") : <<"pxc", p[2] + 1>> \in pods => p \in pods' ]_vars
  <2>1. SUFFICES ASSUME IInv, [Next]_vars, Ordered, object.deleted, history.whole,
                        NEW p \in PodsOf("pxc"), <<"pxc", p[2] + 1>> \in pods, p \notin pods'
                 PROVE  FALSE
    BY DEF Ordered
  <2>2. p \in AllPods /\ p \in pods /\ p[1] = "pxc" BY <2>1 DEF Founded, PodsOf
  <2>3. PodStops(p) BY <2>1, <2>2, WhoStopsPods
  <2>4. QED BY <2>1, <2>2, <2>3, StopShrinks
<1>4. QED BY <1>1, <1>2, <1>3, PTL DEF Spec, InOrder
=============================================================================
