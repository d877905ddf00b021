---------------------------- MODULE UserRotation ----------------------------
(***************************************************************************)
(* The passwords of the system users: the cluster controller makes them   *)
(* (pkg/controller/pxc/secrets.go), and when the user changes them in the *)
(* users secret it changes them in the database and in ProxySQL, copies   *)
(* them to the internal secret and has the pods restarted that read them  *)
(* (pkg/controller/pxc/users.go, pkg/pxc/users/users.go).                  *)
(*                                                                         *)
(* The controller logs in with what the internal secret says, so that the *)
(* order of these writes, and what happens when one of them fails, decides *)
(* whether it still can.  A password is a number: the n-th of its user.    *)
(***************************************************************************)
EXTENDS Naturals, FiniteSets, Sequences

CONSTANTS
    PMM, ProxySQL,       \* whether monitoring and ProxySQL are enabled
    Plans,               \* what may go wrong, one of these in a behaviour
    NoSecret,            \* in place of the data of a secret that is not there
    MaxChanges, MaxErrors

\* requiredUsers, in its order; a user without hosts is none of the database.
Required  == <<"root", "monitor", "operator", "xtrabackup">>
             \o (IF PMM THEN <<"pmmserver">> ELSE <<>>)
             \o (IF ProxySQL THEN <<"proxyadmin">> ELSE <<>>)
Users     == {Required[i] : i \in DOMAIN Required} \cup {"proxyadmin"}
DbUsers   == {"root", "monitor", "operator", "xtrabackup"}
ProxyUsers == {"monitor", "proxyadmin"}

\* A step of a pass; the user changes the passwords of "rotated" and may
\* delete the secret, which in "old" clusters names no operator; the steps of
\* "failing" may fail.
Steps == {"idle", "secret", "read", "admin", "adminSys", "adminInternal",
          "monitor", "monitorDone", "xtrabackup", "xtrabackupDone",
          "check", "alter", "proxy", "sync", "write", "deploy", "pxc", "proxysql"}

ASSUME SwitchesAssumption == PMM \in BOOLEAN /\ ProxySQL \in BOOLEAN
ASSUME PlansAssumption ==
    Plans \subseteq [rotated: SUBSET Users, deletes: BOOLEAN, old: BOOLEAN,
                     failing: SUBSET Steps]
ASSUME BoundsAssumption == {MaxChanges, MaxErrors} \subseteq Nat
ASSUME NoSecretAssumption == \A S \in {Users, DbUsers} : NoSecret \notin [S -> Nat]

Passwords == [Users -> Nat]   \* 0: no entry

\* The users whose passwords a running process of a group of pods took from its
\* environment; not those it only needs once, to set up a volume, and not the
\* monitor of the log rotation (node.go:272), after which nothing is restarted.
Groups == {"pxc", "proxysql"}
Reads(g) == (IF PMM THEN {"monitor", "pmmserver"} ELSE {}) \cup
            (IF g = "pxc" THEN {"xtrabackup"} ELSE {"monitor", "operator", "proxyadmin"})

VARIABLES
    plan,      \* what may go wrong in this behaviour
    made,      \* made[u]: the passwords made for u so far
    sys,       \* the users secret, spec.secretsName
    internal,  \* the secret internal-<cluster>
    granted,   \* its annotations: the grants that are done
    db,        \* the passwords of the database; 0: no such user; NoSecret: not set up
    rights,    \* the users that have their grants in the database
    proxy,     \* the passwords that ProxySQL runs with
    synced,    \* the password of root that ProxySQL lets clients in with
    syncing,   \* a goroutine synchronises the users, syncUsersState
    template,  \* the annotation last-applied-secret of the two pod templates
    pods,      \* of the running pods: that annotation and the passwords read
    forgotten, \* history: the groups whose restart went with the pass that was to cause it
    pass,      \* the reconcile worker
    changes, errors

secrets == <<sys, internal, granted>>
servers == <<db, rights, proxy, synced>>
cluster == <<template, pods, forgotten>>
vars == <<plan, made, secrets, servers, syncing, cluster, pass, changes, errors>>

Idle == [pc |-> "idle"]
Passes == {Idle} \cup
    [pc: Steps \ {"idle"}, ready: BOOLEAN, up: BOOLEAN, sys: Passwords \cup {NoSecret},
     internal: Passwords \cup {NoSecret}, restart: SUBSET Groups, hash: Passwords \cup {NoSecret}]

TypeOK ==
    /\ plan \in Plans
    /\ made \in Passwords
    /\ sys \in Passwords \cup {NoSecret}
    /\ internal \in Passwords \cup {NoSecret}
    /\ granted \subseteq {"monitor", "xtrabackup"} /\ rights \subseteq {"monitor", "xtrabackup"}
    /\ db \in [DbUsers -> Nat] \cup {NoSecret}
    /\ proxy \in [ProxyUsers -> Nat]
    /\ synced \in Nat
    /\ syncing \in BOOLEAN
    /\ template \in [Groups -> Passwords \cup {NoSecret}]
    /\ DOMAIN pods = Groups
    /\ \A g \in Groups : pods[g] \in [hash: Passwords \cup {NoSecret}, env: [Reads(g) -> Nat]]
    /\ forgotten \subseteq Groups
    /\ pass \in Passes
    /\ changes \in 0 .. MaxChanges /\ errors \in 0 .. MaxErrors

\* A new cluster; the user has made a users secret before, or leaves it to the operator.
Init ==
    /\ plan \in Plans
    /\ \/ made = [u \in Users |-> 1]
          /\ sys = IF plan.old THEN [made EXCEPT !["operator"] = 0] ELSE made
       \/ made = [u \in Users |-> 0] /\ sys = NoSecret
    /\ internal = NoSecret /\ granted = {}
    /\ db = NoSecret /\ rights = {}
    /\ proxy = [u \in ProxyUsers |-> 0] /\ synced = 0
    /\ syncing = FALSE
    /\ template = [g \in Groups |-> NoSecret]
    /\ pods = [g \in Groups |-> [hash |-> NoSecret, env |-> [u \in Reads(g) |-> 0]]]
    /\ forgotten = {}
    /\ pass = Idle
    /\ changes = 0 /\ errors = 0

Exists(secret) == secret # NoSecret
Alive == db # NoSecret
\* A container waits for an entry that its secret does not have; pods of an
\* older template are being replaced.
Waits(g) == pods[g].hash # template[g] \/ \E u \in Reads(g) : pods[g].env[u] = 0
Ready == Alive /\ \A g \in Groups : ~Waits(g)

Go(step) == pass' = [pass EXCEPT !.pc = step]
\* An error of any call ends the pass; so does the death of the operator.
EndsInError == pass' = Idle
-----------------------------------------------------------------------------
(* The pass, from the read of the cluster object on.                        *)

Begin ==
    /\ pass.pc = "idle"
    /\ pass' = [pc |-> "secret", ready |-> Ready, up |-> Alive, sys |-> NoSecret, internal |-> NoSecret,
                restart |-> {}, hash |-> NoSecret]
    /\ UNCHANGED <<plan, made, secrets, servers, syncing, cluster, changes, errors>>

\* generatePass, for each of the users.
Generated(us) == [u \in Users |-> IF u \in us THEN made[u] + 1 ELSE made[u]]

\* reconcileUsersSecret
EnsureSecret ==
    /\ pass.pc = "secret"
    /\ IF Exists(sys) THEN UNCHANGED <<sys, made>>
       ELSE made' = Generated(Users) /\ sys' = made'
    /\ Go("read")
    /\ UNCHANGED <<plan, internal, granted, servers, syncing, cluster, changes, errors>>

\* reconcileUsers reads both secrets; an internal one that is missing is made
\* from the other, and then there is nothing else to do.
ReadSecrets ==
    /\ pass.pc = "read"
    /\ IF ~Exists(sys) THEN Go("deploy") /\ UNCHANGED internal
       ELSE IF ~Exists(internal) THEN internal' = sys /\ Go("deploy")
       ELSE /\ pass' = [pass EXCEPT !.sys = sys, !.internal = internal,
                                    !.pc = IF pass.up THEN "admin" ELSE "check"]
            /\ UNCHANGED internal
    /\ UNCHANGED <<plan, made, sys, granted, servers, syncing, cluster, changes, errors>>

\* NewManager connects when it is first used.
LogsIn(u, password) == Alive /\ db[u] = password /\ password # 0

\* CREATE USER IF NOT EXISTS: a user that is there keeps its password.
WithUser(u, password) == [db EXCEPT ![u] = IF @ = 0 THEN password ELSE @]

\* manageOperatorAdminUser: a secret without the operator's entry gets one, and
\* the database a user, unless it has one; whose password then stays.
AdminUser ==
    /\ pass.pc = "admin"
    /\ IF pass.sys["operator"] # 0
       THEN /\ pass' = [pass EXCEPT !.pc = "monitor",
                          !.internal["operator"] = IF @ = 0 THEN pass.sys["operator"] ELSE @]
            /\ UNCHANGED <<made, db>>
       ELSE IF ~LogsIn("root", pass.sys["root"])
       THEN EndsInError /\ UNCHANGED <<made, db>>
       ELSE /\ made' = Generated({"operator"})
            /\ db' = WithUser("operator", made'["operator"])
            /\ pass' = [pass EXCEPT !.pc = "adminSys", !.sys["operator"] = made'["operator"],
                                    !.internal["operator"] = made'["operator"]]
    /\ UNCHANGED <<plan, secrets, rights, proxy, synced, syncing, cluster, changes, errors>>

\* Refused when the user has changed the secret since it was read.
AdminToSecret ==
    /\ pass.pc = "adminSys"
    /\ IF Exists(sys) /\ [sys EXCEPT !["operator"] = pass.sys["operator"]] = pass.sys
       THEN sys' = pass.sys /\ Go("adminInternal")
       ELSE EndsInError /\ UNCHANGED sys
    /\ UNCHANGED <<plan, made, internal, granted, servers, syncing, cluster, changes, errors>>

AdminToInternal ==
    /\ pass.pc = "adminInternal"
    /\ internal' = pass.internal
    /\ Go("monitor")
    /\ UNCHANGED <<plan, made, sys, granted, servers, syncing, cluster, changes, errors>>

\* The operator's account if the internal secret names it, else root.
Account(s) == IF s["operator"] # 0 THEN "operator" ELSE "root"

\* manageMonitorUser and manageXtrabackupUser: once, by an annotation of the
\* internal secret, the user is made, if it is missing, and given its grants...
Grant(u, done, next) ==
    /\ pass.pc = u
    /\ LET a == Account(pass.internal)
       IN  IF u \in granted THEN Go(next) /\ UNCHANGED <<db, rights>>
           ELSE IF ~LogsIn(a, pass.internal[a]) THEN EndsInError /\ UNCHANGED <<db, rights>>
           ELSE /\ db' = WithUser(u, pass.internal[u])
                /\ rights' = rights \cup {u}
                /\ Go(done)
    /\ UNCHANGED <<plan, made, secrets, proxy, synced, syncing, cluster, changes, errors>>

\* ... then the secret is written, with all that its copy says.
GrantDone(u, done, next) ==
    /\ pass.pc = done
    /\ granted' = granted \cup {u}
    /\ internal' = pass.internal
    /\ Go(next)
    /\ UNCHANGED <<plan, made, sys, servers, syncing, cluster, changes, errors>>

ToChange == {u \in Users : pass.sys[u] # pass.internal[u]}

\* sysUsersSecretDataChanged compares the hashes of all that the secrets hold.
Changed == ToChange # {}

\* Nothing is changed unless the cluster is ready and the secrets differ.
CheckChanged ==
    /\ pass.pc = "check"
    /\ IF ~pass.ready \/ ~Changed THEN Go("deploy")
       ELSE IF \E i \in DOMAIN Required : pass.sys[Required[i]] = 0 THEN EndsInError
       ELSE Go("alter")
    /\ UNCHANGED <<plan, made, secrets, servers, syncing, cluster, changes, errors>>

\* The users to alter, in the order of the required ones; each ALTER USER takes
\* effect at once, whatever becomes of the transaction around it.
ToAlter == ToChange \cap DbUsers
Altered(n) == [u \in DbUsers |->
                 IF u \in ToAlter /\ \E i \in 1 .. n : Required[i] = u THEN pass.sys[u] ELSE db[u]]

AlterUsers ==
    /\ pass.pc = "alter"
    /\ LET a == IF pass.sys["operator"] # 0 THEN "operator" ELSE "root"
       IN  IF ToAlter # {} /\ ~LogsIn(a, pass.internal[a])
           THEN EndsInError /\ UNCHANGED db
           ELSE db' = Altered(Len(Required)) /\ Go("proxy")
    /\ UNCHANGED <<plan, made, secrets, rights, proxy, synced, syncing, cluster, changes, errors>>

\* It stops after some of them.
AlterFails ==
    /\ pass.pc = "alter"
    /\ "alter" \in plan.failing /\ errors < MaxErrors
    /\ \E n \in 0 .. Len(Required) : db' = Altered(n)
    /\ EndsInError
    /\ errors' = errors + 1
    /\ UNCHANGED <<plan, made, secrets, rights, proxy, synced, syncing, cluster, changes>>

\* Slip: the login is made with the new password.
AlterProxyUsers_NewLogin ==
    /\ pass.pc = "proxy"
    /\ IF ~ProxySQL \/ ToChange \cap ProxyUsers = {} THEN Go("sync") /\ UNCHANGED proxy
       ELSE IF proxy["proxyadmin"] # pass.sys["proxyadmin"]
       THEN EndsInError /\ UNCHANGED proxy
       ELSE /\ proxy' = [u \in ProxyUsers |-> IF u \in ToChange THEN pass.sys[u] ELSE proxy[u]]
            /\ Go("sync")
    /\ UNCHANGED <<plan, made, secrets, db, rights, synced, syncing, cluster, changes, errors>>

\* updateProxyUsers, with the proxyadmin of the internal secret.
AlterProxyUsers ==
    /\ pass.pc = "proxy"
    /\ IF ~ProxySQL \/ ToChange \cap ProxyUsers = {} THEN Go("sync") /\ UNCHANGED proxy
       ELSE IF proxy["proxyadmin"] # pass.internal["proxyadmin"]
       THEN EndsInError /\ UNCHANGED proxy
       ELSE /\ proxy' = [u \in ProxyUsers |-> IF u \in ToChange THEN pass.sys[u] ELSE proxy[u]]
            /\ Go("sync")
    /\ UNCHANGED <<plan, made, secrets, db, rights, synced, syncing, cluster, changes, errors>>

\* Slip: nothing but the proxy reads the monitor's password.
Restarts_NoMonitor(us) ==
    {g \in Groups : IF g = "proxysql" THEN us \cap {"monitor", "operator", "proxyadmin", "pmmserver"} # {}
                    ELSE us \cap {"xtrabackup", "pmmserver"} # {}}

\* The actions rPXC, rProxy and their variants for PMM.
Restarts(us) ==
    {g \in Groups : IF g = "proxysql" THEN \/ us \cap {"monitor", "operator"} # {}
                                           \/ ProxySQL /\ "proxyadmin" \in us
                                           \/ PMM /\ "pmmserver" \in us
                    ELSE "xtrabackup" \in us \/ (PMM /\ us \cap {"monitor", "pmmserver"} # {})}

\* A new password of root is synchronised here, unless the proxy is restarted.
SyncUsers ==
    /\ pass.pc = "sync"
    /\ LET r == Restarts(ToChange)
       IN  /\ synced' = IF ProxySQL /\ "root" \in ToChange /\ "proxysql" \notin r
                        THEN db["root"] ELSE synced
           /\ pass' = [pass EXCEPT !.pc = "write", !.restart = r, !.hash = pass.sys]
    /\ UNCHANGED <<plan, made, secrets, db, rights, proxy, syncing, cluster, changes, errors>>

\* Slip: the copy that was read is written.
WriteInternal_Old ==
    /\ pass.pc = "write"
    /\ internal' = pass.internal
    /\ Go("deploy")
    /\ UNCHANGED <<plan, made, sys, granted, servers, syncing, cluster, changes, errors>>

WriteInternal ==
    /\ pass.pc = "write"
    /\ internal' = pass.sys
    /\ Go("deploy")
    /\ UNCHANGED <<plan, made, sys, granted, servers, syncing, cluster, changes, errors>>

\* resyncPXCUsersWithProxySQL, then the rest of the pass up to the pods of PXC.
Deploy ==
    /\ pass.pc = "deploy"
    /\ syncing' = (syncing \/ (ProxySQL /\ pass.ready))
    /\ Go("pxc")
    /\ UNCHANGED <<plan, made, secrets, servers, cluster, changes, errors>>

Resynced ==
    /\ syncing
    /\ synced' = IF Ready THEN db["root"] ELSE synced
    /\ syncing' = FALSE
    /\ UNCHANGED <<plan, made, secrets, db, rights, proxy, cluster, pass, changes, errors>>

\* updatePod: an annotation that this pass has made is added to the template.
UpdatePods(g, next) ==
    /\ pass.pc = g
    /\ IF g \in pass.restart
       THEN template' = [template EXCEPT ![g] = pass.hash] /\ forgotten' = forgotten \ {g}
       ELSE UNCHANGED <<template, forgotten>>
    /\ pass' = IF next = "idle" THEN Idle ELSE [pass EXCEPT !.pc = next]
    /\ UNCHANGED <<plan, made, secrets, servers, syncing, pods, changes, errors>>
-----------------------------------------------------------------------------
(* Around it.                                                               *)

\* The restarts still to come of a pass that has written the internal secret.  No
\* later pass sees the change again, and only this one remembers them.
Outstanding == CASE pass.pc \in {"deploy", "pxc"} -> pass.restart
                 [] pass.pc = "proxysql"          -> pass.restart \cap {"proxysql"}
                 [] OTHER                         -> {}

\* Any call from the users secret to the last update of a StatefulSet; after that of
\* PXC's also a wait of the smart update.
StepFails ==
    /\ pass.pc \in plan.failing \ {"alter"} /\ errors < MaxErrors
    /\ EndsInError
    /\ errors' = errors + 1
    /\ forgotten' = forgotten \cup Outstanding
    /\ UNCHANGED <<plan, made, secrets, servers, syncing, template, pods, changes>>

\* The pods' entry points set the database and the proxy up from the internal secret.
SetUp ==
    /\ ~Alive /\ Exists(internal)
    /\ db' = [u \in DbUsers |-> internal[u]]
    /\ proxy' = [u \in ProxyUsers |-> internal[u]]
    /\ synced' = internal["root"]
    /\ pods' = [g \in Groups |-> [hash |-> template[g], env |-> [u \in Reads(g) |-> internal[u]]]]
    /\ UNCHANGED <<plan, made, secrets, rights, syncing, template, forgotten, pass, changes, errors>>

\* All pods of a group are replaced after a change of their template.
Restart(g) ==
    /\ Alive /\ Waits(g)
    /\ \A u \in Reads(g) : internal[u] # 0
    /\ pods' = [pods EXCEPT ![g] = [hash |-> template[g], env |-> [u \in Reads(g) |-> internal[u]]]]
    /\ forgotten' = forgotten \ {g}
    /\ UNCHANGED <<plan, made, secrets, servers, syncing, template, pass, changes, errors>>

UserChanges ==
    /\ changes < MaxChanges /\ Exists(sys)
    /\ changes' = changes + 1
    /\ \/ \E us \in (SUBSET plan.rotated) \ {{}} :
            /\ made' = Generated(us)
            /\ sys' = [u \in Users |-> IF u \in us THEN made'[u] ELSE sys[u]]
       \/ plan.deletes /\ sys' = NoSecret /\ UNCHANGED made
    /\ UNCHANGED <<plan, internal, granted, servers, syncing, cluster, pass, errors>>

PassStep ==
    \/ EnsureSecret \/ ReadSecrets
    \/ AdminUser \/ AdminToSecret \/ AdminToInternal
    \/ Grant("monitor", "monitorDone", "xtrabackup") \/ GrantDone("monitor", "monitorDone", "xtrabackup")
    \/ Grant("xtrabackup", "xtrabackupDone", "check") \/ GrantDone("xtrabackup", "xtrabackupDone", "check")
    \/ CheckChanged \/ AlterUsers \/ AlterProxyUsers \/ SyncUsers \/ WriteInternal
    \/ Deploy \/ UpdatePods("pxc", "proxysql") \/ UpdatePods("proxysql", "idle")

Next ==
    \/ Begin \/ PassStep \/ AlterFails \/ StepFails
    \/ Resynced \/ SetUp \/ UserChanges
    \/ \E g \in Groups : Restart(g)

Spec == Init /\ [][Next]_vars

\* Passes come every five seconds, what is asked of pods and servers happens.
Fairness ==
    /\ WF_vars(Begin) /\ WF_vars(PassStep)
    /\ WF_vars(Resynced) /\ WF_vars(SetUp)
    /\ \A g \in Groups : WF_vars(Restart(g))

FairSpec == Spec /\ Fairness
-----------------------------------------------------------------------------
\* The operator's own password never changes; or nothing fails between its change
\* in the database and the write of the internal secret; or the account is made,
\* for an older cluster, while the users secret is left alone and can be written.
Steady(p)        == "operator" \notin p.rotated /\ ~p.deletes /\ ~p.old
Changing(p)      == ~p.old /\ p.failing \cap {"alter", "proxy", "sync", "write"} = {}
Upgraded(p)      == p.old /\ p.rotated = {} /\ ~p.deletes /\ "adminSys" \notin p.failing
Uninterrupted(p) == Steady(p) \/ Changing(p) \/ Upgraded(p)

\* When nothing fails between a change of its own password and the write of the
\* secret, the operator can log in at the end of every pass with what the secret
\* says, also on a cluster made before there was such an account
\* (reconcileUsers, manageOperatorAdminUser).
OperatorLogsIn ==
    Uninterrupted(plan) /\ Alive /\ pass.pc = "idle" /\ internal["operator"] # 0
        => LogsIn("operator", internal["operator"])

\* When the user rests the secrets, the database and the proxy come to agree,
\* and clients get through the proxy as root, although steps of passes fail
\* (reconcileUsers, syncPXCUsersWithProxySQL, resyncPXCUsersWithProxySQL).
RotationsEnd ==
    <>[](/\ Exists(sys) /\ Alive /\ internal = sys
         /\ \A u \in DbUsers : db[u] = sys[u]
         /\ ProxySQL => synced = db["root"] /\ \A u \in ProxyUsers : proxy[u] = sys[u])

\* When the user rests the pods come to run with the passwords they read, though
\* passes fail at any step and are repeated from the start (reconcileUsers' annotations,
\* updatePod).  A pass that ends after the write of the internal secret (users.go:110)
\* takes the restarts it had not yet caused with it: its groups are excepted until
\* their pods are restarted for another reason, such as the next change.
PodsFollow ==
    <>[](/\ Exists(internal)
         /\ \A g \in Groups \ forgotten : \A u \in Reads(g) : pods[g].env[u] = internal[u])
=============================================================================
