------------------------- MODULE UserRotation_proofs -------------------------
(***************************************************************************)
(* The operator keeps its login: for any changes of passwords, deletions   *)
(* of the users secret, failing steps and clusters of older versions.      *)
(***************************************************************************)
EXTENDS UserRotation, TLAPS

\* The steps of a pass that has read both secrets: up to the last grant it
\* holds a live database, from the change of the users on a ready cluster.
Granting == {"admin", "adminSys", "adminInternal",
             "monitor", "monitorDone", "xtrabackup", "xtrabackupDone"}
Altering == {"alter", "proxy", "sync", "write"}
HasRead  == Granting \cup {"check"} \cup Altering

\* What a pass knows is there is there.
Orderly ==
    /\ Alive => Exists(internal)
    /\ pass.pc # "idle" => (pass.ready => pass.up) /\ (pass.up => Alive)
    /\ pass.pc \in Granting => pass.up
    /\ pass.pc \in Altering => pass.ready
    /\ pass.pc \in HasRead => Exists(pass.sys) /\ Exists(pass.internal) /\ Exists(internal)

\* The operator's password is everywhere the one it had first.
Same ==
    Steady(plan) =>
        /\ IF Exists(sys) THEN sys["operator"] = 1 ELSE made["operator"] = 0
        /\ Exists(internal) => internal["operator"] = 1
        /\ Alive => db["operator"] = 1
        /\ pass.pc \in HasRead => pass.sys["operator"] = 1 /\ pass.internal["operator"] = 1

\* The internal secret is what the pass has read.  Its operator is the one of the
\* database, and its administrator that of the proxy, until these are changed;
\* from there on they are those of the users secret that the pass has read, and
\* will write.
Named(s) == \A u \in Users : s[u] # 0
Held ==
    Changing(plan) =>
        /\ Exists(sys) => Named(sys)
        /\ Exists(internal) => Named(internal)
        /\ pass.pc \in HasRead => pass.internal = internal /\ Named(pass.sys)
        /\ pass.pc \notin {"adminSys", "adminInternal"}
        /\ Alive => db["operator"] = IF pass.pc \in {"proxy", "sync", "write"}
                                     THEN pass.sys["operator"] ELSE internal["operator"]
        /\ Alive /\ ProxySQL =>
             proxy["proxyadmin"] = IF pass.pc \in {"sync", "write"}
                                   THEN pass.sys["proxyadmin"] ELSE internal["proxyadmin"]

\* The account that the database has is the one of the users secret, except
\* between the two writes; the internal secret names it or none.
Introduced ==
    Upgraded(plan) =>
        /\ Exists(internal) => Exists(sys) /\ internal["operator"] \in {0, sys["operator"]}
        /\ ~Alive /\ Exists(internal) => internal["operator"] = sys["operator"]
        /\ Alive => db["operator"] = IF pass.pc = "adminSys" THEN pass.sys["operator"]
                                     ELSE sys["operator"]
        /\ pass.pc = "adminSys" => sys = [pass.sys EXCEPT !["operator"] = 0]
        /\ pass.pc \in HasRead \ {"adminSys"} => pass.sys = sys
        /\ pass.pc \in HasRead => pass.internal["operator"] \in {0, pass.sys["operator"]}
        /\ pass.pc \in HasRead \ {"admin", "check"} \/ (pass.pc = "check" /\ pass.up) =>
             pass.internal["operator"] = pass.sys["operator"]

IInv == TypeOK /\ Orderly /\ Same /\ Held /\ Introduced
-----------------------------------------------------------------------------
(* Shapes.                                                                  *)

\* The users of the database, and the administrator of the proxy, are users; the
\* operator is the third of the required ones (requiredUsers).
LEMMA UsersHold ==
    /\ DbUsers \cup ProxyUsers \subseteq Users
    /\ Len(Required) \in Nat /\ 3 \in 1 .. Len(Required) /\ Required[3] = "operator"
    /\ \A g \in Groups : Reads(g) \subseteq Users
<1>1. CASE PMM /\ ProxySQL
  BY <1>1 DEF Required, Users, DbUsers, ProxyUsers, Groups, Reads
<1>2. CASE PMM /\ ~ProxySQL
  BY <1>2 DEF Required, Users, DbUsers, ProxyUsers, Groups, Reads
<1>3. CASE ~PMM /\ ProxySQL
  BY <1>3 DEF Required, Users, DbUsers, ProxyUsers, Groups, Reads
<1>4. CASE ~PMM /\ ~ProxySQL
  BY <1>4 DEF Required, Users, DbUsers, ProxyUsers, Groups, Reads
<1> QED BY <1>1, <1>2, <1>3, <1>4, Zenon

\* What is there is no NoSecret.
LEMMA There ==
    /\ \A s \in Passwords : Exists(s)
    /\ \A d \in [DbUsers -> Nat] : d # NoSecret
BY NoSecretAssumption DEF Passwords, Exists

\* A pass under way.
Working ==
    [pc: Steps \ {"idle"}, ready: BOOLEAN, up: BOOLEAN, sys: Passwords \cup {NoSecret},
     internal: Passwords \cup {NoSecret}, restart: SUBSET Groups, hash: Passwords \cup {NoSecret}]

LEMMA AtWork == ASSUME pass \in Passes, pass.pc # "idle" PROVE pass \in Working
BY DEF Passes, Idle, Working

LEMMA StillAPass ==
    /\ Working \subseteq Passes /\ Idle \in Passes
    /\ Idle.pc = "idle"
BY DEF Passes, Working, Idle

\* A step of the pass that only moves on (Go).
LEMMA GoesOn ==
    ASSUME pass \in Passes, pass.pc # "idle", NEW step \in Steps \ {"idle"}, Go(step)
    PROVE  /\ pass' \in Passes /\ pass'.pc = step
           /\ pass'.ready = pass.ready /\ pass'.up = pass.up
           /\ pass'.sys = pass.sys /\ pass'.internal = pass.internal
           /\ pass'.restart = pass.restart /\ pass'.hash = pass.hash
<1>1. pass \in Working
  BY AtWork
<1>2. pass' \in Working /\ pass'.pc = step
      /\ pass'.ready = pass.ready /\ pass'.up = pass.up
      /\ pass'.sys = pass.sys /\ pass'.internal = pass.internal
      /\ pass'.restart = pass.restart /\ pass'.hash = pass.hash
  BY <1>1 DEF Go, Working
<1> QED BY <1>2, StillAPass

\* The parts of a pass under way.
LEMMA Parts ==
    ASSUME pass \in Passes, pass.pc # "idle"
    PROVE  /\ pass.pc \in Steps /\ pass.ready \in BOOLEAN /\ pass.up \in BOOLEAN
           /\ pass.sys \in Passwords \cup {NoSecret} /\ pass.internal \in Passwords \cup {NoSecret}
           /\ pass.restart \subseteq Groups /\ pass.hash \in Passwords \cup {NoSecret}
<1>1. pass \in Working
  BY AtWork
<1> QED BY <1>1 DEF Working
-----------------------------------------------------------------------------
(* The steps, one lemma each.                                               *)

LEMMA BeginKeeps == ASSUME IInv, Begin PROVE IInv'
<1> USE DEF secrets, servers, cluster
<1>1. /\ pass' \in Passes /\ pass'.pc = "secret" /\ pass'.ready = Ready /\ pass'.up = Alive
  <2>1. pass' \in Working
    BY DEF Begin, Working, Steps, Ready, Waits, Alive
  <2> QED BY <2>1, StillAPass DEF Begin
<1>2. TypeOK'
  BY <1>1 DEF Begin, IInv, TypeOK
<1>3. Orderly'
  BY <1>1 DEF Begin, IInv, Orderly, Granting, Altering, HasRead, Ready, Alive, Exists
<1>4. Same'
  BY <1>1 DEF Begin, IInv, Same, Granting, Altering, HasRead, Alive, Exists
<1>5. Held'
  BY <1>1 DEF Begin, IInv, Held, Granting, Altering, HasRead, Alive, Exists, Named
<1>6. Introduced'
  BY <1>1 DEF Begin, IInv, Introduced, Granting, Altering, HasRead, Alive, Exists
<1> QED BY <1>2, <1>3, <1>4, <1>5, <1>6 DEF IInv

\* A secret that the pass makes has new passwords for all; the first time they
\* are the first ones.
LEMMA EnsureSecretKeeps == ASSUME IInv, EnsureSecret PROVE IInv'
<1> USE DEF secrets, servers, cluster
<1>1. /\ pass' \in Passes /\ pass'.pc = "read" /\ pass'.ready = pass.ready /\ pass'.up = pass.up
  BY GoesOn DEF EnsureSecret, IInv, TypeOK, Steps
<1>2. CASE Exists(sys)
  <2>1. TypeOK'
    BY <1>1, <1>2 DEF EnsureSecret, IInv, TypeOK
  <2>2. Orderly' /\ Same' /\ Held' /\ Introduced'
    BY <1>1, <1>2 DEF EnsureSecret, IInv, Orderly, Same, Held, Introduced, Granting, Altering, HasRead,
                      Alive, Exists, Named
  <2> QED BY <2>1, <2>2 DEF IInv
<1>3. CASE ~Exists(sys)
  <2>1. made \in [Users -> Nat] /\ made' = Generated(Users) /\ sys' = made'
    BY <1>3 DEF EnsureSecret, IInv, TypeOK, Passwords
  <2>2. /\ made' \in Passwords /\ Exists(sys)' /\ Named(sys')
        /\ sys'["operator"] = made["operator"] + 1
    <3>1. made' \in [Users -> Nat] /\ \A u \in Users : made'[u] = made[u] + 1
      BY <2>1 DEF Generated
    <3> QED BY <2>1, <3>1, There, UsersHold DEF Passwords, Exists, Named, DbUsers
  <2>3. TypeOK'
    BY <1>1, <2>1, <2>2 DEF EnsureSecret, IInv, TypeOK
  <2>4. Orderly'
    BY <1>1 DEF EnsureSecret, IInv, Orderly, Granting, Altering, HasRead, Alive, Exists
  <2>5. Same'
    BY <1>1, <1>3, <2>2 DEF EnsureSecret, IInv, Same, Granting, Altering, HasRead, Alive, Exists
  <2>6. Held'
    BY <1>1, <2>2 DEF EnsureSecret, IInv, Held, Granting, Altering, HasRead, Alive, Exists, Named
  <2>7. Introduced'
    BY <1>1, <1>3, <2>2 DEF EnsureSecret, IInv, Orderly, Introduced, Granting, Altering, HasRead, Alive, Exists
  <2> QED BY <2>3, <2>4, <2>5, <2>6, <2>7 DEF IInv
<1> QED BY <1>2, <1>3

LEMMA ReadSecretsKeeps == ASSUME IInv, ReadSecrets PROVE IInv'
<1> USE DEF secrets, servers, cluster
<1>1. pass \in Passes /\ pass.pc = "read" /\ sys \in Passwords \cup {NoSecret}
      /\ internal \in Passwords \cup {NoSecret}
  BY DEF ReadSecrets, IInv, TypeOK
<1>2. CASE ~Exists(sys) \/ ~Exists(internal)
  <2>1. Go("deploy")
    BY <1>2 DEF ReadSecrets
  <2>2. /\ pass' \in Passes /\ pass'.pc = "deploy" /\ pass'.ready = pass.ready /\ pass'.up = pass.up
    BY <1>1, <2>1, GoesOn DEF Steps
  <2>3. ~Exists(internal) => ~Alive
    BY DEF IInv, Orderly
  <2>4. internal' = internal \/ (~Exists(internal) /\ Exists(sys) /\ internal' = sys)
    BY <1>2 DEF ReadSecrets
  <2>5. TypeOK'
    BY <1>1, <2>2, <2>4 DEF ReadSecrets, IInv, TypeOK
  <2>6. Orderly'
    BY <2>2, <2>3, <2>4 DEF ReadSecrets, IInv, Orderly, Granting, Altering, HasRead, Alive, Exists
  <2>7. Same'
    BY <2>2, <2>3, <2>4 DEF ReadSecrets, IInv, Same, Granting, Altering, HasRead, Alive, Exists
  <2>8. Held'
    BY <2>2, <2>3, <2>4 DEF ReadSecrets, IInv, Held, Granting, Altering, HasRead, Alive, Exists, Named
  <2>9. Introduced'
    BY <2>2, <2>3, <2>4 DEF ReadSecrets, IInv, Introduced, Granting, Altering, HasRead, Alive, Exists
  <2> QED BY <2>5, <2>6, <2>7, <2>8, <2>9 DEF IInv
<1>3. CASE Exists(sys) /\ Exists(internal)
  <2>1. /\ pass' = [pass EXCEPT !.sys = sys, !.internal = internal,
                                !.pc = IF pass.up THEN "admin" ELSE "check"]
        /\ internal' = internal
    BY <1>3 DEF ReadSecrets
  <2>2. /\ pass' \in Passes /\ pass'.ready = pass.ready /\ pass'.up = pass.up
        /\ pass'.pc = (IF pass.up THEN "admin" ELSE "check")
        /\ pass'.sys = sys /\ pass'.internal = internal
    <3>1. pass \in Working
      BY <1>1, AtWork
    <3>2. pass' \in Working /\ pass'.ready = pass.ready /\ pass'.up = pass.up
        /\ pass'.pc = (IF pass.up THEN "admin" ELSE "check")
        /\ pass'.sys = sys /\ pass'.internal = internal
      BY <1>1, <2>1, <3>1 DEF Working, Steps
    <3> QED BY <3>2, StillAPass
  <2>3. TypeOK'
    BY <2>1, <2>2 DEF ReadSecrets, IInv, TypeOK
  <2>4. Orderly'
    BY <1>1, <1>3, <2>1, <2>2 DEF ReadSecrets, IInv, Orderly, Granting, Altering, HasRead, Alive, Exists
  <2>5. Same'
    BY <1>3, <2>1, <2>2 DEF ReadSecrets, IInv, Same, Granting, Altering, HasRead, Alive, Exists
  <2>6. Held'
    BY <1>1, <1>3, <2>1, <2>2 DEF ReadSecrets, IInv, Held, Granting, Altering, HasRead, Alive, Exists, Named
  <2>7. Introduced'
    BY <1>1, <1>3, <2>1, <2>2 DEF ReadSecrets, IInv, Introduced, Granting, Altering, HasRead, Alive, Exists
  <2> QED BY <2>3, <2>4, <2>5, <2>6, <2>7 DEF IInv
<1> QED BY <1>2, <1>3

\* A pass that ends with an error leaves nothing behind that another would not
\* put right, unless it ends between two writes that belong together.
LEMMA EndKeeps ==
    ASSUME IInv, EndsInError, UNCHANGED <<plan, made, sys, internal, db, proxy>>,
           Changing(plan) => pass.pc \notin {"proxy", "sync", "write"},
           Upgraded(plan) => pass.pc # "adminSys"
    PROVE  Orderly' /\ Same' /\ Held' /\ Introduced' /\ pass' \in Passes
<1>1. pass'.pc = "idle" /\ pass' \in Passes
  BY StillAPass DEF EndsInError
<1> HIDE DEF EndsInError
<1>2. Orderly'
  BY <1>1 DEF IInv, Orderly, Granting, Altering, HasRead, Alive, Exists
<1>3. Same'
  BY <1>1 DEF IInv, Same, Granting, Altering, HasRead, Alive, Exists
<1>4. Held'
  BY <1>1 DEF IInv, Held, Granting, Altering, HasRead, Alive, Exists, Named
<1>5. Introduced'
  BY <1>1 DEF IInv, Introduced, Granting, Altering, HasRead, Alive, Exists
<1> QED BY <1>1, <1>2, <1>3, <1>4, <1>5

LEMMA AdminUserKeeps == ASSUME IInv, AdminUser PROVE IInv'
<1> USE DEF secrets, servers, cluster
<1>1. pass \in Passes /\ pass.pc = "admin" /\ Exists(pass.sys) /\ Exists(pass.internal)
  BY DEF AdminUser, IInv, TypeOK, Orderly, HasRead, Granting
<1>2. pass \in Working /\ pass.sys \in [Users -> Nat] /\ pass.internal \in [Users -> Nat]
  BY <1>1, AtWork, Parts DEF Exists, Passwords
<1>3. CASE pass.sys["operator"] # 0
  <2> DEFINE named == [pass.internal EXCEPT !["operator"] = IF @ = 0 THEN pass.sys["operator"] ELSE @]
  <2>1. /\ named \in Passwords /\ Exists(named)
        /\ named["operator"] = IF pass.internal["operator"] = 0 THEN pass.sys["operator"]
                               ELSE pass.internal["operator"]
        /\ Named(pass.internal) => named = pass.internal
    <3>1. named \in [Users -> Nat]
      BY <1>2, UsersHold DEF DbUsers
    <3>2. /\ named["operator"] = IF pass.internal["operator"] = 0 THEN pass.sys["operator"]
                                 ELSE pass.internal["operator"]
          /\ \A u \in Users : u # "operator" => named[u] = pass.internal[u]
      BY <1>2, UsersHold DEF DbUsers
    <3>3. Named(pass.internal) => named = pass.internal
      BY <1>2, <3>1, <3>2, UsersHold DEF Named, DbUsers
    <3> QED BY <3>1, <3>2, <3>3, There DEF Passwords
  <2>2. pass' = [pass EXCEPT !.pc = "monitor", !.internal = named] /\ UNCHANGED <<made, db>>
    <3>1. pass' = [pass EXCEPT !.pc = "monitor",
                     !.internal["operator"] = IF @ = 0 THEN pass.sys["operator"] ELSE @]
      BY <1>3 DEF AdminUser
    <3> QED BY <1>2, <1>3, <3>1 DEF AdminUser, Working
  <2> HIDE DEF named
  <2>3. /\ pass' \in Passes /\ pass'.pc = "monitor" /\ pass'.ready = pass.ready /\ pass'.up = pass.up
        /\ pass'.sys = pass.sys /\ pass'.internal = named
    <3>1. pass' \in Working /\ pass'.pc = "monitor" /\ pass'.ready = pass.ready /\ pass'.up = pass.up
          /\ pass'.sys = pass.sys /\ pass'.internal = named
      BY <1>2, <2>1, <2>2 DEF Working, Steps
    <3> QED BY <3>1, StillAPass
  <2>4. TypeOK'
    BY <2>2, <2>3 DEF AdminUser, IInv, TypeOK
  <2>5. Orderly'
    BY <1>1, <2>1, <2>2, <2>3 DEF AdminUser, IInv, Orderly, Granting, Altering, HasRead, Alive, Exists
  <2>6. Same'
    BY <1>1, <2>1, <2>2, <2>3 DEF AdminUser, IInv, Same, Granting, Altering, HasRead, Alive, Exists
  <2>7. Held'
    BY <1>1, <2>1, <2>2, <2>3 DEF AdminUser, IInv, Orderly, Held, Granting, Altering, HasRead, Alive, Exists, Named
  <2>8. Introduced'
    BY <1>1, <1>3, <2>1, <2>2, <2>3 DEF AdminUser, IInv, Introduced, Granting, Altering, HasRead, Alive, Exists
  <2> QED BY <2>4, <2>5, <2>6, <2>7, <2>8 DEF IInv
<1>4. CASE pass.sys["operator"] = 0 /\ ~LogsIn("root", pass.sys["root"])
  <2>1. EndsInError /\ UNCHANGED <<made, db>>
    BY <1>4 DEF AdminUser
  <2>2. Orderly' /\ Same' /\ Held' /\ Introduced' /\ pass' \in Passes
    BY <1>1, <2>1, EndKeeps DEF AdminUser
  <2>3. TypeOK'
    BY <2>1, <2>2 DEF AdminUser, IInv, TypeOK
  <2> QED BY <2>2, <2>3 DEF IInv
<1>5. CASE pass.sys["operator"] = 0 /\ LogsIn("root", pass.sys["root"])
  <2>1. /\ made' = Generated({"operator"}) /\ db' = WithUser("operator", made'["operator"])
        /\ pass' = [pass EXCEPT !.pc = "adminSys", !.sys["operator"] = made'["operator"],
                                !.internal["operator"] = made'["operator"]]
    BY <1>5 DEF AdminUser
  <2>2. Alive /\ db \in [DbUsers -> Nat] /\ made \in [Users -> Nat]
    BY <1>5 DEF LogsIn, Alive, IInv, TypeOK, Passwords
  <2>3. made' \in [Users -> Nat] /\ made'["operator"] = made["operator"] + 1
    BY <2>1, <2>2, UsersHold DEF Generated, DbUsers
  <2>4. db' \in [DbUsers -> Nat] /\ (db["operator"] = 0 => db'["operator"] = made'["operator"])
    BY <2>1, <2>2, <2>3, UsersHold DEF WithUser, DbUsers
  <2> DEFINE s == [pass.sys EXCEPT !["operator"] = made'["operator"]]
             i == [pass.internal EXCEPT !["operator"] = made'["operator"]]
  <2>5. /\ s \in Passwords /\ i \in Passwords
        /\ s["operator"] = made'["operator"] /\ i["operator"] = made'["operator"]
        /\ [s EXCEPT !["operator"] = 0] = pass.sys
    <3>1. s \in [Users -> Nat] /\ i \in [Users -> Nat]
      BY <1>2, <2>3, UsersHold DEF DbUsers
    <3>2. s["operator"] = made'["operator"] /\ i["operator"] = made'["operator"]
      BY <1>2, <2>3, UsersHold DEF DbUsers
    <3>3. [s EXCEPT !["operator"] = 0] = pass.sys
      BY <1>2, <1>5, <3>1, UsersHold DEF DbUsers
    <3> QED BY <3>1, <3>2, <3>3 DEF Passwords
  <2>6. pass' = [pass EXCEPT !.pc = "adminSys", !.sys = s, !.internal = i]
    BY <1>2, <2>1 DEF Working
  <2> HIDE DEF s, i
  <2>7. /\ pass' \in Passes /\ pass'.pc = "adminSys" /\ pass'.ready = pass.ready /\ pass'.up = pass.up
        /\ pass'.sys = s /\ pass'.internal = i
    <3>1. pass' \in Working /\ pass'.pc = "adminSys" /\ pass'.ready = pass.ready /\ pass'.up = pass.up
          /\ pass'.sys = s /\ pass'.internal = i
      BY <1>2, <2>5, <2>6 DEF Working, Steps
    <3> QED BY <3>1, StillAPass
  <2>8. TypeOK'
    BY <2>3, <2>4, <2>7 DEF AdminUser, IInv, TypeOK, Passwords
  <2>9. Orderly'
    BY <1>1, <2>2, <2>4, <2>5, <2>7, There DEF AdminUser, IInv, Orderly, Granting, Altering, HasRead, Alive, Exists
  <2>10. Same' /\ Held'
    <3>1. ~Steady(plan)
      BY <1>1, <1>5 DEF IInv, Same, HasRead, Granting
    <3>2. ~Changing(plan)
      BY <1>1, <1>5, UsersHold DEF IInv, Held, HasRead, Granting, Named, DbUsers
    <3>3. plan' = plan
      BY DEF AdminUser
    <3> QED BY <3>1, <3>2, <3>3 DEF Same, Held
  <2>11. Introduced'
    BY <1>1, <1>5, <2>2, <2>4, <2>5, <2>7, There DEF AdminUser, IInv, Orderly, Introduced, Granting, Altering, HasRead, Alive, Exists
  <2> QED BY <2>8, <2>9, <2>10, <2>11 DEF IInv
<1> QED BY <1>3, <1>4, <1>5

\* The new account is written to the users secret as this pass has read it.
LEMMA AdminToSecretKeeps == ASSUME IInv, AdminToSecret PROVE IInv'
<1> USE DEF secrets, servers, cluster
<1>1. pass \in Passes /\ pass.pc = "adminSys" /\ Exists(pass.sys) /\ Exists(pass.internal)
  BY DEF AdminToSecret, IInv, TypeOK, Orderly, HasRead, Granting
<1>2. pass.sys \in [Users -> Nat] /\ ~Changing(plan)
  BY <1>1, Parts DEF Exists, Passwords, IInv, Held
<1>3. CASE Exists(sys) /\ [sys EXCEPT !["operator"] = pass.sys["operator"]] = pass.sys
  <2>1. sys' = pass.sys /\ Go("adminInternal")
    BY <1>3 DEF AdminToSecret
  <2>2. /\ pass' \in Passes /\ pass'.pc = "adminInternal" /\ pass'.ready = pass.ready /\ pass'.up = pass.up
        /\ pass'.sys = pass.sys /\ pass'.internal = pass.internal
    BY <1>1, <2>1, GoesOn DEF Steps
  <2>3. TypeOK'
    BY <1>2, <2>1, <2>2 DEF AdminToSecret, IInv, TypeOK, Passwords
  <2>4. Orderly'
    BY <1>1, <2>2 DEF AdminToSecret, IInv, Orderly, Granting, Altering, HasRead, Alive, Exists
  <2>5. Same'
    BY <1>1, <2>1, <2>2 DEF AdminToSecret, IInv, Same, Granting, Altering, HasRead, Alive, Exists
  <2>6. Held'
    BY <1>2 DEF AdminToSecret, Held
  <2>7. Introduced'
    <3> SUFFICES ASSUME Upgraded(plan) PROVE Introduced'
      BY DEF AdminToSecret, Introduced
    <3>1. Alive /\ Exists(internal)
      BY <1>1 DEF IInv, Orderly, Granting
    <3>2. pass.internal["operator"] = pass.sys["operator"] /\ sys["operator"] = 0
          /\ internal["operator"] = 0 /\ db["operator"] = pass.sys["operator"]
      BY <1>1, <1>2, <3>1, UsersHold DEF IInv, Introduced, HasRead, Granting, DbUsers
    <3> QED BY <1>1, <2>1, <2>2, <3>1, <3>2 DEF AdminToSecret, Introduced, Granting, Altering, HasRead, Alive, Exists
  <2> QED BY <2>3, <2>4, <2>5, <2>6, <2>7 DEF IInv
<1>4. CASE ~(Exists(sys) /\ [sys EXCEPT !["operator"] = pass.sys["operator"]] = pass.sys)
  <2>1. EndsInError /\ sys' = sys
    BY <1>4 DEF AdminToSecret
  <2>2. ~Upgraded(plan)
    <3>1. SUFFICES ASSUME Upgraded(plan) PROVE FALSE
      OBVIOUS
    <3>2. Exists(sys) /\ sys = [pass.sys EXCEPT !["operator"] = 0]
      BY <1>1, <3>1 DEF IInv, Introduced, Orderly, HasRead, Granting
    <3>3. [sys EXCEPT !["operator"] = pass.sys["operator"]] = pass.sys
      BY <1>2, <3>2, UsersHold DEF DbUsers
    <3> QED BY <1>4, <3>2, <3>3
  <2>3. Orderly' /\ Same' /\ Held' /\ Introduced' /\ pass' \in Passes
    BY <1>1, <2>1, <2>2, EndKeeps DEF AdminToSecret
  <2>4. TypeOK'
    BY <2>1, <2>3 DEF AdminToSecret, IInv, TypeOK
  <2> QED BY <2>3, <2>4 DEF IInv
<1> QED BY <1>3, <1>4

LEMMA AdminToInternalKeeps == ASSUME IInv, AdminToInternal PROVE IInv'
<1> USE DEF secrets, servers, cluster
<1>1. pass \in Passes /\ pass.pc = "adminInternal" /\ Exists(pass.sys) /\ Exists(pass.internal) /\ Alive
  BY DEF AdminToInternal, IInv, TypeOK, Orderly, HasRead, Granting
<1>2. pass.internal \in Passwords /\ ~Changing(plan)
  BY <1>1, Parts DEF Exists, IInv, Held
<1>3. /\ pass' \in Passes /\ pass'.pc = "monitor" /\ pass'.ready = pass.ready /\ pass'.up = pass.up
      /\ pass'.sys = pass.sys /\ pass'.internal = pass.internal
  BY <1>1, GoesOn DEF Steps, AdminToInternal
<1>4. TypeOK'
  BY <1>2, <1>3 DEF AdminToInternal, IInv, TypeOK
<1>5. Orderly'
  BY <1>1, <1>3 DEF AdminToInternal, IInv, Orderly, Granting, Altering, HasRead, Alive, Exists
<1>6. Same'
  BY <1>1, <1>3 DEF AdminToInternal, IInv, Same, Granting, Altering, HasRead, Alive, Exists
<1>7. Held'
  BY <1>2 DEF AdminToInternal, Held
<1>8. Introduced'
  BY <1>1, <1>3 DEF AdminToInternal, IInv, Orderly, Introduced, Granting, Altering, HasRead, Alive, Exists
<1> QED BY <1>4, <1>5, <1>6, <1>7, <1>8 DEF IInv

\* The grants make other accounts than the operator's.
LEMMA GrantKeeps ==
    ASSUME IInv, NEW u \in {"monitor", "xtrabackup"}, NEW done \in {"monitorDone", "xtrabackupDone"},
           NEW next \in {"xtrabackup", "check"}, Grant(u, done, next)
    PROVE  IInv'
<1> USE DEF secrets, servers, cluster
<1> DEFINE a == Account(pass.internal)
<1>1. pass \in Passes /\ pass.pc = u /\ Exists(pass.sys) /\ Exists(pass.internal) /\ Alive /\ pass.up
      /\ Exists(internal) /\ pass.pc \in {"monitor", "xtrabackup"}
  BY DEF Grant, IInv, TypeOK, Orderly, HasRead, Granting
<1>2. pass.internal \in [Users -> Nat] /\ db \in [DbUsers -> Nat]
  BY <1>1, Parts DEF Exists, Passwords, Alive, IInv, TypeOK
<1>3. CASE u \notin granted /\ ~LogsIn(a, pass.internal[a])
  <2>1. EndsInError /\ UNCHANGED <<db, rights>>
    BY <1>3 DEF Grant
  <2>2. Orderly' /\ Same' /\ Held' /\ Introduced' /\ pass' \in Passes
    BY <1>1, <2>1, EndKeeps DEF Grant
  <2>3. TypeOK'
    BY <2>1, <2>2 DEF Grant, IInv, TypeOK
  <2> QED BY <2>2, <2>3 DEF IInv
<1>4. CASE u \in granted \/ LogsIn(a, pass.internal[a])
  <2>1. \E step \in {next, done} : Go(step)
    BY <1>4 DEF Grant
  <2>2. PICK step \in {next, done} : Go(step)
    BY <2>1
  <2>3. step \in {"monitorDone", "xtrabackup", "xtrabackupDone", "check"}
    OBVIOUS
  <2>4. /\ pass' \in Passes /\ pass'.pc = step /\ pass'.ready = pass.ready /\ pass'.up = pass.up
        /\ pass'.sys = pass.sys /\ pass'.internal = pass.internal
    BY <1>1, <2>2, <2>3, GoesOn DEF Steps
  <2>5. /\ db' \in [DbUsers -> Nat] /\ db'["operator"] = db["operator"]
        /\ rights' \subseteq {"monitor", "xtrabackup"}
    <3>1. CASE u \in granted
      BY <1>2, <3>1 DEF Grant, IInv, TypeOK
    <3>2. CASE u \notin granted
      <4>1. db' = WithUser(u, pass.internal[u]) /\ rights' = rights \cup {u}
        BY <1>4, <3>2 DEF Grant
      <4>2. u \in DbUsers /\ u \in Users /\ u # "operator"
        BY UsersHold DEF DbUsers
      <4> QED BY <1>2, <4>1, <4>2 DEF WithUser, IInv, TypeOK, DbUsers
    <3> QED BY <3>1, <3>2
  <2>6. TypeOK'
    BY <2>4, <2>5 DEF Grant, IInv, TypeOK
  <2>7. Orderly'
    BY <1>1, <2>3, <2>4, <2>5, There DEF Grant, IInv, Orderly, Granting, Altering, HasRead, Alive, Exists
  <2>8. Same'
    BY <1>1, <2>3, <2>4, <2>5 DEF Grant, IInv, Same, Granting, Altering, HasRead, Alive, Exists
  <2>9. Held'
    BY <1>1, <2>3, <2>4, <2>5 DEF Grant, IInv, Held, Granting, Altering, HasRead, Alive, Exists, Named
  <2>10. Introduced'
    BY <1>1, <2>3, <2>4, <2>5, There DEF Grant, IInv, Introduced, Granting, Altering, HasRead, Alive, Exists
  <2> QED BY <2>6, <2>7, <2>8, <2>9, <2>10 DEF IInv
<1> QED BY <1>3, <1>4

\* The copy of the internal secret that is written names the operator's account.
LEMMA GrantDoneKeeps ==
    ASSUME IInv, NEW u \in {"monitor", "xtrabackup"}, NEW done \in {"monitorDone", "xtrabackupDone"},
           NEW next \in {"xtrabackup", "check"}, GrantDone(u, done, next)
    PROVE  IInv'
<1> USE DEF secrets, servers, cluster
<1>1. pass \in Passes /\ pass.pc = done /\ Exists(pass.sys) /\ Exists(pass.internal) /\ Alive /\ pass.up
      /\ Exists(internal) /\ pass.pc \in {"monitorDone", "xtrabackupDone"}
  BY DEF GrantDone, IInv, TypeOK, Orderly, HasRead, Granting
<1>2. pass.internal \in Passwords
  BY <1>1, Parts DEF Exists
<1>3. /\ pass' \in Passes /\ pass'.pc = next /\ pass'.ready = pass.ready /\ pass'.up = pass.up
      /\ pass'.sys = pass.sys /\ pass'.internal = pass.internal
  BY <1>1, GoesOn DEF Steps, GrantDone
<1>4. TypeOK'
  BY <1>2, <1>3 DEF GrantDone, IInv, TypeOK
<1>5. Orderly'
  BY <1>1, <1>3 DEF GrantDone, IInv, Orderly, Granting, Altering, HasRead, Alive, Exists
<1>6. Same'
  BY <1>1, <1>3 DEF GrantDone, IInv, Same, Granting, Altering, HasRead, Alive, Exists
<1>7. Held'
  BY <1>1, <1>3 DEF GrantDone, IInv, Held, Granting, Altering, HasRead, Alive, Exists, Named
<1>8. Introduced'
  BY <1>1, <1>3 DEF GrantDone, IInv, Orderly, Introduced, Granting, Altering, HasRead, Alive, Exists
<1> QED BY <1>4, <1>5, <1>6, <1>7, <1>8 DEF IInv

\* The users are only changed on a cluster that was ready when the pass began.
LEMMA CheckChangedKeeps == ASSUME IInv, CheckChanged PROVE IInv'
<1> USE DEF secrets, servers, cluster
<1>1. pass \in Passes /\ pass.pc = "check" /\ Exists(pass.sys) /\ Exists(pass.internal) /\ Exists(internal)
  BY DEF CheckChanged, IInv, TypeOK, Orderly, HasRead, Granting
<1>2. CASE EndsInError
  <2>1. Orderly' /\ Same' /\ Held' /\ Introduced' /\ pass' \in Passes
    BY <1>1, <1>2, EndKeeps DEF CheckChanged
  <2>2. TypeOK'
    BY <2>1 DEF CheckChanged, IInv, TypeOK
  <2> QED BY <2>1, <2>2 DEF IInv
<1>3. ASSUME NEW step \in {"deploy", "alter"}, Go(step), step = "alter" => pass.ready PROVE IInv'
  <2>1. /\ pass' \in Passes /\ pass'.pc = step /\ pass'.ready = pass.ready /\ pass'.up = pass.up
        /\ pass'.sys = pass.sys /\ pass'.internal = pass.internal
    BY <1>1, <1>3, GoesOn DEF Steps
  <2>2. TypeOK'
    BY <2>1 DEF CheckChanged, IInv, TypeOK
  <2>3. Orderly'
    BY <1>1, <1>3, <2>1 DEF CheckChanged, IInv, Orderly, Granting, Altering, HasRead, Alive, Exists
  <2>4. Same'
    BY <1>1, <1>3, <2>1 DEF CheckChanged, IInv, Same, Granting, Altering, HasRead, Alive, Exists
  <2>5. Held'
    BY <1>1, <1>3, <2>1 DEF CheckChanged, IInv, Held, Granting, Altering, HasRead, Alive, Exists, Named
  <2>6. Introduced'
    BY <1>1, <1>3, <2>1 DEF CheckChanged, IInv, Orderly, Introduced, Granting, Altering, HasRead, Alive, Exists
  <2> QED BY <2>2, <2>3, <2>4, <2>5, <2>6 DEF IInv
<1>4. \/ EndsInError \/ Go("deploy") \/ (pass.ready /\ Go("alter"))
  BY Parts, <1>1 DEF CheckChanged
<1> QED BY <1>2, <1>3, <1>4

\* ALTER USER gives the operator the password of the users secret, as read, unless
\* it stops before.
LEMMA AlteredOperator ==
    ASSUME db \in [DbUsers -> Nat], pass.sys \in [Users -> Nat], pass.internal \in [Users -> Nat],
           NEW n \in Nat
    PROVE  /\ Altered(n) \in [DbUsers -> Nat]
           /\ Altered(n)["operator"] \in {db["operator"], pass.sys["operator"]}
           /\ n = Len(Required) /\ db["operator"] = pass.internal["operator"] =>
                Altered(n)["operator"] = pass.sys["operator"]
<1>1. Altered(n) \in [DbUsers -> Nat]
  BY UsersHold DEF Altered
<1>2. Altered(n)["operator"] = IF "operator" \in ToAlter /\ \E i \in 1 .. n : Required[i] = "operator"
                               THEN pass.sys["operator"] ELSE db["operator"]
  BY DEF Altered, DbUsers
<1>3. "operator" \in ToAlter <=> pass.sys["operator"] # pass.internal["operator"]
  BY UsersHold DEF ToAlter, ToChange, DbUsers
<1>4. n = Len(Required) => \E i \in 1 .. n : Required[i] = "operator"
  BY UsersHold
<1> QED BY <1>1, <1>2, <1>3, <1>4

LEMMA AlterUsersKeeps == ASSUME IInv, AlterUsers PROVE IInv'
<1> USE DEF secrets, servers, cluster
<1>1. /\ pass \in Passes /\ pass.pc = "alter" /\ Exists(pass.sys) /\ Exists(pass.internal) /\ Exists(internal)
      /\ Alive /\ pass.ready /\ pass.up
  BY DEF AlterUsers, IInv, TypeOK, Orderly, HasRead, Altering
<1>2. pass.sys \in [Users -> Nat] /\ pass.internal \in [Users -> Nat] /\ db \in [DbUsers -> Nat]
  BY <1>1, Parts DEF Exists, Passwords, Alive, IInv, TypeOK
<1>3. CASE EndsInError /\ UNCHANGED db
  <2>1. Orderly' /\ Same' /\ Held' /\ Introduced' /\ pass' \in Passes
    BY <1>1, <1>3, EndKeeps DEF AlterUsers
  <2>2. TypeOK'
    BY <1>3, <2>1 DEF AlterUsers, IInv, TypeOK
  <2> QED BY <2>1, <2>2 DEF IInv
<1>4. CASE db' = Altered(Len(Required)) /\ Go("proxy")
  <2>1. /\ pass' \in Passes /\ pass'.pc = "proxy" /\ pass'.ready = pass.ready /\ pass'.up = pass.up
        /\ pass'.sys = pass.sys /\ pass'.internal = pass.internal
    BY <1>1, <1>4, GoesOn DEF Steps
  <2>2. /\ db' \in [DbUsers -> Nat] /\ db'["operator"] \in {db["operator"], pass.sys["operator"]}
        /\ db["operator"] = pass.internal["operator"] => db'["operator"] = pass.sys["operator"]
    BY <1>2, <1>4, UsersHold, AlteredOperator
  <2>3. TypeOK'
    BY <2>1, <2>2 DEF AlterUsers, IInv, TypeOK
  <2>4. Orderly'
    BY <1>1, <2>1, <2>2, There DEF AlterUsers, IInv, Orderly, Granting, Altering, HasRead, Alive, Exists
  <2>5. Same'
    BY <1>1, <2>1, <2>2 DEF AlterUsers, IInv, Same, Granting, Altering, HasRead, Alive, Exists
  <2>6. Held'
    BY <1>1, <2>1, <2>2 DEF AlterUsers, IInv, Held, Granting, Altering, HasRead, Alive, Exists, Named
  <2>7. Introduced'
    BY <1>1, <2>1, <2>2, There DEF AlterUsers, IInv, Introduced, Granting, Altering, HasRead, Alive, Exists
  <2> QED BY <2>3, <2>4, <2>5, <2>6, <2>7 DEF IInv
<1> QED BY <1>3, <1>4 DEF AlterUsers

LEMMA AlterFailsKeeps == ASSUME IInv, AlterFails PROVE IInv'
<1> USE DEF secrets, servers, cluster
<1>1. /\ pass \in Passes /\ pass.pc = "alter" /\ Exists(pass.sys) /\ Exists(pass.internal) /\ Exists(internal)
      /\ Alive
  BY DEF AlterFails, IInv, TypeOK, Orderly, HasRead, Altering
<1>2. pass.sys \in [Users -> Nat] /\ pass.internal \in [Users -> Nat] /\ db \in [DbUsers -> Nat]
  BY <1>1, Parts DEF Exists, Passwords, Alive, IInv, TypeOK
<1>3. pass' \in Passes /\ pass'.pc = "idle"
  BY StillAPass DEF AlterFails, EndsInError
<1>4. /\ db' \in [DbUsers -> Nat] /\ db'["operator"] \in {db["operator"], pass.sys["operator"]}
  <2>1. PICK n \in 0 .. Len(Required) : db' = Altered(n)
    BY DEF AlterFails
  <2>2. n \in Nat
    BY UsersHold
  <2>3. /\ Altered(n) \in [DbUsers -> Nat]
        /\ Altered(n)["operator"] \in {db["operator"], pass.sys["operator"]}
    BY <1>2, <2>2, AlteredOperator
  <2> QED BY <2>1, <2>3
<1>5. TypeOK'
  BY <1>3, <1>4, BoundsAssumption DEF AlterFails, IInv, TypeOK
<1>6. Orderly'
  BY <1>1, <1>3, <1>4, There DEF AlterFails, IInv, Orderly, Granting, Altering, HasRead, Alive, Exists
<1>7. Same'
  BY <1>1, <1>3, <1>4 DEF AlterFails, IInv, Same, Granting, Altering, HasRead, Alive, Exists
<1>8. Held'
  <2>1. ~Changing(plan) /\ plan' = plan
    BY DEF AlterFails, Changing
  <2> QED BY <2>1 DEF Held
<1>9. Introduced'
  BY <1>1, <1>3, <1>4, There DEF AlterFails, IInv, Introduced, Granting, Altering, HasRead, Alive, Exists
<1> QED BY <1>5, <1>6, <1>7, <1>8, <1>9 DEF IInv

\* The administrator's login is the one of the internal secret, until its own
\* password is changed.
LEMMA AlterProxyUsersKeeps == ASSUME IInv, AlterProxyUsers PROVE IInv'
<1> USE DEF secrets, servers, cluster
<1>1. /\ pass \in Passes /\ pass.pc = "proxy" /\ Exists(pass.sys) /\ Exists(pass.internal) /\ Exists(internal)
      /\ Alive /\ pass.ready /\ pass.up
  BY DEF AlterProxyUsers, IInv, TypeOK, Orderly, HasRead, Altering
<1>2. pass.sys \in [Users -> Nat] /\ pass.internal \in [Users -> Nat] /\ proxy \in [ProxyUsers -> Nat]
  BY <1>1, Parts DEF Exists, Passwords, IInv, TypeOK
<1>3. Changing(plan) /\ ProxySQL => proxy["proxyadmin"] = pass.internal["proxyadmin"]
  BY <1>1 DEF IInv, Held, HasRead, Altering
<1>4. CASE EndsInError
  <2>1. UNCHANGED proxy /\ ProxySQL /\ proxy["proxyadmin"] # pass.internal["proxyadmin"]
    <3>1. ~Go("sync")
      <4>1. pass'.pc = "idle"
        BY <1>4, StillAPass DEF EndsInError
      <4>2. SUFFICES ASSUME Go("sync") PROVE FALSE
        OBVIOUS
      <4>3. pass'.pc = "sync"
        BY <1>1, <4>2, GoesOn DEF Steps
      <4> QED BY <4>1, <4>3
    <3> QED BY <3>1 DEF AlterProxyUsers
  <2>2. Orderly' /\ Same' /\ Held' /\ Introduced' /\ pass' \in Passes
    BY <1>1, <1>3, <1>4, <2>1, EndKeeps DEF AlterProxyUsers
  <2>3. TypeOK'
    BY <2>1, <2>2 DEF AlterProxyUsers, IInv, TypeOK
  <2> QED BY <2>2, <2>3 DEF IInv
<1>5. CASE Go("sync")
  <2>1. /\ pass' \in Passes /\ pass'.pc = "sync" /\ pass'.ready = pass.ready /\ pass'.up = pass.up
        /\ pass'.sys = pass.sys /\ pass'.internal = pass.internal
    BY <1>1, <1>5, GoesOn DEF Steps
  <2> DEFINE new == [u \in ProxyUsers |-> IF u \in ToChange THEN pass.sys[u] ELSE proxy[u]]
  <2>2. \/ proxy' = proxy /\ (~ProxySQL \/ ToChange \cap ProxyUsers = {})
        \/ proxy' = new
    <3>1. ~EndsInError
      BY <2>1, StillAPass DEF EndsInError
    <3> QED BY <3>1 DEF AlterProxyUsers
  <2>3. "proxyadmin" \in ToChange <=> pass.sys["proxyadmin"] # pass.internal["proxyadmin"]
    BY UsersHold DEF ToChange, ProxyUsers
  <2>4. proxy' \in [ProxyUsers -> Nat]
    BY <1>2, <2>2, UsersHold
  <2>5. Changing(plan) /\ ProxySQL => proxy'["proxyadmin"] = pass.sys["proxyadmin"]
    BY <1>3, <2>2, <2>3 DEF ProxyUsers
  <2> HIDE DEF new
  <2>6. TypeOK'
    BY <2>1, <2>4 DEF AlterProxyUsers, IInv, TypeOK
  <2>7. Orderly'
    BY <1>1, <2>1 DEF AlterProxyUsers, IInv, Orderly, Granting, Altering, HasRead, Alive, Exists
  <2>8. Same'
    BY <1>1, <2>1 DEF AlterProxyUsers, IInv, Same, Granting, Altering, HasRead, Alive, Exists
  <2>9. Held'
    BY <1>1, <2>1, <2>5 DEF AlterProxyUsers, IInv, Held, Granting, Altering, HasRead, Alive, Exists, Named
  <2>10. Introduced'
    BY <1>1, <2>1 DEF AlterProxyUsers, IInv, Introduced, Granting, Altering, HasRead, Alive, Exists
  <2> QED BY <2>6, <2>7, <2>8, <2>9, <2>10 DEF IInv
<1> QED BY <1>4, <1>5 DEF AlterProxyUsers

LEMMA SyncUsersKeeps == ASSUME IInv, SyncUsers PROVE IInv'
<1> USE DEF secrets, servers, cluster
<1>1. /\ pass \in Passes /\ pass.pc = "sync" /\ Exists(pass.sys) /\ Exists(pass.internal) /\ Exists(internal)
      /\ Alive /\ pass.ready /\ pass.up
  BY DEF SyncUsers, IInv, TypeOK, Orderly, HasRead, Altering
<1>2. pass \in Working /\ pass.sys \in Passwords /\ db \in [DbUsers -> Nat]
  BY <1>1, AtWork, Parts DEF Exists, Alive, IInv, TypeOK
<1>3. /\ pass' \in Passes /\ pass'.pc = "write" /\ pass'.ready = pass.ready /\ pass'.up = pass.up
      /\ pass'.sys = pass.sys /\ pass'.internal = pass.internal
  <2>1. Restarts(ToChange) \subseteq Groups
    BY DEF Restarts
  <2>2. pass' = [pass EXCEPT !.pc = "write", !.restart = Restarts(ToChange), !.hash = pass.sys]
    BY DEF SyncUsers
  <2>3. /\ pass' \in Working /\ pass'.pc = "write" /\ pass'.ready = pass.ready /\ pass'.up = pass.up
        /\ pass'.sys = pass.sys /\ pass'.internal = pass.internal
    BY <1>2, <2>1, <2>2 DEF Working, Steps
  <2> QED BY <2>3, StillAPass
<1>4. synced' \in Nat
  <2>1. db["root"] \in Nat /\ synced \in Nat
    BY <1>2 DEF DbUsers, IInv, TypeOK
  <2>2. synced' \in {db["root"], synced}
    BY DEF SyncUsers
  <2> QED BY <2>1, <2>2
<1>5. TypeOK'
  BY <1>3, <1>4 DEF SyncUsers, IInv, TypeOK
<1>6. Orderly'
  BY <1>1, <1>3 DEF SyncUsers, IInv, Orderly, Granting, Altering, HasRead, Alive, Exists
<1>7. Same'
  BY <1>1, <1>3 DEF SyncUsers, IInv, Same, Granting, Altering, HasRead, Alive, Exists
<1>8. Held'
  BY <1>1, <1>3 DEF SyncUsers, IInv, Held, Granting, Altering, HasRead, Alive, Exists, Named
<1>9. Introduced'
  BY <1>1, <1>3 DEF SyncUsers, IInv, Introduced, Granting, Altering, HasRead, Alive, Exists
<1> QED BY <1>5, <1>6, <1>7, <1>8, <1>9 DEF IInv

\* What is written is what the database has been given.
LEMMA WriteInternalKeeps == ASSUME IInv, WriteInternal PROVE IInv'
<1> USE DEF secrets, servers, cluster
<1>1. /\ pass \in Passes /\ pass.pc = "write" /\ Exists(pass.sys) /\ Exists(pass.internal) /\ Exists(internal)
      /\ Alive
  BY DEF WriteInternal, IInv, TypeOK, Orderly, HasRead, Altering
<1>2. pass.sys \in Passwords
  BY <1>1, Parts DEF Exists
<1>3. /\ pass' \in Passes /\ pass'.pc = "deploy" /\ pass'.ready = pass.ready /\ pass'.up = pass.up
      /\ pass'.sys = pass.sys /\ pass'.internal = pass.internal
  BY <1>1, GoesOn DEF WriteInternal, Steps
<1>4. TypeOK'
  BY <1>2, <1>3 DEF WriteInternal, IInv, TypeOK
<1>5. Orderly'
  BY <1>1, <1>3 DEF WriteInternal, IInv, Orderly, Granting, Altering, HasRead, Alive, Exists
<1>6. Same'
  BY <1>1, <1>3 DEF WriteInternal, IInv, Same, Granting, Altering, HasRead, Alive, Exists
<1>7. Held'
  BY <1>1, <1>3 DEF WriteInternal, IInv, Held, Granting, Altering, HasRead, Alive, Exists, Named
<1>8. Introduced'
  BY <1>1, <1>3 DEF WriteInternal, IInv, Introduced, Granting, Altering, HasRead, Alive, Exists
<1> QED BY <1>4, <1>5, <1>6, <1>7, <1>8 DEF IInv

LEMMA DeployKeeps == ASSUME IInv, Deploy PROVE IInv'
<1> USE DEF secrets, servers, cluster
<1>1. /\ pass' \in Passes /\ pass.pc = "deploy" /\ pass'.pc = "pxc" /\ pass'.ready = pass.ready
      /\ pass'.up = pass.up /\ pass.ready \in BOOLEAN
  BY Parts, GoesOn DEF Deploy, Steps, IInv, TypeOK
<1>2. syncing' \in BOOLEAN
  BY <1>1, SwitchesAssumption, Zenon DEF Deploy, IInv, TypeOK
<1>3. TypeOK'
  BY <1>1, <1>2 DEF Deploy, IInv, TypeOK
<1>4. Orderly'
  BY <1>1 DEF Deploy, IInv, Orderly, Granting, Altering, HasRead, Alive, Exists
<1>5. Same'
  BY <1>1 DEF Deploy, IInv, Same, Granting, Altering, HasRead, Alive, Exists
<1>6. Held'
  BY <1>1 DEF Deploy, IInv, Held, Granting, Altering, HasRead, Alive, Exists, Named
<1>7. Introduced'
  BY <1>1 DEF Deploy, IInv, Introduced, Granting, Altering, HasRead, Alive, Exists
<1> QED BY <1>3, <1>4, <1>5, <1>6, <1>7 DEF IInv

LEMMA UpdatePodsKeeps ==
    ASSUME IInv, NEW g \in Groups, NEW next \in {"proxysql", "idle"}, UpdatePods(g, next)
    PROVE  IInv'
<1> USE DEF secrets, servers, cluster
<1>1. pass \in Passes /\ pass.pc \in {"pxc", "proxysql"} /\ pass.hash \in Passwords \cup {NoSecret}
  BY Parts DEF UpdatePods, Groups, IInv, TypeOK
<1>2. template' \in [Groups -> Passwords \cup {NoSecret}]
  BY <1>1 DEF UpdatePods, IInv, TypeOK
<1>3. CASE next = "idle"
  <2>1. EndsInError
    BY <1>3 DEF UpdatePods, EndsInError
  <2>2. Orderly' /\ Same' /\ Held' /\ Introduced' /\ pass' \in Passes
    BY <1>1, <2>1, EndKeeps DEF UpdatePods
  <2>3. TypeOK'
    BY <1>2, <2>2 DEF UpdatePods, IInv, TypeOK
  <2> QED BY <2>2, <2>3 DEF IInv
<1>4. CASE next = "proxysql"
  <2>1. Go("proxysql")
    BY <1>4 DEF UpdatePods, Go
  <2>2. /\ pass' \in Passes /\ pass'.pc = "proxysql" /\ pass'.ready = pass.ready /\ pass'.up = pass.up
    BY <1>1, <2>1, GoesOn DEF Steps
  <2>3. TypeOK'
    BY <1>2, <2>2 DEF UpdatePods, IInv, TypeOK
  <2>4. Orderly'
    BY <1>1, <2>2 DEF UpdatePods, IInv, Orderly, Granting, Altering, HasRead, Alive, Exists
  <2>5. Same'
    BY <1>1, <2>2 DEF UpdatePods, IInv, Same, Granting, Altering, HasRead, Alive, Exists
  <2>6. Held'
    BY <1>1, <2>2 DEF UpdatePods, IInv, Held, Granting, Altering, HasRead, Alive, Exists, Named
  <2>7. Introduced'
    BY <1>1, <2>2 DEF UpdatePods, IInv, Introduced, Granting, Altering, HasRead, Alive, Exists
  <2> QED BY <2>3, <2>4, <2>5, <2>6, <2>7 DEF IInv
<1> QED BY <1>3, <1>4

LEMMA StepFailsKeeps == ASSUME IInv, StepFails PROVE IInv'
<1> USE DEF secrets, servers, cluster
<1>1. /\ Changing(plan) => pass.pc \notin {"proxy", "sync", "write"}
      /\ Upgraded(plan) => pass.pc # "adminSys"
  BY DEF StepFails, Changing, Upgraded
<1>2. Orderly' /\ Same' /\ Held' /\ Introduced' /\ pass' \in Passes
  BY <1>1, EndKeeps DEF StepFails
<1>3. TypeOK'
  <2>1. Outstanding \subseteq Groups
    BY Parts DEF Outstanding, Groups, IInv, TypeOK
  <2> QED BY <1>2, <2>1, BoundsAssumption DEF StepFails, IInv, TypeOK
<1> QED BY <1>2, <1>3 DEF IInv

LEMMA ResyncedKeeps == ASSUME IInv, Resynced PROVE IInv'
<1> USE DEF secrets, servers, cluster
<1>1. synced' \in Nat
  <2>1. Ready => db["root"] \in Nat
    BY DEF Ready, Alive, IInv, TypeOK, DbUsers
  <2> QED BY <2>1 DEF Resynced, IInv, TypeOK
<1>2. TypeOK'
  BY <1>1 DEF Resynced, IInv, TypeOK
<1>3. UNCHANGED <<plan, made, sys, internal, db, proxy, pass>>
  BY DEF Resynced
<1>4. Orderly' /\ Same' /\ Held' /\ Introduced'
  BY <1>3 DEF IInv, Orderly, Same, Held, Introduced, Alive, Exists, Named
<1> QED BY <1>2, <1>4 DEF IInv

\* The environment of a process that starts is well formed.
LEMMA Environment ==
    ASSUME TypeOK, internal \in Passwords, NEW g \in Groups
    PROVE  [hash |-> template[g], env |-> [u \in Reads(g) |-> internal[u]]]
             \in [hash: Passwords \cup {NoSecret}, env: [Reads(g) -> Nat]]
<1>1. [u \in Reads(g) |-> internal[u]] \in [Reads(g) -> Nat]
  BY UsersHold DEF Passwords
<1>2. template[g] \in Passwords \cup {NoSecret}
  BY DEF TypeOK
<1> QED BY <1>1, <1>2

\* The database starts with what the internal secret says.
LEMMA SetUpKeeps == ASSUME IInv, SetUp PROVE IInv'
<1> USE DEF secrets, servers, cluster
<1>1. internal \in [Users -> Nat] /\ Exists(internal) /\ ~Alive /\ internal \in Passwords
  BY DEF SetUp, Exists, IInv, TypeOK, Passwords
<1>2. /\ db' \in [DbUsers -> Nat] /\ db'["operator"] = internal["operator"]
      /\ proxy' \in [ProxyUsers -> Nat] /\ proxy'["proxyadmin"] = internal["proxyadmin"]
      /\ synced' \in Nat
  BY <1>1, UsersHold DEF SetUp, DbUsers, ProxyUsers
<1>3. /\ DOMAIN pods' = Groups
      /\ \A g \in Groups : pods'[g] \in [hash: Passwords \cup {NoSecret}, env: [Reads(g) -> Nat]]
  BY <1>1, Environment DEF SetUp, IInv
<1>4. ~pass.up \/ pass.pc = "idle"
  BY <1>1 DEF IInv, Orderly
<1>5. pass.pc \notin Granting \cup Altering
  BY <1>4 DEF IInv, Orderly, Granting, Altering
<1>6. TypeOK'
  BY <1>2, <1>3 DEF SetUp, IInv, TypeOK
<1>7. Orderly'
  BY <1>1, <1>5 DEF SetUp, IInv, Orderly, Exists, Alive, HasRead
<1>8. Same'
  BY <1>1, <1>2 DEF SetUp, IInv, Same, Exists, Alive
<1>9. Held'
  BY <1>1, <1>2, <1>5 DEF SetUp, IInv, Held, Exists, Alive, Named, Altering
<1>10. Introduced'
  BY <1>1, <1>2, <1>5, There DEF SetUp, IInv, Introduced, Exists, Alive, Granting
<1> QED BY <1>6, <1>7, <1>8, <1>9, <1>10 DEF IInv

LEMMA RestartKeeps == ASSUME IInv, NEW g \in Groups, Restart(g) PROVE IInv'
<1> USE DEF secrets, servers, cluster
<1> DEFINE new == [hash |-> template[g], env |-> [u \in Reads(g) |-> internal[u]]]
<1>1. internal \in Passwords
  BY DEF Restart, Alive, IInv, Orderly, Exists, TypeOK
<1>2. new \in [hash: Passwords \cup {NoSecret}, env: [Reads(g) -> Nat]]
  BY <1>1, Environment DEF IInv
<1>3. pods' = [pods EXCEPT ![g] = new]
  BY DEF Restart
<1> HIDE DEF new
<1>4. DOMAIN pods' = Groups /\ \A h \in Groups : pods'[h] = IF h = g THEN new ELSE pods[h]
  BY <1>3 DEF IInv, TypeOK
<1>5. TypeOK'
  BY <1>2, <1>4 DEF Restart, IInv, TypeOK
<1>6. UNCHANGED <<plan, made, sys, internal, db, proxy, pass>>
  BY DEF Restart
<1>7. Orderly' /\ Same' /\ Held' /\ Introduced'
  BY <1>6 DEF IInv, Orderly, Same, Held, Introduced, Alive, Exists, Named
<1> QED BY <1>5, <1>7 DEF IInv

\* A pass works on what it has read, whatever the user does to the secret.
LEMMA UserChangesKeeps == ASSUME IInv, UserChanges PROVE IInv'
<1> USE DEF secrets, servers, cluster
<1>1. sys \in [Users -> Nat] /\ made \in [Users -> Nat] /\ Exists(sys)
  BY DEF UserChanges, Exists, IInv, TypeOK, Passwords
<1>2. plan.rotated \subseteq Users
  BY PlansAssumption DEF IInv, TypeOK
<1>3. changes' \in 0 .. MaxChanges
  BY BoundsAssumption DEF UserChanges, IInv, TypeOK
<1>4. CASE plan.deletes /\ sys' = NoSecret /\ UNCHANGED made
  <2>1. TypeOK'
    BY <1>3, <1>4 DEF UserChanges, IInv, TypeOK
  <2>2. Orderly'
    BY <1>4 DEF UserChanges, IInv, Orderly, Alive, Exists
  <2>3. Same'
    BY <1>4 DEF UserChanges, Same, Steady
  <2>4. Held'
    BY <1>4 DEF UserChanges, IInv, Held, Alive, Exists, Named
  <2>5. Introduced'
    BY <1>4 DEF UserChanges, Introduced, Upgraded
  <2> QED BY <2>1, <2>2, <2>3, <2>4, <2>5 DEF IInv
<1>5. ASSUME NEW us \in (SUBSET plan.rotated) \ {{}}, made' = Generated(us),
             sys' = [u \in Users |-> IF u \in us THEN made'[u] ELSE sys[u]]
      PROVE  IInv'
  <2>1. made' \in [Users -> Nat] /\ \A u \in us : made'[u] = made[u] + 1
    BY <1>1, <1>2, <1>5 DEF Generated
  <2>2. sys' \in [Users -> Nat] /\ sys' \in Passwords /\ Exists(sys)'
    <3>1. sys' \in [Users -> Nat]
      BY <1>1, <1>5, <2>1
    <3> QED BY <3>1, There DEF Passwords, Exists
  <2>3. TypeOK'
    BY <1>3, <2>1, <2>2 DEF UserChanges, IInv, TypeOK, Passwords
  <2>4. Orderly'
    BY DEF UserChanges, IInv, Orderly, Alive, Exists
  <2>5. Same'
    <3>1. Steady(plan) => sys'["operator"] = sys["operator"]
      BY <1>5, UsersHold DEF Steady, DbUsers
    <3> QED BY <1>1, <2>2, <3>1 DEF UserChanges, IInv, Same, Alive, Exists
  <2>6. Held'
    <3>1. Named(sys) => Named(sys')
      BY <1>1, <1>2, <1>5, <2>1 DEF Named
    <3> QED BY <1>1, <3>1 DEF UserChanges, IInv, Held, Alive, Exists, Named
  <2>7. Introduced'
    <3>1. plan.rotated # {}
      <4>1. us # {} /\ us \subseteq plan.rotated
        BY <1>5
      <4>2. \E x : x \in us
        BY <4>1
      <4> QED BY <4>1, <4>2
    <3> QED BY <3>1 DEF UserChanges, Introduced, Upgraded
  <2> QED BY <2>3, <2>4, <2>5, <2>6, <2>7 DEF IInv
<1> QED BY <1>4, <1>5 DEF UserChanges
-----------------------------------------------------------------------------
LEMMA Initially == ASSUME Init PROVE IInv
<1>1. /\ made \in [Users -> Nat] /\ sys \in [Users -> Nat] \cup {NoSecret}
      /\ \A u \in Users : made[u] \in {0, 1}
      /\ Exists(sys) => \A u \in Users : sys[u] = IF plan.old /\ u = "operator" THEN 0 ELSE 1
      /\ ~Exists(sys) => \A u \in Users : made[u] = 0
  BY There, UsersHold DEF Init, Exists, DbUsers, Passwords
<1>2. TypeOK
  <2>1. proxy \in [ProxyUsers -> Nat] /\ template \in [Groups -> Passwords \cup {NoSecret}]
    BY DEF Init
  <2>2. /\ DOMAIN pods = Groups
        /\ \A g \in Groups : pods[g] \in [hash: Passwords \cup {NoSecret}, env: [Reads(g) -> Nat]]
    <3>1. \A g \in Groups : [u \in Reads(g) |-> 0] \in [Reads(g) -> Nat]
      OBVIOUS
    <3> QED BY <3>1 DEF Init
  <2>3. plan \in Plans /\ synced = 0 /\ syncing = FALSE /\ db = NoSecret /\ internal = NoSecret
        /\ granted = {} /\ rights = {} /\ forgotten = {} /\ changes = 0 /\ errors = 0
    BY Zenon DEF Init
  <2>4. pass \in Passes
    BY StillAPass DEF Init
  <2>5. changes \in 0 .. MaxChanges /\ errors \in 0 .. MaxErrors
    BY <2>3, BoundsAssumption
  <2>6. plan \in Plans /\ synced \in Nat /\ syncing \in BOOLEAN /\ db \in [DbUsers -> Nat] \cup {NoSecret}
        /\ granted \subseteq {"monitor", "xtrabackup"} /\ rights \subseteq {"monitor", "xtrabackup"}
        /\ forgotten \subseteq Groups
    BY <2>3
  <2>7. /\ made \in Passwords /\ sys \in Passwords \cup {NoSecret}
        /\ internal \in Passwords \cup {NoSecret}
    BY <1>1, <2>3 DEF Passwords
  <2> QED BY <2>1, <2>2, <2>4, <2>5, <2>6, <2>7 DEF TypeOK
<1>3. pass.pc = "idle" /\ ~Exists(internal) /\ ~Alive
  BY StillAPass DEF Init, Exists, Alive
<1>4. Orderly
  BY <1>3 DEF Orderly, Granting, Altering, HasRead
<1>5. Same
  BY <1>1, <1>3, UsersHold DEF Same, Steady, Granting, Altering, HasRead, DbUsers
<1>6. Held
  BY <1>1, <1>3 DEF Held, Changing, Named, Granting, Altering, HasRead
<1>7. Introduced
  BY <1>3 DEF Introduced, Granting, Altering, HasRead
<1> QED BY <1>2, <1>4, <1>5, <1>6, <1>7 DEF IInv

LEMMA PassStepKeeps == ASSUME IInv, PassStep PROVE IInv'
<1>1. CASE EnsureSecret \/ ReadSecrets
  BY <1>1, EnsureSecretKeeps, ReadSecretsKeeps
<1>2. CASE AdminUser \/ AdminToSecret \/ AdminToInternal
  BY <1>2, AdminUserKeeps, AdminToSecretKeeps, AdminToInternalKeeps
<1>3. CASE \/ Grant("monitor", "monitorDone", "xtrabackup")
           \/ Grant("xtrabackup", "xtrabackupDone", "check")
  BY <1>3, GrantKeeps
<1>4. CASE \/ GrantDone("monitor", "monitorDone", "xtrabackup")
           \/ GrantDone("xtrabackup", "xtrabackupDone", "check")
  BY <1>4, GrantDoneKeeps
<1>5. CASE CheckChanged \/ AlterUsers \/ AlterProxyUsers
  BY <1>5, CheckChangedKeeps, AlterUsersKeeps, AlterProxyUsersKeeps
<1>6. CASE SyncUsers \/ WriteInternal \/ Deploy
  BY <1>6, SyncUsersKeeps, WriteInternalKeeps, DeployKeeps
<1>7. CASE UpdatePods("pxc", "proxysql") \/ UpdatePods("proxysql", "idle")
  BY <1>7, UpdatePodsKeeps DEF Groups
<1> QED BY <1>1, <1>2, <1>3, <1>4, <1>5, <1>6, <1>7, Zenon DEF PassStep

LEMMA StepsKeep == ASSUME IInv, [Next]_vars PROVE IInv'
<1>1. CASE Begin
  BY <1>1, BeginKeeps
<1>2. CASE PassStep
  BY <1>2, PassStepKeeps
<1>3. CASE AlterFails \/ StepFails
  BY <1>3, AlterFailsKeeps, StepFailsKeeps
<1>4. CASE Resynced \/ SetUp \/ UserChanges
  BY <1>4, ResyncedKeeps, SetUpKeeps, UserChangesKeeps
<1>5. ASSUME NEW g \in Groups, Restart(g) PROVE IInv'
  BY <1>5, RestartKeeps
<1>6. CASE UNCHANGED vars
  <2>1. TypeOK'
    BY <1>6 DEF IInv, TypeOK, vars, secrets, servers, cluster
  <2>2. Orderly' /\ Same' /\ Held' /\ Introduced'
    BY <1>6 DEF IInv, Orderly, Same, Held, Introduced, Alive, Exists, Named,
                vars, secrets, servers, cluster
  <2> QED BY <2>1, <2>2 DEF IInv
<1> QED BY <1>1, <1>2, <1>3, <1>4, <1>5, <1>6, Zenon DEF Next

LEMMA Always == Spec => []IInv
BY Initially, StepsKeep, PTL DEF Spec

\* Every state has the shape that the actions rely on: whichever of its writes a
\* pass has done, both secrets, the database and the proxy hold passwords of their
\* users (reconcileUsers, UpdateUsersPass, UpdateProxyUsers).
THEOREM WellFormed == Spec => []TypeOK
<1>1. IInv => TypeOK
  BY DEF IInv
<1> QED BY <1>1, Always, PTL

\* When nothing fails between a change of its own password and the write of the
\* internal secret, the operator can log in at the end of every pass: for any
\* changes of passwords by the user in the midst of passes, deletions of the
\* users secret, failing steps outside of the change, and clusters of versions
\* without the account (reconcileUsers, manageOperatorAdminUser, manageSysUsers).
THEOREM OperatorAlwaysLogsIn == Spec => []OperatorLogsIn
<1>1. ASSUME IInv PROVE OperatorLogsIn
  <2> SUFFICES ASSUME Uninterrupted(plan), Alive, pass.pc = "idle", internal["operator"] # 0
               PROVE  db["operator"] = internal["operator"]
    BY DEF OperatorLogsIn, LogsIn
  <2>1. Exists(internal)
    BY <1>1 DEF IInv, Orderly
  <2>2. CASE Steady(plan)
    BY <1>1, <2>1, <2>2 DEF IInv, Same
  <2>3. CASE Changing(plan)
    BY <1>1, <2>1, <2>3 DEF IInv, Held
  <2>4. CASE Upgraded(plan)
    BY <1>1, <2>1, <2>4 DEF IInv, Introduced
  <2> QED BY <2>2, <2>3, <2>4 DEF Uninterrupted
<1> QED BY <1>1, Always, PTL
=============================================================================
