------------------------- MODULE SmartUpdate_proofs -------------------------
(****************************************************************************)
(* The smart update replaces the primary last, for any size, templates and  *)
(* proxy, and any number of changes, crashes, refused calls, lost pods and  *)
(* switches of the primary; it takes one pod down at a time; and another    *)
(* pod serves whenever it does.                                             *)
(****************************************************************************)
EXTENDS SmartUpdate, TLAPS, FiniteSetTheorems

Names == Pods \cup {NoPod}

\* The part of the type invariant this needs.
Typed ==
    /\ want \in Revisions /\ template \in Revisions /\ read \in Revisions
    /\ pod \in [Pods -> PodStates] /\ listed \in [Pods -> PodStates]
    /\ primary \in Names /\ online \subseteq Pods
    /\ todo \in Seq(Names)
    /\ pc \in {"restart", "sync", "online"} => todo # <<>> /\ Head(todo) \in Pods

Replacing == {"next", "restart", "sync", "online"}

\* A pod that is not what the worker holds of it came up since.
Fresh ==
    pc \in {"primary"} \cup Replacing =>
        \A q \in Pods : \/ pod[q].phase = "none"
                        \/ pod[q].rev = template
                        \/ listed[q].phase # "none" /\ pod[q].rev = listed[q].rev

Waits(q) == \E i \in 1 .. Len(todo) : todo[i] = q

\* A pod that was listed waits for its turn, or has had it.
Handled ==
    /\ pc \in Replacing =>
         \A q \in Pods : listed[q].phase = "none" \/ Waits(q) \/ listed[q].rev = seen.rev
    /\ pc \in {"sync", "online"} => listed[Head(todo)].rev = seen.rev

\* The primary waits for the last.
Ordered ==
    pc \in Replacing =>
        main \in Pods /\ \A i \in 1 .. Len(todo) : todo[i] = main => i = Len(todo)

IInv == Typed /\ Fresh /\ Handled /\ Ordered
-----------------------------------------------------------------------------
(* The order of the pods.                                                   *)

\* Each of a finite set of numbers has a place of its own, and every place is taken.
LEMMA Places ==
    ASSUME NEW S \in SUBSET Int, IsFiniteSet(S)
    PROVE  /\ Cardinality(S) \in Nat
           /\ \A p \in S : Cardinality({q \in S : q >= p}) \in 1 .. Cardinality(S)
           /\ \A i \in 1 .. Cardinality(S) : \E p \in S : Cardinality({q \in S : q >= p}) = i
           /\ \A p, r \in S : Cardinality({q \in S : q >= p}) = Cardinality({q \in S : q >= r})
                              => p = r
<1> DEFINE From(p)  == {q \in S : q >= p}
           Place(p) == Cardinality(From(p))
           n == Cardinality(S)
<1>1. n \in Nat BY FS_CardinalityType
<1>2. \A p \in S : IsFiniteSet(From(p)) /\ Place(p) <= n /\ Place(p) \in Nat
  <2>1. \A p \in S : From(p) \in SUBSET S OBVIOUS
  <2>2. \A T \in SUBSET S : IsFiniteSet(T) /\ Cardinality(T) <= n /\ Cardinality(T) \in Nat
    BY FS_Subset, FS_CardinalityType
  <2>3. QED BY <2>1, <2>2
<1>3. \A p \in S : Place(p) # 0
  <2>1. ASSUME NEW p \in S, Place(p) = 0 PROVE FALSE
    <3>1. From(p) = {} BY <1>2, <2>1, FS_EmptySet
    <3>2. p \in From(p) OBVIOUS
    <3>3. QED BY <3>1, <3>2
  <2>2. QED BY <2>1
<1>4. \A p \in S : Place(p) \in 1 .. n BY <1>1, <1>2, <1>3
<1>5. ASSUME NEW p \in S, NEW r \in S, Place(p) = Place(r), p < r PROVE FALSE
  <2>0. p \in Int /\ r \in Int /\ S \subseteq Int OBVIOUS
  <2>1. From(r) \in SUBSET From(p)
    <3>1. ASSUME NEW q \in S, q >= r PROVE q >= p
      <4>1. q \in Int BY <2>0
      <4>2. QED BY <1>5, <2>0, <3>1, <4>1
    <3>2. QED BY <3>1
  <2>2. From(r) = From(p) BY <1>2, <1>5, <2>1, FS_Subset
  <2>3. p \in From(p) /\ p \notin From(r) BY <1>5, <2>0
  <2>4. QED BY <2>2, <2>3
<1>6. \A p, r \in S : Place(p) = Place(r) => p = r
  <2>1. SUFFICES ASSUME NEW p \in S, NEW r \in S, Place(p) = Place(r) PROVE p = r
    OBVIOUS
  <2>2. p \in Int /\ r \in Int OBVIOUS
  <2>3. ~(p < r) /\ ~(r < p) BY <1>5, <2>1
  <2>4. QED BY <2>2, <2>3
<1>7. \A i \in 1 .. n : \E p \in S : Place(p) = i
  <2> DEFINE f == [p \in S |-> Place(p)]
  <2>1. f \in Injection(S, 1 .. n) BY <1>4, <1>6 DEF Injection, IsInjective
  <2>2. IsFiniteSet(1 .. n) /\ Cardinality(1 .. n) = n
    <3>1. 1 \in Int /\ n \in Int BY <1>1
    <3>2. Cardinality(1 .. n) = IF 1 > n THEN 0 ELSE n - 1 + 1 BY <3>1, FS_Interval
    <3>3. QED BY <1>1, <3>1, <3>2, FS_Interval
  <2>3. f \in Surjection(S, 1 .. n) BY <2>1, <2>2, FS_Injection
  <2>4. QED BY <2>3 DEF Surjection
<1>8. QED BY <1>1, <1>4, <1>6, <1>7

\* The order names every pod that was found, and the primary in the last place only.
LEMMA OrderOf ==
    ASSUME NEW found \in SUBSET Pods, NEW host \in Pods
    PROVE  LET order == UpdateOrder(found, host)
           IN  /\ order \in Seq(Names)
               /\ \A p \in found : \E i \in 1 .. Len(order) : order[i] = p
               /\ \A i \in 1 .. Len(order) : order[i] = host => i = Len(order)
<1> DEFINE others == found \ {host}
           Place(p) == Cardinality({q \in others : q >= p})
           n == Cardinality(others)
           Nth(i) == CHOOSE p \in others : Place(p) = i
           first == [i \in 1 .. n |-> Nth(i)]
           end == IF host \in found THEN host ELSE NoPod
           order == UpdateOrder(found, host)
<1>1. others \in SUBSET Int /\ IsFiniteSet(others)
  <2>1. Size - 1 \in Int BY SizeAssumption DEF SizeAssumption
  <2>2. IsFiniteSet(Pods) BY <2>1, FS_Interval DEF Pods
  <2>3. others \in SUBSET Pods OBVIOUS
  <2>4. IsFiniteSet(others) BY <2>2, <2>3, FS_Subset
  <2>5. Pods \subseteq Int BY <2>1 DEF Pods
  <2>6. QED BY <2>3, <2>4, <2>5
<1>2. /\ n \in Nat
      /\ \A p \in others : Place(p) \in 1 .. n
      /\ \A i \in 1 .. n : \E p \in others : Place(p) = i
      /\ \A p, r \in others : Place(p) = Place(r) => p = r
  BY <1>1, Places
<1>3. order = Append(first, end) BY DEF UpdateOrder
<1>4. end \in Names /\ (host \in found => end = host) BY DEF Names
<1>5. others \subseteq Names /\ host \notin others /\ \A p \in found : p = host \/ p \in others
  BY DEF Names
<1>6. \A i \in 1 .. n : Nth(i) = CHOOSE p \in others : Place(p) = i OBVIOUS
<1> HIDE DEF Place, Nth, end, order, n, others
<1>7. first = [i \in 1 .. n |-> first[i]] /\ \A i \in 1 .. n : first[i] = Nth(i) OBVIOUS
<1> HIDE DEF first
<1>8. ASSUME NEW i \in 1 .. n PROVE first[i] \in others /\ Place(first[i]) = i
  <2>1. \E p \in others : Place(p) = i BY <1>2
  <2>2. QED BY <1>6, <1>7, <2>1, Zenon
<1>9. first \in [1 .. n -> Names] BY <1>5, <1>7, <1>8
<1>10. first \in Seq(Names) /\ Len(first) = n BY <1>2, <1>9
<1>11. /\ order \in Seq(Names) /\ Len(order) = n + 1 /\ order[n + 1] = end
       /\ \A i \in 1 .. n : order[i] = first[i]
  BY <1>2, <1>3, <1>4, <1>10
<1>12. ASSUME NEW p \in found PROVE \E i \in 1 .. n + 1 : order[i] = p
  <2>1. CASE p = host
    <3>1. order[n + 1] = p BY <1>4, <1>11, <2>1
    <3>2. n + 1 \in 1 .. n + 1 BY <1>2
    <3>3. QED BY <3>1, <3>2
  <2>2. CASE p \in others
    <3>1. Place(p) \in 1 .. n /\ first[Place(p)] = p BY <1>2, <1>8, <2>2
    <3>2. Place(p) \in 1 .. n + 1 /\ order[Place(p)] = p BY <1>2, <1>11, <3>1
    <3>3. QED BY <3>2
  <2>3. QED BY <1>5, <2>1, <2>2
<1>13. ASSUME NEW i \in 1 .. n + 1, order[i] = host PROVE i = n + 1
  <2>1. i \in 1 .. n => order[i] \in others BY <1>8, <1>11
  <2>2. i \notin 1 .. n BY <1>5, <1>13, <2>1
  <2>3. QED BY <1>2, <2>2
<1>14. QED BY <1>11, <1>12, <1>13 DEF order

-----------------------------------------------------------------------------
(* The worker.                                                              *)

\* A pass that is over knows nothing.
LEMMA Over ==
    ASSUME IInv, pc' \in {"idle", "down"}, Forget, UNCHANGED <<want, template, pod>>,
           UNCHANGED proxy
    PROVE  IInv'
<1>1. NoPods \in [Pods -> PodStates]
  BY RevisionsAssumption DEF RevisionsAssumption, NoPods, PodStates, Phases
<1>2. Typed' BY <1>1, RevisionsAssumption DEF RevisionsAssumption, IInv, Typed, Forget, proxy
<1>3. Fresh' /\ Handled' /\ Ordered' BY DEF Fresh, Handled, Ordered, Replacing
<1>4. QED BY <1>2, <1>3 DEF IInv

LEMMA Returned ==
    ASSUME IInv, Return \/ CallFails, UNCHANGED <<want, proxy>>
    PROVE  IInv'
<1>1. pc' \in {"idle", "down"} /\ Forget /\ UNCHANGED <<want, template, pod, proxy>>
  BY DEF Return, CallFails, Goto
<1>2. QED BY <1>1, Over

\* Before the pods are listed nothing is known of them.
LEMMA Early ==
    ASSUME IInv, Begin \/ Apply \/ CheckBackup
    PROVE  IInv'
<1> USE DEF cluster, proxy, pass
<1>1. CASE Begin
  BY <1>1 DEF Begin, Goto, IInv, Typed, Fresh, Handled, Ordered, Replacing
<1>2. CASE Apply
  <2>1. CASE CallFails BY <1>2, <2>1, Returned DEF Apply, Call
  <2>2. CASE /\ pc' = "idle" /\ Forget
             /\ template' = read /\ UNCHANGED <<pod, want, proxy>>
    <3>1. NoPods \in [Pods -> PodStates]
      BY RevisionsAssumption DEF RevisionsAssumption, NoPods, PodStates, Phases
    <3>2. Typed' BY <2>2, <3>1, RevisionsAssumption DEF RevisionsAssumption, IInv, Typed, Forget
    <3>3. Fresh' /\ Handled' /\ Ordered' BY <2>2 DEF Fresh, Handled, Ordered, Replacing
    <3>4. QED BY <3>2, <3>3 DEF IInv
  <2>3. CASE /\ pc' = "backup" /\ template' = read
             /\ UNCHANGED <<pod, want, proxy, read, listed, main, todo>>
    BY <2>3 DEF IInv, Typed, Fresh, Handled, Ordered, Replacing
  <2>4. QED BY <1>2, <2>1, <2>2, <2>3 DEF Apply, Call, Goto
<1>3. CASE CheckBackup
  <2>1. CASE CallFails \/ Return BY <1>3, <2>1, Returned DEF CheckBackup, Call
  <2>2. CASE pc' = "list" /\ UNCHANGED <<template, pod, want, proxy, read, listed, main, todo>>
    BY <2>2 DEF IInv, Typed, Fresh, Handled, Ordered, Replacing
  <2>3. QED BY <1>3, <2>1, <2>2 DEF CheckBackup, Call, Goto
<1>4. QED BY <1>1, <1>2, <1>3

\* What the worker holds of the pods is what they are; then they get their order.
LEMMA Looked ==
    ASSUME IInv, ListPods \/ FindPrimary
    PROVE  IInv'
<1> USE DEF cluster, proxy, pass
<1>1. CASE ListPods
  <2>1. CASE CallFails BY <1>1, <2>1, Returned DEF ListPods, Call
  <2>2. CASE /\ listed' = pod /\ pc' = "primary"
             /\ UNCHANGED <<want, template, pod, proxy, read, seen, main, todo>>
    <3>1. Typed' BY <2>2 DEF IInv, Typed
    <3>2. Fresh' BY <2>2 DEF Fresh
    <3>3. Handled' /\ Ordered' BY <2>2 DEF Handled, Ordered, Replacing
    <3>4. QED BY <3>1, <3>2, <3>3 DEF IInv
  <2>3. QED BY <1>1, <2>1, <2>2 DEF ListPods, Call, Goto
<1>2. CASE FindPrimary
  <2> DEFINE found == {p \in Pods : listed[p].phase # "none"}
  <2>1. CASE CallFails \/ Return BY <1>2, <2>1, Returned DEF FindPrimary, Call
  <2>2. CASE /\ primary # NoPod /\ main' = primary /\ pc' = "next" /\ pc = "primary"
             /\ todo' = UpdateOrder(found, primary)
             /\ UNCHANGED <<want, template, pod, proxy, read, seen, listed>>
    <3>1. primary \in Pods BY <2>2 DEF IInv, Typed, Names
    <3>2. PICK host \in Pods, F \in SUBSET Pods : host = primary /\ F = found
      <4>1. found \in SUBSET Pods OBVIOUS
      <4>2. QED BY <3>1, <4>1
    <3>3. /\ todo' \in Seq(Names)
          /\ \A p \in found : \E i \in 1 .. Len(todo') : todo'[i] = p
          /\ \A i \in 1 .. Len(todo') : todo'[i] = primary => i = Len(todo')
      <4>1. todo' = UpdateOrder(F, host) BY <2>2, <3>2
      <4> HIDE DEF found
      <4>2. QED BY <3>2, <4>1, OrderOf
    <3>4. Typed' BY <2>2, <3>3 DEF IInv, Typed
    <3>5. Fresh' BY <2>2 DEF IInv, Fresh
    <3>6. Handled'
      <4>1. \A q \in Pods : listed'[q].phase = "none" \/ Waits(q)' BY <2>2, <3>3 DEF Waits
      <4>2. QED BY <2>2, <4>1 DEF Handled
    <3>7. Ordered' BY <2>2, <3>1, <3>3 DEF Ordered
    <3>8. QED BY <3>4, <3>5, <3>6, <3>7 DEF IInv
  <2>3. QED BY <1>2, <2>1, <2>2 DEF FindPrimary, Call, Goto, Answers
<1>3. QED BY <1>1, <1>2

\* One pod: what the worker holds of it is refreshed, and once it has been
\* replaced the next one's turn comes.
LEMMA ReplacedOne ==
    ASSUME IInv, ReplaceNext
    PROVE  IInv'
<1> USE DEF cluster, proxy, pass
<1>1. CASE CallFails \/ Return BY <1>1, Returned DEF ReplaceNext, Call
<1>2. CASE /\ todo # <<>> /\ Head(todo) # NoPod /\ pc = "next" /\ pc' = "restart"
           /\ \E b \in BOOLEAN : pod' = [pod EXCEPT ![Head(todo)].dying = b]
           /\ UNCHANGED <<want, template, proxy, read, seen, listed, main, todo>>
  <2>1. Head(todo) \in Pods BY <1>2 DEF IInv, Typed, Names
  <2>2. PICK b \in BOOLEAN : pod' = [pod EXCEPT ![Head(todo)].dying = b] BY <1>2
  <2>3. /\ pod' \in [Pods -> PodStates]
        /\ \A q \in Pods : pod'[q].phase = pod[q].phase /\ pod'[q].rev = pod[q].rev
    BY <2>1, <2>2 DEF IInv, Typed, PodStates
  <2>4. Typed' BY <1>2, <2>1, <2>3 DEF IInv, Typed
  <2>5. Fresh' BY <1>2, <2>3 DEF IInv, Fresh, Replacing
  <2>6. Handled' BY <1>2 DEF IInv, Handled, Waits, Replacing
  <2>7. Ordered' BY <1>2 DEF IInv, Ordered, Replacing
  <2>8. QED BY <2>4, <2>5, <2>6, <2>7 DEF IInv
<1>3. ReplaceNext /\ ~(CallFails \/ Return)
      => \E b \in BOOLEAN : /\ todo # <<>> /\ Head(todo) # NoPod /\ Head(todo) \in Pods
                            /\ pod' = [pod EXCEPT ![Head(todo)].dying = b]
  <2>1. SUFFICES ASSUME ~(CallFails \/ Return)
                 PROVE  \E b \in BOOLEAN : /\ todo # <<>> /\ Head(todo) # NoPod /\ Head(todo) \in Pods
                                           /\ pod' = [pod EXCEPT ![Head(todo)].dying = b]
    OBVIOUS
  <2>2. todo # <<>> /\ Head(todo) # NoPod /\ Replace(Head(todo)) BY <2>1 DEF ReplaceNext, Call
  <2>3. Head(todo) \in Pods BY <2>2 DEF IInv, Typed, Names
  <2> DEFINE p == Head(todo)
             b == pod[p].dying \/ listed[p].rev # seen.rev
  <2>4. pod' = [pod EXCEPT ![p].dying = pod[p].dying \/ listed[p].rev # seen.rev]
    BY <2>1, <2>2 DEF Replace
  <2>5. b \in BOOLEAN OBVIOUS
  <2>6. QED BY <2>2, <2>3, <2>4, <2>5, Zenon
<1>4. ReplaceNext /\ ~(CallFails \/ Return)
      => /\ pc = "next" /\ pc' = "restart"
         /\ UNCHANGED <<want, template, proxy, read, seen, listed, main, todo>>
  BY DEF ReplaceNext, Replace, Call, Goto
<1>5. QED BY <1>1, <1>2, <1>3, <1>4

LEMMA Refreshing ==
    ASSUME IInv, AwaitRestart
    PROVE  IInv'
<1> USE DEF cluster, proxy, pass
<1>1. CASE CallFails BY <1>1, Returned DEF AwaitRestart, Call
<1>2. CASE ~CallFails
  <2>1. /\ pc = "restart" /\ pc' \in {"sync", "restart"}
        /\ pc' = "sync" => Restarted(Refreshed(Head(todo)))
        /\ listed' = [listed EXCEPT ![Head(todo)] = Refreshed(Head(todo))]
        /\ UNCHANGED <<want, template, pod, proxy, read, seen, main, todo>>
    BY <1>2 DEF AwaitRestart, Call, Goto
  <2>2. PICK p \in Pods : p = Head(todo) /\ todo # <<>> BY <2>1 DEF IInv, Typed
  <2>3. Refreshed(p) \in PodStates /\ (Refreshed(p) = listed[p] \/ Refreshed(p) = pod[p])
    BY DEF Refreshed, IInv, Typed
  <2>4. /\ listed' \in [Pods -> PodStates] /\ listed'[p] = Refreshed(p)
        /\ \A q \in Pods \ {p} : listed'[q] = listed[q]
    BY <2>1, <2>2, <2>3 DEF IInv, Typed
  <2>5. Typed' BY <2>1, <2>2, <2>4 DEF IInv, Typed
  <2>6. Fresh'
    <3>1. ASSUME NEW q \in Pods
          PROVE  \/ pod[q].phase = "none"
                 \/ pod[q].rev = template
                 \/ listed'[q].phase # "none" /\ pod[q].rev = listed'[q].rev
      <4>1. CASE q = p BY <2>1, <2>4, <4>1 DEF Refreshed
      <4>2. CASE q # p BY <2>1, <2>4, <4>2 DEF IInv, Fresh, Replacing
      <4>3. QED BY <4>1, <4>2
    <3>2. QED BY <2>1, <3>1 DEF Fresh
  <2>7. Handled'
    <3>1. Waits(p)
      <4>1. 1 \in 1 .. Len(todo) /\ todo[1] = p BY <2>2 DEF IInv, Typed
      <4>2. QED BY <4>1 DEF Waits
    <3>2. \A q \in Pods : Waits(q)' = Waits(q) BY <2>1 DEF Waits
    <3>3. \A q \in Pods : listed'[q].phase = "none" \/ Waits(q)' \/ listed'[q].rev = seen'.rev
      BY <2>1, <2>4, <3>1, <3>2 DEF IInv, Handled, Replacing
    <3>4. pc' = "sync" => listed'[Head(todo)].rev = seen.rev
      BY <2>1, <2>2, <2>4 DEF Restarted
    <3>5. QED BY <2>1, <3>3, <3>4 DEF Handled
  <2>8. Ordered' BY <2>1 DEF IInv, Ordered, Replacing
  <2>9. QED BY <2>5, <2>6, <2>7, <2>8 DEF IInv
<1>3. QED BY <1>1, <1>2

LEMMA Awaited ==
    ASSUME IInv, AwaitSync \/ AwaitOnline
    PROVE  IInv'
<1> USE DEF cluster, proxy, pass
<1>1. CASE CallFails \/ Return BY <1>1, Returned DEF AwaitSync, AwaitOnline, Call
<1>2. CASE /\ pc = "sync" /\ pc' = "online"
           /\ UNCHANGED <<want, template, pod, proxy, read, seen, listed, main, todo>>
  <2>1. Typed' BY <1>2 DEF IInv, Typed
  <2>2. Fresh' /\ Handled' /\ Ordered'
    BY <1>2 DEF IInv, Fresh, Handled, Waits, Ordered, Replacing
  <2>3. QED BY <2>1, <2>2 DEF IInv
<1>3. CASE /\ pc = "online" /\ pc' = "next" /\ todo' = Tail(todo)
           /\ UNCHANGED <<want, template, pod, proxy, read, seen, listed, main>>
  <2>1. todo \in Seq(Names) /\ todo # <<>> BY <1>3 DEF IInv, Typed
  <2>2. /\ todo' \in Seq(Names) /\ Len(todo) \in Nat /\ Len(todo') = Len(todo) - 1
        /\ \A i \in 1 .. Len(todo') : i + 1 \in 1 .. Len(todo) /\ todo'[i] = todo[i + 1]
        /\ \A i \in 1 .. Len(todo) : i # 1 => i - 1 \in 1 .. Len(todo') /\ todo'[i - 1] = todo[i]
        /\ Head(todo) = todo[1]
    BY <1>3, <2>1
  <2>3. Typed' BY <1>3, <2>2 DEF IInv, Typed
  <2>4. Fresh' BY <1>3 DEF IInv, Fresh, Replacing
  <2>5. Handled'
    <3>1. ASSUME NEW q \in Pods, Waits(q), ~Waits(q)' PROVE listed[q].rev = seen.rev
      <4>1. PICK i \in 1 .. Len(todo) : todo[i] = q BY <3>1 DEF Waits
      <4>2. i = 1 BY <2>2, <3>1, <4>1 DEF Waits
      <4>3. q = Head(todo) BY <2>2, <4>1, <4>2
      <4>4. QED BY <1>3, <4>3 DEF IInv, Handled
    <3>2. QED BY <1>3, <3>1 DEF IInv, Handled, Replacing
  <2>6. Ordered'
    <3>1. ASSUME NEW i \in 1 .. Len(todo'), todo'[i] = main PROVE i = Len(todo')
      <4>1. i + 1 = Len(todo) BY <1>3, <2>2, <3>1 DEF IInv, Ordered, Replacing
      <4>2. QED BY <2>2, <4>1
    <3>2. QED BY <1>3, <3>1 DEF IInv, Ordered, Replacing
  <2>7. QED BY <2>3, <2>4, <2>5, <2>6 DEF IInv
<1>4. QED BY <1>1, <1>2, <1>3 DEF AwaitSync, AwaitOnline, Call, Goto
-----------------------------------------------------------------------------
(* What goes on around it.                                                  *)

\* Pods come up, go and come back with the template; the worker's copies stay.
Moves ==
    /\ UNCHANGED <<template, read, seen, listed, main, todo, pc>>
    /\ want' \in Revisions /\ primary' \in Names /\ online' \subseteq Pods
    /\ pod' \in [Pods -> PodStates]
    /\ \A q \in Pods : \/ pod'[q].phase = "none"
                       \/ pod'[q].rev = template
                       \/ pod[q].phase # "none" /\ pod'[q].rev = pod[q].rev

LEMMA MovesKeep ==
    ASSUME IInv, Moves
    PROVE  IInv'
<1>1. Typed' BY DEF Moves, IInv, Typed
<1>2. Fresh'
  <2>1. ASSUME pc \in {"primary"} \cup Replacing, NEW q \in Pods
        PROVE  \/ pod'[q].phase = "none"
               \/ pod'[q].rev = template
               \/ listed[q].phase # "none" /\ pod'[q].rev = listed[q].rev
    BY <2>1 DEF Moves, IInv, Fresh
  <2>2. QED BY <2>1 DEF Moves, Fresh
<1>3. \A q \in Pods : Waits(q)' = Waits(q) BY DEF Moves, Waits
<1>4. Handled' BY <1>3 DEF Moves, IInv, Handled
<1>5. Ordered' BY DEF Moves, IInv, Ordered
<1>6. QED BY <1>1, <1>2, <1>4, <1>5 DEF IInv

LEMMA EnvironmentMoves ==
    ASSUME IInv, Environment \/ UNCHANGED vars
    PROVE  Moves \/ Crash \/ Restart
<1> USE DEF cluster, proxy, pass, mishaps
<1>0. /\ pod \in [Pods -> PodStates] /\ template \in Revisions /\ want \in Revisions
      /\ primary \in Names /\ online \subseteq Pods
      /\ NoPods \in [Pods -> PodStates] /\ \A q \in Pods : NoPods[q].phase = "none"
  BY RevisionsAssumption DEF RevisionsAssumption, IInv, Typed, NoPods, PodStates, Phases
<1>1. CASE SyncStatefulSet
  <2> DEFINE new == [phase |-> "starting", rev |-> template, dying |-> FALSE]
  <2>1. \A q \in Pods : SyncedPods[q] = pod[q] \/ SyncedPods[q] = new
    BY DEF SyncedPods
  <2>2. SyncedPods \in [Pods -> PodStates]
    <3>1. new \in PodStates BY <1>0 DEF PodStates, Phases
    <3>2. \A q \in Pods : SyncedPods[q] \in PodStates BY <1>0, <2>1, <3>1
    <3>3. SyncedPods = [q \in Pods |-> SyncedPods[q]] BY DEF SyncedPods
    <3> HIDE DEF new
    <3>4. QED BY <3>2, <3>3
  <2>3. pod' = SyncedPods /\ UNCHANGED <<want, template, proxy, pc, pass>>
    BY <1>1 DEF SyncStatefulSet
  <2>4. QED BY <1>0, <2>1, <2>2, <2>3 DEF Moves
<1>2. ASSUME NEW p \in Pods, PodAdvances(p) PROVE Moves
  <2>1. PICK ph \in Phases : pod' = [pod EXCEPT ![p].phase = ph]
    BY <1>2 DEF PodAdvances, Phases
  <2>2. pod[p].phase # "none" /\ UNCHANGED <<want, template, proxy, pc, pass>>
    BY <1>2 DEF PodAdvances
  <2>3. pod' \in [Pods -> PodStates] BY <1>0, <2>1 DEF PodStates
  <2>4. \A q \in Pods : pod'[q] = pod[q] \/ (q = p /\ pod'[q].rev = pod[q].rev)
    BY <1>0, <2>1 DEF PodStates
  <2>5. QED BY <1>0, <2>2, <2>3, <2>4 DEF Moves
<1>3. ASSUME NEW p \in Pods, PodGone(p) \/ PodFails(p) PROVE Moves
  <2>1. pod' = [pod EXCEPT ![p] = NoPods[p]] /\ UNCHANGED <<want, template, proxy, pc, pass>>
    BY <1>3 DEF PodGone, PodFails, Vanish
  <2>2. pod' \in [Pods -> PodStates] BY <1>0, <2>1
  <2>3. \A q \in Pods : pod'[q] = pod[q] \/ pod'[q].phase = "none" BY <1>0, <2>1
  <2>4. QED BY <1>0, <2>1, <2>2, <2>3 DEF Moves
<1>4. CASE \/ Switch \/ StartBackup \/ EndBackup \/ Change \/ UNCHANGED vars
           \/ \E p \in Pods : ProxyNotices(p) \/ ProxyDrops(p)
  <2>1. online' \subseteq Pods BY <1>0, <1>4 DEF Switch, StartBackup, EndBackup, Change, ProxyNotices,
    ProxyDrops, vars
  <2>2. primary' \in Names
    <3>1. primary' = primary \/ primary' = NoPod \/ primary' \in online \cup online'
      BY <1>4 DEF Switch, StartBackup, EndBackup, Change, ProxyNotices, ProxyDrops, vars
    <3>2. QED BY <1>0, <2>1, <3>1 DEF Names
  <2>3. want' \in Revisions /\ UNCHANGED <<template, pod, pc, pass>>
    BY <1>0, <1>4 DEF Switch, StartBackup, EndBackup, Change, ProxyNotices, ProxyDrops, vars
  <2>4. QED BY <1>0, <2>1, <2>2, <2>3 DEF Moves
<1>5. QED BY <1>1, <1>2, <1>3, <1>4 DEF Environment

LEMMA Around ==
    ASSUME IInv, Environment \/ WaitLimit \/ UNCHANGED vars
    PROVE  IInv'
<1> USE DEF cluster, proxy, pass
<1>1. CASE WaitLimit BY <1>1, Returned DEF WaitLimit
<1>2. CASE Crash
  <2>1. pc' = "down" /\ Forget /\ UNCHANGED cluster BY <1>2 DEF Crash
  <2>2. QED BY <2>1, Over
<1>3. CASE Restart
  <2>1. pc' = "idle" /\ UNCHANGED <<cluster, pass>> BY <1>3 DEF Restart, Goto
  <2>2. QED BY <2>1 DEF IInv, Typed, Fresh, Handled, Ordered, Replacing
<1>4. CASE Moves BY <1>4, MovesKeep
<1>5. QED BY <1>1, <1>2, <1>3, <1>4, EnvironmentMoves
-----------------------------------------------------------------------------
(* The primary goes last.                                                   *)

LEMMA IInvInit == Init => IInv
<1> SUFFICES ASSUME Init PROVE IInv
  OBVIOUS
<1>1. NoPods \in [Pods -> PodStates]
  BY RevisionsAssumption DEF RevisionsAssumption, NoPods, PodStates, Phases
<1>2. [p \in Pods |-> [phase |-> "synced", rev |-> First, dying |-> FALSE]] \in [Pods -> PodStates]
  BY RevisionsAssumption DEF RevisionsAssumption, PodStates, Phases
<1>3. Typed
  <2>1. pod \in [Pods -> PodStates] /\ listed \in [Pods -> PodStates] BY <1>1, <1>2 DEF Init
  <2>2. todo = <<>> /\ pc = "idle" /\ primary \in Pods /\ online = Pods
        /\ want = First /\ template = First /\ read = First
    BY DEF Init
  <2>3. QED BY <2>1, <2>2, RevisionsAssumption DEF RevisionsAssumption, Typed, Names
<1>4. Fresh /\ Handled /\ Ordered BY DEF Init, Fresh, Handled, Ordered, Replacing
<1>5. QED BY <1>3, <1>4 DEF IInv

LEMMA IInvStep == IInv /\ [Next]_vars => IInv'
BY Early, Looked, ReplacedOne, Refreshing, Awaited, Around DEF Next, Worker

\* Only the worker deletes, and it deletes the pod whose turn it is.
LEMMA DeletedInTurn ==
    ASSUME IInv, [Next]_vars, NEW p \in Pods, Deletes(p)
    PROVE  todo # <<>> /\ Head(todo) = p
<1> USE DEF cluster, proxy, pass
<1>1. pc = "next" /\ ~pod[p].dying /\ pod'[p].dying BY DEF Deletes
<1>2. pod \in [Pods -> PodStates] BY DEF IInv, Typed
<1>3. pod' # pod BY <1>1
<1>4. CASE ReplaceNext
  <2>1. todo # <<>> /\ Head(todo) \in Pods /\ Replace(Head(todo)) /\ ~Return
    BY <1>3, <1>4 DEF ReplaceNext, Call, CallFails, Return, IInv, Typed, Names
  <2>2. pod' = [pod EXCEPT ![Head(todo)].dying = pod[Head(todo)].dying
                                                  \/ listed[Head(todo)].rev # seen.rev]
    BY <2>1 DEF Replace
  <2>3. p # Head(todo) => pod'[p] = pod[p] BY <1>2, <2>1, <2>2
  <2>4. QED BY <1>1, <2>1, <2>3
<1>5. CASE Begin \/ Apply \/ CheckBackup \/ ListPods \/ FindPrimary \/ AwaitRestart
           \/ AwaitSync \/ AwaitOnline \/ WaitLimit
  BY <1>1, <1>5 DEF Begin, Apply, CheckBackup, ListPods, FindPrimary, AwaitRestart,
                    AwaitSync, AwaitOnline, WaitLimit, Call
<1>6. CASE SyncStatefulSet
  <2>1. SyncedPods[p].dying = FALSE \/ SyncedPods[p] = pod[p] BY DEF SyncedPods
  <2>2. QED BY <1>1, <1>6, <2>1 DEF SyncStatefulSet
<1>7. ASSUME NEW q \in Pods, PodAdvances(q) PROVE FALSE
  <2>1. PICK ph : pod' = [pod EXCEPT ![q].phase = ph] BY <1>7 DEF PodAdvances
  <2>2. pod'[p].dying = pod[p].dying BY <1>2, <2>1 DEF PodStates
  <2>3. QED BY <1>1, <2>2
<1>8. ASSUME NEW q \in Pods, PodGone(q) \/ PodFails(q) PROVE FALSE
  <2>1. pod' = [pod EXCEPT ![q] = NoPods[q]] /\ NoPods[q].dying = FALSE
    BY <1>8 DEF PodGone, PodFails, Vanish, NoPods
  <2>2. pod'[p] = pod[p] \/ pod'[p].dying = FALSE BY <1>2, <2>1
  <2>3. QED BY <1>1, <2>2
<1>9. CASE \/ Switch \/ StartBackup \/ EndBackup \/ Change \/ Crash \/ Restart \/ UNCHANGED vars
           \/ \E q \in Pods : ProxyNotices(q) \/ ProxyDrops(q)
  BY <1>3, <1>9 DEF Switch, StartBackup, EndBackup, Change, Crash, Restart, ProxyNotices,
     ProxyDrops, vars
<1>10. QED BY <1>4, <1>5, <1>6, <1>7, <1>8, <1>9 DEF Next, Worker, Environment

\* The other pods have had their turn when the primary's comes.
LEMMA OthersReplaced ==
    ASSUME IInv, [Next]_vars, NEW p \in Pods, Deletes(p), p = main,
           NEW q \in Pods \ {p}
    PROVE  pod[q].phase = "none" \/ pod[q].rev \in {seen.rev, template}
<1>1. pc = "next" /\ todo # <<>> /\ Head(todo) = p BY DeletedInTurn DEF Deletes
<1>2. todo \in Seq(Names) BY DEF IInv, Typed
<1>3. Len(todo) = 1 /\ todo[1] = p
  <2>1. 1 \in 1 .. Len(todo) /\ todo[1] = p BY <1>1, <1>2
  <2>2. todo[1] = main => 1 = Len(todo) BY <1>1, <2>1 DEF IInv, Ordered, Replacing
  <2>3. QED BY <2>1, <2>2
<1>4. ~Waits(q) BY <1>3 DEF Waits
<1>5. listed[q].phase = "none" \/ listed[q].rev = seen.rev
  BY <1>1, <1>4 DEF IInv, Handled, Replacing
<1>6. QED BY <1>1, <1>5 DEF IInv, Fresh, Replacing

\* The pod that takes the writes is replaced last (smartUpdate, applyNWait): when
\* the worker deletes the primary that it looked up, every other pod has been
\* replaced, whatever the number of pods, the proxy, and however often the user
\* changes the template, the operator dies, calls are refused, pods are lost and
\* the primary moves.
THEOREM PrimaryIsLast == Spec => PrimaryLast
<1> DEFINE Last ==
      \A p \in Pods : Deletes(p) /\ p = primary /\ p = main =>
         \A q \in Pods \ {p} : pod[q].phase = "none" \/ pod[q].rev \in {seen.rev, template}
<1>1. Init => IInv BY IInvInit
<1>2. IInv /\ [Next]_vars => IInv' BY IInvStep
<1>3. IInv /\ [Next]_vars => [Last]_vars BY OthersReplaced
<1>4. QED BY <1>1, <1>2, <1>3, PTL DEF Spec, PrimaryLast
-----------------------------------------------------------------------------
(* One pod is down at a time.                                               *)

Sound(q) == Up(q) /\ ~pod[q].dying
AllSound == \A q \in Pods : Sound(q)
Standing == \A q \in Pods : pod[q].phase # "none" /\ ~pod[q].dying

\* No pod was lost, no call refused, and the operator has lived on.
Calm == failures = 0 /\ errors = 0 /\ crashes = 0

\* What has gone wrong stays on the record.
Recorded == {failures, errors, crashes, switches} \subseteq Nat

\* A pass that looks at pods finds them all well, and only the one that it
\* replaces is not; that pod is not taken for the one that comes after it.  A pass
\* whose wait has run out may leave a pod that has not come up, and then the
\* status says so.
OneByOne ==
    Calm =>
        /\ pc # "down"
        /\ pc \in {"idle", "apply", "backup"} =>
             Standing /\ (AllSound \/ status.ready < status.replicas)
        /\ pc = "backup" => AllSound \/ seen.ready < seen.replicas
        /\ pc \in {"list", "primary", "next", "sync", "online"} => AllSound
        /\ pc \in {"primary", "next", "sync", "online"} =>
             \A q \in Pods : listed[q].rev = pod[q].rev
        /\ pc = "restart" =>
             /\ \A q \in Pods \ {Head(todo)} : Sound(q) /\ listed[q].rev = pod[q].rev
             /\ pod[Head(todo)].phase = "none" \/ pod[Head(todo)].dying =>
                  listed[Head(todo)].rev # seen.rev
             /\ pod[Head(todo)].dying =>
                  pod[Head(todo)].rev # seen.rev /\ pod[Head(todo)].phase # "none"

LEMMA Counted ==
    ASSUME [Next]_vars
    PROVE  /\ failures' = failures \/ failures' = failures + 1
           /\ errors' = errors \/ errors' = errors + 1
           /\ crashes' = crashes \/ crashes' = crashes + 1
           /\ switches' = switches \/ switches' = switches + 1
<1> USE DEF cluster, proxy, pass, mishaps, Call, Goto, CallFails, Return
<1>1. CASE Begin \/ Apply \/ CheckBackup \/ ListPods \/ FindPrimary
  BY <1>1 DEF Begin, Apply, CheckBackup, ListPods, FindPrimary
<1>2. CASE ReplaceNext \/ AwaitRestart \/ AwaitSync \/ AwaitOnline \/ WaitLimit
  BY <1>2 DEF ReplaceNext, Replace, AwaitRestart, AwaitSync, AwaitOnline, WaitLimit
<1>3. CASE SyncStatefulSet \/ Switch \/ StartBackup \/ EndBackup \/ Change \/ Crash \/ Restart
           \/ UNCHANGED vars
  BY <1>3 DEF SyncStatefulSet, Switch, StartBackup, EndBackup, Change, Crash, Restart, vars
<1>4. CASE \E p \in Pods : PodAdvances(p) \/ PodGone(p) \/ PodFails(p) \/ ProxyNotices(p)
                          \/ ProxyDrops(p)
  BY <1>4 DEF PodAdvances, PodGone, PodFails, ProxyNotices, ProxyDrops
<1>5. QED BY <1>1, <1>2, <1>3, <1>4 DEF Next, Worker, Environment

LEMMA StaysCalm ==
    ASSUME Recorded, [Next]_vars
    PROVE  Recorded' /\ (Calm' => Calm /\ UNCHANGED <<failures, errors, crashes>>)
BY Counted DEF Recorded, Calm

\* A pod that is starting is counted, but not as ready (the status).
LEMMA StartingShows ==
    ASSUME NEW f, NEW p \in Pods, f[p].phase = "starting"
    PROVE  StatusOf(f).ready < StatusOf(f).replicas
<1> DEFINE created == {q \in Pods : f[q].phase # "none"}
           up == {q \in created : f[q].phase # "starting"}
<1>1. IsFiniteSet(created)
  <2>1. Size - 1 \in Int BY SizeAssumption DEF SizeAssumption
  <2>2. IsFiniteSet(Pods) BY <2>1, FS_Interval DEF Pods
  <2>3. created \in SUBSET Pods OBVIOUS
  <2>4. QED BY <2>2, <2>3, FS_Subset
<1>2. up \in SUBSET created /\ up # created
  <2>1. p \in created /\ p \notin up OBVIOUS
  <2>2. QED BY <2>1
<1>3. IsFiniteSet(up) /\ Cardinality(up) <= Cardinality(created)
      /\ Cardinality(up) # Cardinality(created)
  BY <1>1, <1>2, FS_Subset
<1>4. Cardinality(up) \in Nat /\ Cardinality(created) \in Nat BY <1>1, <1>3, FS_CardinalityType
<1>5. StatusOf(f).ready = Cardinality(up) /\ StatusOf(f).replicas = Cardinality(created)
  BY DEF StatusOf
<1> HIDE DEF created, up
<1>6. QED BY <1>3, <1>4, <1>5

\* When the StatefulSet controller has nothing to do, no pod that others wait for
\* is missing.
LEMMA NoneMissing ==
    ASSUME pod = SyncedPods, NEW h \in Pods, \A q \in Pods \ {h} : Sound(q)
    PROVE  pod[h].phase # "none"
<1>1. SUFFICES ASSUME pod[h].phase = "none" PROVE FALSE
  OBVIOUS
<1>2. \A q \in 0 .. h - 1 : Up(q) /\ ~pod[q].dying
  BY SizeAssumption DEF SizeAssumption, Pods, Sound
<1>3. SyncedPods[h].phase = "starting" BY <1>1, <1>2 DEF SyncedPods
<1>4. QED BY <1>1, <1>3

\* A pass that ends with all pods well leaves nothing behind.
LEMMA LeftWell ==
    ASSUME Calm => AllSound, pc' = "idle", UNCHANGED pod, Calm' => Calm
    PROVE  OneByOne'
BY DEF OneByOne, AllSound, Sound, Standing, Up

LEMMA WorkerOneByOne ==
    ASSUME IInv, OneByOne, Calm, Calm', Worker
    PROVE  OneByOne'
<1> USE DEF cluster, proxy, pass, mishaps
<1>0. ~CallFails BY DEF CallFails, Calm, Recorded
<1>1. CASE Begin
  BY <1>1 DEF Begin, Goto, OneByOne, AllSound, Standing, Sound, Up
<1>2. CASE Apply
  BY <1>0, <1>2 DEF Apply, Call, Goto, OneByOne, AllSound, Standing, Sound, Up
<1>3. CASE CheckBackup
  BY <1>0, <1>3 DEF CheckBackup, Call, Goto, Return, OneByOne, AllSound, Standing, Sound, Up
<1>4. CASE ListPods
  BY <1>0, <1>4 DEF ListPods, Call, Goto, OneByOne, AllSound, Standing, Sound, Up
<1>5. CASE FindPrimary
  BY <1>0, <1>5 DEF FindPrimary, Call, Goto, Return, OneByOne, AllSound, Standing, Sound, Up
<1>6. CASE ReplaceNext
  <2>1. pc = "next" /\ AllSound BY <1>6 DEF ReplaceNext, Call, OneByOne
  <2>2. CASE Return
    BY <2>1, <2>2, LeftWell DEF Return, Goto
  <2>3. CASE ~Return
    <3>1. PICK p \in Pods : p = Head(todo) /\ Replace(p)
      BY <1>0, <1>6, <2>3 DEF ReplaceNext, Call, IInv, Typed, Names
    <3>2. /\ pod' = [pod EXCEPT ![p].dying = pod[p].dying \/ listed[p].rev # seen.rev]
          /\ pc' = "restart" /\ UNCHANGED <<template, pass>>
      BY <2>3, <3>1 DEF Replace, Goto
    <3>3. pod \in [Pods -> PodStates] /\ Sound(p) BY <2>1 DEF AllSound, IInv, Typed
    <3>4. /\ \A q \in Pods \ {p} : pod'[q] = pod[q]
          /\ pod'[p].phase = pod[p].phase /\ pod'[p].rev = pod[p].rev
          /\ pod'[p].dying => listed[p].rev # seen.rev
      BY <3>2, <3>3 DEF PodStates, Sound
    <3>5. QED BY <2>1, <3>1, <3>2, <3>3, <3>4 DEF OneByOne, AllSound, Sound, Up
  <2>4. QED BY <2>2, <2>3
<1>7. CASE AwaitRestart
  <2>1. pc = "restart" /\ todo # <<>> /\ Head(todo) \in Pods /\ UNCHANGED <<pod, todo, seen>>
    BY <1>0, <1>7 DEF AwaitRestart, Call, IInv, Typed
  <2>2. PICK h \in Pods : h = Head(todo) BY <2>1
  <2>3. /\ listed' = [listed EXCEPT ![h] = Refreshed(h)]
        /\ pc' = IF Restarted(Refreshed(h)) THEN "sync" ELSE "restart"
    BY <1>0, <1>7, <2>2 DEF AwaitRestart, Call, Goto
  <2>4. /\ listed'[h] = Refreshed(h)
        /\ \A q \in Pods \ {h} : listed'[q] = listed[q]
    BY <2>3 DEF IInv, Typed
  <2>5. CASE Restarted(Refreshed(h))
    <3>1. Sound(h) /\ Refreshed(h) = pod[h]
      BY <2>1, <2>2, <2>5 DEF Restarted, Refreshed, Sound, Up, OneByOne
    <3>2. AllSound BY <2>1, <2>2, <3>1 DEF OneByOne, AllSound
    <3>3. \A q \in Pods : listed'[q].rev = pod[q].rev BY <2>1, <2>2, <2>4, <3>1 DEF OneByOne
    <3>4. QED BY <2>1, <2>3, <2>5, <3>2, <3>3 DEF OneByOne, AllSound, Sound, Up
  <2>6. CASE ~Restarted(Refreshed(h))
    <3>1. pod[h].phase = "none" \/ pod[h].dying => Refreshed(h).rev # seen.rev
      BY <2>1, <2>2 DEF Refreshed, OneByOne
    <3>2. QED BY <2>1, <2>2, <2>3, <2>4, <2>6, <3>1 DEF OneByOne, AllSound, Sound, Up
  <2>7. QED BY <2>5, <2>6
<1>8. CASE AwaitSync
  <2>1. pc = "sync" /\ AllSound BY <1>8 DEF AwaitSync, Call, OneByOne
  <2>2. CASE Return
    BY <2>1, <2>2, LeftWell DEF Return, Goto
  <2>3. CASE pc' = "online" /\ UNCHANGED <<template, pod, pass>>
    BY <2>1, <2>3 DEF OneByOne, AllSound, Sound, Up
  <2>4. QED BY <1>0, <1>8, <2>2, <2>3 DEF AwaitSync, Call, Goto
<1>9. CASE AwaitOnline
  BY <1>0, <1>9 DEF AwaitOnline, Call, Goto, OneByOne, AllSound, Sound, Up
<1>10. QED BY <1>1, <1>2, <1>3, <1>4, <1>5, <1>6, <1>7, <1>8, <1>9 DEF Worker

\* A wait that has run out for a pod that has not come up shows in the status.
LEMMA LimitOneByOne ==
    ASSUME IInv, OneByOne, Calm, Calm', WaitLimit
    PROVE  OneByOne'
<1> USE DEF cluster, proxy, pass, mishaps
<1>1. pc' = "idle" /\ UNCHANGED <<pod, status>> BY DEF WaitLimit, Return, Goto
<1>2. CASE pc \in {"sync", "online"}
  <2>1. AllSound BY <1>2 DEF OneByOne
  <2>2. QED BY <1>1, <2>1, LeftWell
<1>3. CASE pc = "restart"
  <2>1. PICK h \in Pods : h = Head(todo) BY <1>3 DEF IInv, Typed
  <2>2. \A q \in Pods \ {h} : Sound(q) BY <1>3, <2>1 DEF OneByOne
  <2>3. pod = SyncedPods /\ status = StatusOf(pod) /\ ~pod[h].dying BY DEF WaitLimit, Settled
  <2>4. pod[h].phase # "none" BY <2>2, <2>3, NoneMissing
  <2>5. Standing BY <2>2, <2>3, <2>4 DEF Standing, Sound, Up
  <2>6. AllSound \/ status.ready < status.replicas
    <3>1. CASE Up(h) BY <2>2, <2>3, <3>1 DEF AllSound, Sound
    <3>2. CASE ~Up(h)
      <4>1. pod[h].phase = "starting" BY <2>4, <3>2 DEF Up, IInv, Typed, PodStates, Phases
      <4>2. QED BY <2>3, <4>1, StartingShows
    <3>3. QED BY <3>1, <3>2
  <2>7. QED BY <1>1, <2>5, <2>6 DEF OneByOne, AllSound, Standing, Sound, Up
<1>4. QED BY <1>2, <1>3 DEF WaitLimit

\* Around it, the pod that the worker replaces goes, comes back and comes up.
LEMMA EnvironmentOneByOne ==
    ASSUME IInv, OneByOne, Calm, UNCHANGED <<failures, errors, crashes>>, Recorded,
           Environment \/ UNCHANGED vars
    PROVE  OneByOne'
<1> USE DEF cluster, proxy, pass, mishaps
<1>0. pod \in [Pods -> PodStates] /\ (pc = "restart" => Head(todo) \in Pods)
  BY DEF IInv, Typed
<1>1. CASE SyncStatefulSet
  <2>1. pod' = SyncedPods /\ status' = StatusOf(SyncedPods) /\ UNCHANGED <<pc, pass>>
    BY <1>1 DEF SyncStatefulSet
  <2>2. \A q \in Pods : /\ pod[q].phase # "none" => pod'[q] = pod[q]
                        /\ pod'[q] = pod[q] \/ (pod'[q].phase = "starting" /\ ~pod'[q].dying)
    BY <2>1 DEF SyncedPods
  <2>3. ASSUME Standing PROVE Standing' /\ (AllSound' \/ status'.ready < status'.replicas)
    <3>1. \A q \in Pods : pod'[q] = pod[q] BY <2>2, <2>3 DEF Standing
    <3>2. Standing' BY <2>3, <3>1 DEF Standing
    <3>3. CASE \E q \in Pods : pod'[q].phase = "starting"
      <4>1. PICK q \in Pods : SyncedPods[q].phase = "starting" BY <2>1, <3>3
      <4>2. StatusOf(SyncedPods).ready < StatusOf(SyncedPods).replicas BY <4>1, StartingShows
      <4>3. QED BY <2>1, <3>2, <4>2
    <3>4. CASE ~\E q \in Pods : pod'[q].phase = "starting"
      BY <1>0, <3>1, <3>2, <3>4 DEF Standing, AllSound, Sound, Up, PodStates, Phases
    <3>5. QED BY <3>2, <3>3, <3>4
  <2>4. \A q \in Pods : Sound(q) => pod'[q] = pod[q] BY <2>2 DEF Sound, Up
  <2>5. AllSound => AllSound' BY <2>4 DEF AllSound, Sound, Up
  <2>6. CASE pc = "restart"
    <3>1. PICK h \in Pods : h = Head(todo) BY <1>0, <2>6
    <3>2. \A q \in Pods \ {h} : Sound(q)' /\ listed[q].rev = pod'[q].rev
      BY <2>4, <2>6, <3>1 DEF OneByOne, Sound, Up
    <3>3. /\ pod'[h].phase = "none" \/ pod'[h].dying => listed[h].rev # seen.rev
          /\ pod'[h].dying => pod'[h].rev # seen.rev /\ pod'[h].phase # "none"
      BY <2>2, <2>6, <3>1 DEF OneByOne
    <3>4. QED BY <2>1, <2>6, <3>1, <3>2, <3>3 DEF OneByOne
  <2>7. CASE pc # "restart"
    BY <2>1, <2>3, <2>4, <2>5, <2>7 DEF OneByOne, AllSound, Standing
  <2>8. QED BY <2>6, <2>7
<1>2. ASSUME NEW p \in Pods, PodAdvances(p) PROVE OneByOne'
  <2>1. /\ pod[p].phase \in {"starting", "ready"} /\ ~pod[p].dying
        /\ \E ph \in {"ready", "synced"} : pod' = [pod EXCEPT ![p].phase = ph]
        /\ UNCHANGED <<status, pc, pass>>
    BY <1>2 DEF PodAdvances
  <2>2. /\ pod'[p].phase \in {"ready", "synced"} /\ ~pod'[p].dying /\ pod'[p].rev = pod[p].rev
        /\ \A q \in Pods \ {p} : pod'[q] = pod[q]
    BY <1>0, <2>1 DEF PodStates
  <2>3. \A q \in Pods : (Sound(q) => Sound(q)') /\ pod'[q].rev = pod[q].rev
    BY <2>2 DEF Sound, Up
  <2>4. (Standing => Standing') /\ (AllSound => AllSound')
    BY <2>2, <2>3 DEF Standing, AllSound
  <2>5. pc = "restart" => Head(todo) \in Pods BY <1>0
  <2>6. CASE pc = "restart"
    <3>1. PICK h \in Pods : h = Head(todo) BY <1>0, <2>6
    <3>2. /\ pod'[h].phase = "none" \/ pod'[h].dying => listed[h].rev # seen.rev
          /\ pod'[h].dying => pod'[h].rev # seen.rev /\ pod'[h].phase # "none"
      BY <2>2, <2>6, <3>1 DEF OneByOne
    <3>3. \A q \in Pods \ {h} : Sound(q)' /\ listed[q].rev = pod'[q].rev
      BY <2>3, <2>6, <3>1 DEF OneByOne
    <3>4. QED BY <2>1, <2>6, <3>1, <3>2, <3>3 DEF OneByOne
  <2>7. CASE pc # "restart"
    BY <2>1, <2>3, <2>4, <2>7 DEF OneByOne
  <2>8. QED BY <2>6, <2>7
<1>3. ASSUME NEW p \in Pods, PodGone(p) PROVE OneByOne'
  <2>1. /\ pod[p].dying /\ pod' = [pod EXCEPT ![p] = NoPods[p]] /\ UNCHANGED <<status, pc, pass>>
    BY <1>3 DEF PodGone, Vanish
  <2>2. /\ pod'[p].phase = "none" /\ ~pod'[p].dying
        /\ \A q \in Pods \ {p} : pod'[q] = pod[q]
    BY <1>0, <2>1 DEF NoPods
  <2>3. ~Standing /\ ~AllSound BY <2>1 DEF Standing, AllSound, Sound
  <2>4. CASE pc = "restart"
    <3>1. PICK h \in Pods : h = Head(todo) BY <1>0, <2>4
    <3>2. h = p BY <2>1, <2>4, <3>1 DEF OneByOne, Sound
    <3>3. /\ \A q \in Pods \ {h} : Sound(q)' /\ listed[q].rev = pod'[q].rev
          /\ listed[h].rev # seen.rev
      BY <2>1, <2>2, <2>4, <3>1, <3>2 DEF OneByOne, Sound, Up
    <3>4. QED BY <2>1, <2>2, <2>4, <3>1, <3>2, <3>3 DEF OneByOne
  <2>5. CASE pc # "restart"
    BY <2>1, <2>3, <2>5 DEF OneByOne
  <2>6. QED BY <2>4, <2>5
<1>4. ASSUME NEW p \in Pods, PodFails(p) PROVE FALSE
  BY <1>4 DEF PodFails, Recorded
<1>5. CASE Crash
  BY <1>5 DEF Crash, Recorded
<1>6. CASE Restart
  BY <1>6 DEF Restart, OneByOne
<1>7. CASE \/ Switch \/ StartBackup \/ EndBackup \/ Change \/ UNCHANGED vars
           \/ \E p \in Pods : ProxyNotices(p) \/ ProxyDrops(p)
  <2>1. UNCHANGED <<status, pod, pc, pass>>
    BY <1>7 DEF Switch, StartBackup, EndBackup, Change, ProxyNotices,
    ProxyDrops, vars
  <2>2. QED BY <2>1 DEF OneByOne, AllSound, Standing, Sound, Up
<1>8. QED BY <1>1, <1>2, <1>3, <1>4, <1>5, <1>6, <1>7 DEF Environment

LEMMA OneByOneStep == IInv /\ Recorded /\ OneByOne /\ [Next]_vars => OneByOne'
<1> SUFFICES ASSUME IInv, Recorded, OneByOne, [Next]_vars, Calm' PROVE OneByOne'
  BY DEF OneByOne
<1>1. Calm /\ UNCHANGED <<failures, errors, crashes>> BY StaysCalm
<1>2. QED BY <1>1, WorkerOneByOne, LimitOneByOne, EnvironmentOneByOne DEF Next

LEMMA OneByOneInit == Init => OneByOne /\ Recorded
<1> SUFFICES ASSUME Init PROVE OneByOne /\ Recorded
  OBVIOUS
<1>1. \A q \in Pods : pod[q].phase = "synced" /\ ~pod[q].dying BY DEF Init
<1>2. pc = "idle" /\ Recorded BY DEF Init, Recorded
<1>3. QED BY <1>1, <1>2 DEF OneByOne, AllSound, Standing, Sound, Up

\* One pass never takes a second pod down (smartUpdate, applyNWait): when it deletes
\* one, all others are ready and stay, for any number of pods, either proxy, any
\* changes of the template, backups and moves of the primary, and also when the
\* waits of earlier passes have run out.
THEOREM OneDownAlways == Spec => OneDownAtATime
<1> DEFINE Alone ==
      \A p \in Pods : Deletes(p) /\ Undisturbed /\ crashes = 0 =>
         \A q \in Pods \ {p} : Up(q) /\ ~pod[q].dying
<1>1. Init => IInv /\ OneByOne /\ Recorded BY IInvInit, OneByOneInit
<1>2. IInv /\ OneByOne /\ Recorded /\ [Next]_vars => (IInv /\ OneByOne /\ Recorded)'
  BY IInvStep, OneByOneStep, StaysCalm
<1>3. OneByOne => Alone
  BY DEF OneByOne, Calm, Undisturbed, Deletes, AllSound, Sound
<1>4. IInv /\ OneByOne /\ Recorded /\ [Next]_vars => [Alone]_vars BY <1>3
<1>5. QED BY <1>1, <1>2, <1>4, PTL DEF Spec, OneDownAtATime
-----------------------------------------------------------------------------
(* The service stays up.                                                    *)

\* A pod that serves, that the proxy does not hold for offline and that nobody takes.
Good(q) == NotOffline(q) /\ Serves(q) /\ ~pod[q].dying

\* The worker does not hold what there is of a pod, or went on from one that no longer
\* serves.
Unsure(q) == \/ ~Sound(q) \/ listed[q].phase = "none" \/ listed[q].rev # pod[q].rev
             \/ pc = "online" /\ q = Head(todo) /\ ~Serves(q)

Lost     == {q \in Pods : ~Sound(q)}
Away     == {q \in Pods : ~Good(q)}
Doubtful == {q \in Pods : Unsure(q)}

\* What may be missing of the pods that had their turn and of those that wait for it:
\* while the primary that was looked up serves, and in any case.
Missing == {q \in Pods : IF Waits(q) THEN Unsure(q) ELSE ~Good(q)}
AtRisk  == {q \in Pods : ~Good(q) \/ (Waits(q) /\ Unsure(q))}

AtMost(S, n) == Cardinality(S) <= n

NoneDying   == \A q \in Pods : ~pod[q].dying
PrimaryGood == primary \in Pods /\ Good(primary)

\* The proxy has a good primary, or none yet and only good pods to choose from.
Headed    == PrimaryGood \/ (primary = NoPod /\ NoneDying)
Within(n) == AtMost(Lost, n) /\ (Headed \/ AtMost(Away, n))

\* The pod in hand is not taken for the one that comes after it.
Expected ==
    IF pc = "restart"
    THEN /\ pod[Head(todo)].phase = "none" \/ pod[Head(todo)].dying =>
              listed[Head(todo)].rev # seen.rev
         /\ pod[Head(todo)].dying => pod[Head(todo)].rev # seen.rev
    ELSE ~Unsure(Head(todo))

\* No more pods are missing than the operator has died, the one in hand apart.
Handling(S) ==
    \/ AtMost(S, crashes)
    \/ pc # "next" /\ AtMost(S \ {Head(todo)}, crashes) /\ Expected

\* The proxy looks more often than a node comes up.
Noticed ==
    /\ \A q \in online : Serves(q) \/ pod[q].phase \in {"none", "starting"}
    /\ primary \in online \/ (online = {} /\ primary = NoPod)

Guarded == Undisturbed /\ crashes + 1 < Size

\* Between passes one more pod may be missing if the status says so.
Served ==
    Guarded =>
        /\ pc \in {"idle", "apply", "backup"} =>
             \/ Within(crashes)
             \/ NoneDying /\ status.ready < status.replicas /\ Within(crashes + 1)
        /\ pc = "backup" => Within(crashes) \/ seen.ready < seen.replicas
        /\ pc \in {"down", "list"} => Within(crashes)
        /\ pc = "primary" =>
             AtMost(Doubtful, crashes) /\ (Headed \/ AtMost(Doubtful \cup Away, crashes))
        /\ pc \in Replacing =>
             \/ Handling(Missing) /\ PrimaryGood /\ primary = main
             \/ Handling(AtRisk)

\* What holds at every step.
SInv == IInv /\ Recorded /\ pc \in Steps /\ Noticed /\ Served

\* Counting pods.
LEMMA AllPods == IsFiniteSet(Pods) /\ Cardinality(Pods) = Size
<1>1. 0 \in Int /\ Size - 1 \in Int /\ Size \in Nat \ {0}
  BY SizeAssumption DEF SizeAssumption
<1>2. IsFiniteSet(0 .. Size - 1)
      /\ Cardinality(0 .. Size - 1) = IF 0 > Size - 1 THEN 0 ELSE Size - 1 - 0 + 1
  BY <1>1, FS_Interval
<1>3. QED BY <1>1, <1>2 DEF Pods

LEMMA Fewer ==
    ASSUME NEW T \in SUBSET Pods, NEW S \in SUBSET T, NEW n \in Int, AtMost(T, n)
    PROVE  AtMost(S, n)
<1>1. IsFiniteSet(T) BY AllPods, FS_Subset
<1>2. IsFiniteSet(S) /\ Cardinality(S) <= Cardinality(T) BY <1>1, FS_Subset
<1>3. Cardinality(S) \in Nat /\ Cardinality(T) \in Nat BY <1>1, <1>2, FS_CardinalityType
<1>4. QED BY <1>2, <1>3 DEF AtMost

LEMMA OneMore ==
    ASSUME NEW S \in SUBSET Pods, NEW h, NEW n \in Int, AtMost(S \ {h}, n)
    PROVE  AtMost(S, n + 1)
<1>1. IsFiniteSet(S) BY AllPods, FS_Subset
<1>2. Cardinality(S \ {h}) = IF h \in S THEN Cardinality(S) - 1 ELSE Cardinality(S)
  BY <1>1, FS_RemoveElement
<1>3. Cardinality(S) \in Nat BY <1>1, FS_CardinalityType
<1>4. QED BY <1>2, <1>3 DEF AtMost

LEMMA Room ==
    ASSUME NEW S \in SUBSET Pods, NEW n \in Int, AtMost(S, n), n < Size
    PROVE  \E q \in Pods : q \notin S
<1>1. SUFFICES ASSUME S = Pods PROVE FALSE
  OBVIOUS
<1>2. Size \in Int BY SizeAssumption DEF SizeAssumption
<1>3. QED BY <1>1, <1>2, AllPods DEF AtMost

LEMMA RoomBeside ==
    ASSUME NEW S \in SUBSET Pods, NEW n \in Int, AtMost(S, n), n + 1 < Size, NEW p \in Pods
    PROVE  \E q \in Pods \ {p} : q \notin S
<1> DEFINE T == S \cup {p}
<1>1. T \in SUBSET Pods /\ T \ {p} \in SUBSET S OBVIOUS
<1> HIDE DEF T
<1>2. AtMost(T \ {p}, n) BY <1>1, Fewer
<1>3. AtMost(T, n + 1) BY <1>1, <1>2, OneMore
<1>4. n + 1 \in Int OBVIOUS
<1>5. PICK q \in Pods : q \notin T BY <1>1, <1>3, <1>4, Room
<1>6. QED BY <1>5 DEF T

\* The sets of missing pods grow smaller when pods come up or are looked at.
Eases ==
    /\ UNCHANGED todo
    /\ \A q \in Pods : /\ Sound(q) => Sound(q)'
                       /\ Good(q) => Good(q)'
                       /\ Unsure(q)' => Unsure(q)

LEMMA EasedSets ==
    ASSUME Eases
    PROVE  /\ Lost' \in SUBSET Lost /\ Away' \in SUBSET Away
           /\ Missing' \in SUBSET Missing /\ AtRisk' \in SUBSET AtRisk
           /\ Doubtful' \in SUBSET Doubtful
           /\ (Doubtful \cup Away)' \in SUBSET (Doubtful \cup Away)
<1>1. \A q \in Pods : Waits(q)' = Waits(q) BY DEF Eases, Waits
<1>2. \A q \in Pods : ~Sound(q)' => ~Sound(q) BY DEF Eases
<1>3. \A q \in Pods : ~Good(q)' => ~Good(q) BY DEF Eases
<1>4. \A q \in Pods : Unsure(q)' => Unsure(q) BY DEF Eases
<1>5. Lost' \in SUBSET Lost BY <1>2 DEF Lost
<1>6. Away' \in SUBSET Away BY <1>3 DEF Away
<1>7. Doubtful' \in SUBSET Doubtful BY <1>4 DEF Doubtful
<1>8. Missing' \in SUBSET Missing BY <1>1, <1>3, <1>4 DEF Missing
<1>9. AtRisk' \in SUBSET AtRisk BY <1>1, <1>3, <1>4 DEF AtRisk
<1>10. QED BY <1>5, <1>6, <1>7, <1>8, <1>9

LEMMA PodSets ==
    /\ Lost \in SUBSET Pods /\ Away \in SUBSET Pods /\ Doubtful \in SUBSET Pods
    /\ Missing \in SUBSET Pods /\ AtRisk \in SUBSET Pods
BY DEF Lost, Away, Doubtful, Missing, AtRisk

\* Who is lost is missing, in either way of counting.
LEMMA LostIsMissing ==
    /\ Lost \in SUBSET Away /\ Lost \in SUBSET Doubtful
    /\ Lost \in SUBSET Missing /\ Lost \in SUBSET AtRisk /\ Away \in SUBSET AtRisk
<1>1. \A q \in Pods : (~Sound(q) => ~Good(q)) /\ (~Sound(q) => Unsure(q))
  BY DEF Sound, Good, NotOffline, Unsure, Up, Serves
<1>2. QED BY <1>1 DEF Lost, Away, Doubtful, Missing, AtRisk

LEMMA Enough ==
    ASSUME NEW n \in Int, (AtMost(Missing, n) /\ PrimaryGood) \/ AtMost(AtRisk, n)
    PROVE  Within(n)
<1>1. CASE AtMost(Missing, n) /\ PrimaryGood
  <2>1. AtMost(Lost, n) BY <1>1, PodSets, LostIsMissing, Fewer
  <2>2. QED BY <1>1, <2>1 DEF Within, Headed
<1>2. CASE AtMost(AtRisk, n)
  <2>1. AtMost(Lost, n) /\ AtMost(Away, n) BY <1>2, PodSets, LostIsMissing, Fewer
  <2>2. QED BY <2>1 DEF Within
<1>3. QED BY <1>1, <1>2

LEMMA WithinMore ==
    ASSUME NEW n \in Int, Within(n)
    PROVE  Within(n + 1)
<1>1. \A S \in SUBSET Pods : AtMost(S, n) => AtMost(S, n + 1)
  <2>1. ASSUME NEW S \in SUBSET Pods, AtMost(S, n) PROVE AtMost(S, n + 1)
    <3>1. S \ {NoPod} \in SUBSET S OBVIOUS
    <3>2. AtMost(S \ {NoPod}, n) BY <2>1, <3>1, Fewer
    <3>3. QED BY <3>2, OneMore
  <2>2. QED BY <2>1
<1>2. QED BY <1>1, PodSets DEF Within

\* The pod in hand makes one more.
LEMMA InHand ==
    ASSUME SInv, Guarded, pc \in Replacing
    PROVE  Within(crashes + 1) /\ (pc = "next" => Within(crashes))
<1>1. crashes \in Int /\ crashes + 1 \in Int BY DEF SInv, Recorded
<1>2. \A S \in SUBSET Pods : Handling(S) =>
         AtMost(S, crashes) \/ (pc # "next" /\ AtMost(S, crashes + 1))
  <2>1. ASSUME NEW S \in SUBSET Pods, Handling(S), ~AtMost(S, crashes)
        PROVE  pc # "next" /\ AtMost(S, crashes + 1)
    <3>1. pc # "next" /\ AtMost(S \ {Head(todo)}, crashes) BY <2>1 DEF Handling
    <3>2. QED BY <1>1, <3>1, OneMore
  <2>2. QED BY <2>1
<1>3. (Handling(Missing) /\ PrimaryGood) \/ Handling(AtRisk) BY DEF SInv, Served
<1>4. \/ (AtMost(Missing, crashes) /\ PrimaryGood) \/ AtMost(AtRisk, crashes)
      \/ pc # "next" /\ ((AtMost(Missing, crashes + 1) /\ PrimaryGood) \/ AtMost(AtRisk, crashes + 1))
  BY <1>2, <1>3, PodSets
<1>5. Within(crashes) \/ (pc # "next" /\ Within(crashes + 1)) BY <1>1, <1>4, Enough
<1>6. QED BY <1>1, <1>5, WithinMore

\* A pass that is over leaves what is missing as it is.
LEMMA Ended ==
    ASSUME pc' \in {"idle", "down"}, UNCHANGED <<pod, proxy>>, Within(crashes')
    PROVE  Served'
<1>1. \A q \in Pods : Sound(q)' = Sound(q) /\ Good(q)' = Good(q)
  BY DEF Sound, Good, NotOffline, Up, Serves, proxy
<1>2. Lost' = Lost /\ Away' = Away BY <1>1 DEF Lost, Away
<1>3. Headed' = Headed BY <1>1 DEF Headed, NoneDying, PrimaryGood, proxy
<1>4. Within(crashes)' BY <1>2, <1>3 DEF Within
<1>5. QED BY <1>4 DEF Served, Replacing

\* What is easier all around keeps the bounds.
LEMMA EasedServed ==
    ASSUME SInv, Guarded, Eases, UNCHANGED <<crashes, main, seen>>,
           pc' = pc \/ {pc, pc'} \subseteq {"restart", "sync", "online"},
           PrimaryGood => PrimaryGood' /\ UNCHANGED primary,
           Headed => Headed',
           pc \in {"restart", "sync", "online"} /\ Expected => Expected',
           NoneDying /\ status.ready < status.replicas /\ Within(crashes + 1) =>
              Within(crashes) \/ (NoneDying' /\ status'.ready < status'.replicas)
    PROVE  Served'
<1>1. PICK k \in Int : k = crashes /\ k' = k /\ crashes' = k
  BY DEF SInv, Recorded
<1>2. k + 1 \in Int OBVIOUS
<1>3. \A n \in Int : /\ AtMost(Doubtful, n) => AtMost(Doubtful', n)
                     /\ AtMost(Doubtful \cup Away, n) => AtMost((Doubtful \cup Away)', n)
                     /\ AtMost(Lost, n) => AtMost(Lost', n)
                     /\ AtMost(Away, n) => AtMost(Away', n)
                     /\ AtMost(Missing, n) => AtMost(Missing', n)
                     /\ AtMost(AtRisk, n) => AtMost(AtRisk', n)
  <2>1. Doubtful \cup Away \in SUBSET Pods BY PodSets
  <2>2. \A n \in Int : \A T \in SUBSET Pods : \A S \in SUBSET T : AtMost(T, n) => AtMost(S, n)
    BY Fewer
  <2>3. QED BY <2>1, <2>2, PodSets, EasedSets
<1>4. Within(k) => Within(crashes)'
  <2>1. Within(k) => AtMost(Lost', k) /\ (Headed' \/ AtMost(Away', k)) BY <1>3 DEF Within
  <2>2. QED BY <1>1, <2>1 DEF Within
<1>5. Within(k + 1) => Within(crashes + 1)'
  <2>1. Within(k + 1) => AtMost(Lost', k + 1) /\ (Headed' \/ AtMost(Away', k + 1))
    BY <1>2, <1>3 DEF Within
  <2>2. QED BY <1>1, <2>1 DEF Within
<1>6. CASE pc \in {"idle", "apply", "backup", "down", "list"}
  <2>0. pc' = pc BY <1>6
  <2>1. pc \in {"idle", "apply", "backup"} =>
           \/ Within(crashes)'
           \/ NoneDying' /\ status'.ready < status'.replicas /\ Within(crashes + 1)'
    BY <1>1, <1>4, <1>5 DEF SInv, Served
  <2>2. pc = "backup" => Within(crashes)' \/ seen'.ready < seen'.replicas
    BY <1>1, <1>4 DEF SInv, Served
  <2>3. pc \in {"down", "list"} => Within(crashes)' BY <1>1, <1>4 DEF SInv, Served
  <2>4. QED BY <1>6, <2>0, <2>1, <2>2, <2>3 DEF Served, Replacing
<1>7. CASE pc = "primary"
  <2>0. pc' = pc BY <1>7
  <2>1. AtMost(Doubtful, k) /\ (Headed \/ AtMost(Doubtful \cup Away, k))
    BY <1>1, <1>7 DEF SInv, Served
  <2>2. AtMost(Doubtful', k) /\ (Headed' \/ AtMost((Doubtful \cup Away)', k))
    BY <1>3, <2>1
  <2>3. QED BY <1>1, <1>7, <2>0, <2>2 DEF Served, Replacing
<1>8. CASE pc \in Replacing
  <2>0. pc' \in Replacing /\ (pc # "next" => pc' # "next") BY <1>8 DEF Replacing
  <2>1. pc # "next" => pc \in {"restart", "sync", "online"} BY <1>8 DEF Replacing
  <2>2. PICK h : h = Head(todo) /\ h = Head(todo') BY DEF Eases
  <2>3. \A S, T \in SUBSET Pods : T \in SUBSET S /\ Handling(S) =>
           \/ AtMost(T, crashes')
           \/ pc' # "next" /\ AtMost(T \ {Head(todo')}, crashes') /\ Expected'
    <3>1. ASSUME NEW S \in SUBSET Pods, NEW T \in SUBSET S, Handling(S), ~AtMost(S, k)
          PROVE  pc # "next" /\ AtMost(T \ {h}, k) /\ Expected'
      <4>1. pc # "next" /\ AtMost(S \ {h}, k) /\ Expected BY <1>1, <2>2, <3>1 DEF Handling
      <4>2. T \ {h} \in SUBSET (S \ {h}) /\ S \ {h} \in SUBSET Pods OBVIOUS
      <4>3. AtMost(T \ {h}, k) BY <4>1, <4>2, Fewer
      <4>4. QED BY <2>1, <4>1, <4>3
    <3>2. \A S \in SUBSET Pods : \A T \in SUBSET S : AtMost(S, k) => AtMost(T, k) BY Fewer
    <3>3. QED BY <1>1, <2>0, <2>2, <3>1, <3>2
  <2>4. Handling(Missing) => Handling(Missing)'
    <3>1. Missing' \in SUBSET Missing /\ Missing \in SUBSET Pods BY PodSets, EasedSets
    <3>2. QED BY <2>3, <3>1 DEF Handling
  <2>5. Handling(AtRisk) => Handling(AtRisk)'
    <3>1. AtRisk' \in SUBSET AtRisk /\ AtRisk \in SUBSET Pods BY PodSets, EasedSets
    <3>2. QED BY <2>3, <3>1 DEF Handling
  <2>6. \/ Handling(Missing) /\ PrimaryGood /\ primary = main
        \/ Handling(AtRisk)
    BY <1>8 DEF SInv, Served
  <2>7. \/ Handling(Missing)' /\ PrimaryGood' /\ primary' = main'
        \/ Handling(AtRisk)'
    BY <2>4, <2>5, <2>6
  <2>8. QED BY <2>0, <2>7 DEF Served, Replacing
<1>9. CASE pc \notin {"idle", "apply", "backup", "down", "list", "primary"} \cup Replacing
  <2>1. pc' = pc BY <1>9 DEF Replacing
  <2>2. QED BY <1>9, <2>1 DEF Served
<1>10. QED BY <1>6, <1>7, <1>8, <1>9

LEMMA StaysGuarded ==
    ASSUME Recorded, [Next]_vars, Guarded'
    PROVE  Guarded /\ UNCHANGED <<failures, errors, switches>>
<1>1. failures = 0 /\ errors = 0 /\ switches = 0
      /\ UNCHANGED <<failures, errors, switches>>
  BY Counted DEF Recorded, Guarded, Undisturbed
<1>2. Size \in Nat /\ crashes \in Nat /\ crashes' + 1 < Size
  BY SizeAssumption DEF SizeAssumption, Recorded, Guarded
<1>3. crashes + 1 < Size BY <1>2, Counted
<1>4. QED BY <1>1, <1>3 DEF Guarded, Undisturbed

\* The proxy's picture stays ahead of the pods.
LEMMA NoticedStep == IInv /\ Noticed /\ [Next]_vars => Noticed'
<1> SUFFICES ASSUME IInv, Noticed, [Next]_vars PROVE Noticed'
  OBVIOUS
<1> USE DEF cluster, proxy, pass, mishaps
<1>0. pod \in [Pods -> PodStates] /\ online \subseteq Pods BY DEF IInv, Typed
<1>1. ASSUME UNCHANGED proxy,
             \A q \in Pods : \/ pod'[q].phase = pod[q].phase
                             \/ pod'[q].phase \in {"none", "starting", "synced"}
                             \/ q \notin online
      PROVE  Noticed'
  BY <1>0, <1>1 DEF Noticed, Serves
<1>2. CASE Begin \/ Apply \/ CheckBackup \/ ListPods \/ FindPrimary \/ AwaitRestart
           \/ AwaitSync \/ AwaitOnline \/ WaitLimit
  <2>1. UNCHANGED <<pod, proxy>>
    BY <1>2 DEF Begin, Apply, CheckBackup, ListPods, FindPrimary, AwaitRestart,
                AwaitSync, AwaitOnline, WaitLimit, Call, Goto, CallFails, Return
  <2>2. QED BY <1>1, <2>1
<1>3. CASE ReplaceNext
  <2>1. CASE UNCHANGED <<pod, proxy>> BY <1>1, <2>1
  <2>2. CASE ~UNCHANGED <<pod, proxy>>
    <3>1. Head(todo) \in Pods /\ Replace(Head(todo)) /\ UNCHANGED proxy /\ ~Return
      BY <1>3, <2>2 DEF ReplaceNext, Call, CallFails, Return, IInv, Typed, Names
    <3>2. PICK p \in Pods : p = Head(todo) BY <3>1
    <3>3. pod' = [pod EXCEPT ![p].dying = pod[p].dying \/ listed[p].rev # seen.rev]
      BY <3>1, <3>2 DEF Replace
    <3>4. \A q \in Pods : pod'[q].phase = pod[q].phase BY <1>0, <3>3 DEF PodStates
    <3>5. QED BY <1>1, <3>1, <3>4
  <2>3. QED BY <2>1, <2>2
<1>4. CASE SyncStatefulSet
  <2>1. \A q \in Pods : SyncedPods[q] = pod[q] \/ SyncedPods[q].phase = "starting"
    BY DEF SyncedPods
  <2>2. QED BY <1>1, <1>4, <2>1 DEF SyncStatefulSet
<1>5. ASSUME NEW p \in Pods, PodAdvances(p) PROVE Noticed'
  <2>1. \/ p \notin online /\ pod' = [pod EXCEPT ![p].phase = "ready"]
        \/ pod' = [pod EXCEPT ![p].phase = "synced"]
    BY <1>5 DEF PodAdvances
  <2>2. \A q \in Pods : pod'[q].phase = pod[q].phase
                        \/ (q = p /\ (p \notin online \/ pod'[q].phase = "synced"))
    BY <1>0, <2>1 DEF PodStates
  <2>3. UNCHANGED proxy BY <1>5 DEF PodAdvances
  <2>4. QED BY <1>1, <2>2, <2>3
<1>6. ASSUME NEW p \in Pods, PodGone(p) \/ PodFails(p) PROVE Noticed'
  <2>1. pod' = [pod EXCEPT ![p] = NoPods[p]] /\ UNCHANGED proxy
    BY <1>6 DEF PodGone, PodFails, Vanish
  <2>2. NoPods[p].phase = "none" BY DEF NoPods
  <2>3. \A q \in Pods : pod'[q] = pod[q] \/ pod'[q].phase = "none" BY <1>0, <2>1, <2>2
  <2>4. QED BY <1>1, <2>1, <2>3
<1>7. ASSUME NEW p \in Pods, ProxyNotices(p) PROVE Noticed'
  <2>1. /\ UNCHANGED pod
        /\ online' = IF Serves(p) THEN online \cup {p} ELSE online \ {p}
        /\ primary' \in online' \/ (online' = {} /\ primary' = NoPod)
    BY <1>7 DEF ProxyNotices
  <2>2. \A q \in online' : q \in online \/ Serves(q) BY <2>1
  <2>3. QED BY <1>0, <2>1, <2>2 DEF Noticed, Serves
<1>8. CASE Switch
  BY <1>8 DEF Switch, Noticed, Serves
<1>9. ASSUME NEW p \in Pods, ProxyDrops(p) PROVE Noticed'
  BY <1>9 DEF ProxyDrops, Noticed, Serves
<1>10. CASE StartBackup \/ EndBackup \/ Change \/ Crash \/ Restart \/ UNCHANGED vars
  <2>1. UNCHANGED <<pod, proxy>> BY <1>10 DEF StartBackup, EndBackup, Change, Crash, Restart, vars
  <2>2. QED BY <1>1, <2>1
<1>11. QED BY <1>2, <1>3, <1>4, <1>5, <1>6, <1>7, <1>8, <1>10, <1>9
       DEF Next, Worker, Environment

\* When nothing goes and the StatefulSet controller has nothing to start, all pods
\* are up: it would start the first one that is missing.
LEMMA NoneLeft ==
    ASSUME IInv, NoneDying, \A q \in Pods : SyncedPods[q].phase # "starting"
    PROVE  \A q \in Pods : Up(q)
<1> DEFINE M == {q \in Pods : pod[q].phase = "none"}
           From(p) == {q \in M : q >= p}
<1>1. \A q \in Pods : pod[q].phase # "none" => Up(q)
  <2>1. \A q \in Pods : pod[q].phase # "none" => SyncedPods[q] = pod[q] BY DEF SyncedPods
  <2>2. QED BY <2>1 DEF Up, IInv, Typed, PodStates, Phases
<1>2. SUFFICES ASSUME NEW r \in M PROVE FALSE
  BY <1>1
<1>3. M \in SUBSET Int /\ IsFiniteSet(M)
  <2>1. Size - 1 \in Int BY SizeAssumption DEF SizeAssumption
  <2>2. Pods \subseteq Int BY <2>1 DEF Pods
  <2>3. M \in SUBSET Pods OBVIOUS
  <2>4. IsFiniteSet(M) BY <2>3, AllPods, FS_Subset
  <2>5. QED BY <2>2, <2>3, <2>4
<1>4. PICK m \in M : Cardinality(From(m)) = Cardinality(M)
  <2>1. /\ Cardinality(M) \in Nat
        /\ Cardinality(From(r)) \in 1 .. Cardinality(M)
        /\ \A i \in 1 .. Cardinality(M) : \E p \in M : Cardinality(From(p)) = i
    <3> HIDE DEF M
    <3>1. QED BY <1>2, <1>3, Places
  <2>2. Cardinality(M) \in 1 .. Cardinality(M) BY <2>1
  <2>3. QED BY <2>1, <2>2
<1>5. From(m) = M
  <2>1. From(m) \in SUBSET M OBVIOUS
  <2> HIDE DEF M, From
  <2>2. QED BY <1>3, <1>4, <2>1, FS_Subset
<1>6. \A q \in 0 .. m - 1 : Up(q) /\ ~pod[q].dying
  <2>1. ASSUME NEW q \in 0 .. m - 1 PROVE Up(q) /\ ~pod[q].dying
    <3>1. q \in Pods /\ ~(q >= m)
      <4>1. m \in 0 .. Size - 1 /\ Size \in Int BY SizeAssumption DEF SizeAssumption, Pods
      <4>2. QED BY <2>1, <4>1 DEF Pods
    <3>2. q \notin M BY <1>5, <3>1
    <3>3. QED BY <1>1, <3>1, <3>2 DEF NoneDying
  <2>2. QED BY <2>1
<1>7. SyncedPods[m].phase = "starting" BY <1>6 DEF SyncedPods
<1>8. QED BY <1>7

\* Then the proxy has noticed that the primary serves.
LEMMA Rested ==
    ASSUME SInv, crashes + 1 < Size, NoneDying, Within(crashes + 1),
           \A q \in Pods : SyncedPods[q].phase # "starting"
    PROVE  Within(crashes)
<1>0. crashes \in Nat /\ crashes \in Int /\ crashes + 1 \in Int BY DEF SInv, Recorded
<1>1. \A q \in Pods : Up(q) BY NoneLeft DEF SInv
<1>2. Lost = {} BY <1>1 DEF Lost, Sound, NoneDying
<1>3. AtMost(Lost, crashes) BY <1>0, <1>2, FS_EmptySet DEF AtMost
<1>4. Headed
  <2>1. primary \in Pods \/ primary = NoPod BY DEF SInv, IInv, Typed, Names
  <2>2. CASE primary = NoPod BY <2>2 DEF Headed
  <2>3. CASE primary \in Pods
    <3>1. primary \in online BY <2>3, SizeAssumption DEF SInv, Noticed, SizeAssumption, Pods
    <3>2. Serves(primary) BY <1>1, <2>3, <3>1 DEF SInv, Noticed, Up
    <3>3. QED BY <2>3, <3>1, <3>2 DEF Headed, PrimaryGood, Good, NotOffline, NoneDying
  <2>4. QED BY <2>1, <2>2, <2>3
<1>5. QED BY <1>3, <1>4 DEF Within

LEMMA StillExpected ==
    ASSUME Eases, UNCHANGED <<pc, pass>>, NEW h \in Pods, h = Head(todo), Expected,
           pc = "restart" => Expected'
    PROVE  Expected'
<1> USE DEF pass
<1>1. CASE pc # "restart"
  <2>1. ~Unsure(h)' BY <1>1 DEF Expected, Eases
  <2>2. h = Head(todo') OBVIOUS
  <2>3. ~Unsure(Head(todo))' BY <2>1, <2>2 DEF Unsure, Sound, Up
  <2>4. QED BY <1>1, <2>3 DEF Expected
<1>2. QED BY <1>1

\* Around the worker pods come up and the proxy notices; a pod that goes is no longer
\* counted on.
LEMMA EnvironmentServed ==
    ASSUME SInv, Guarded, UNCHANGED <<failures, errors, switches>>,
           Environment \/ UNCHANGED vars, ~Crash
    PROVE  Served'
<1> USE DEF cluster, proxy, pass, mishaps
<1>0. /\ pod \in [Pods -> PodStates] /\ online \subseteq Pods /\ primary \in Names
      /\ pc \in {"restart", "sync", "online"} => Head(todo) \in Pods
      /\ failures \in Nat /\ switches \in Nat
  BY DEF SInv, IInv, Typed, Recorded
<1>1. CASE SyncStatefulSet
  <2>1. pod' = SyncedPods /\ status' = StatusOf(SyncedPods)
        /\ UNCHANGED <<pc, pass, proxy, crashes>>
    BY <1>1 DEF SyncStatefulSet
  <2>2. \A q \in Pods : /\ pod[q].phase # "none" => pod'[q] = pod[q]
                        /\ pod'[q] = pod[q] \/ (pod'[q].phase = "starting" /\ ~pod'[q].dying)
    BY <2>1 DEF SyncedPods
  <2>3. \A q \in Pods : Sound(q) \/ Good(q) \/ ~Unsure(q) => pod'[q] = pod[q]
    BY <2>2 DEF Sound, Good, NotOffline, Unsure, Up, Serves
  <2>4. Eases BY <2>1, <2>3 DEF Eases, Sound, Good, NotOffline, Unsure, Up, Serves
  <2>5. PrimaryGood => PrimaryGood' /\ UNCHANGED primary
    BY <2>1, <2>4 DEF PrimaryGood, Eases
  <2>6. Headed => Headed' BY <2>1, <2>2, <2>5 DEF Headed, NoneDying
  <2>7. pc \in {"restart", "sync", "online"} /\ Expected => Expected'
    <3>1. pc = "restart" /\ Expected => Expected' BY <1>0, <2>1, <2>2 DEF Expected
    <3>2. QED BY <1>0, <2>1, <2>4, <3>1, StillExpected
  <2>8. NoneDying /\ status.ready < status.replicas /\ Within(crashes + 1) =>
           Within(crashes) \/ (NoneDying' /\ status'.ready < status'.replicas)
    <3>1. ASSUME NoneDying, Within(crashes + 1)
          PROVE  Within(crashes) \/ (NoneDying' /\ status'.ready < status'.replicas)
      <4>1. NoneDying' BY <2>2, <3>1 DEF NoneDying
      <4>2. CASE \E q \in Pods : SyncedPods[q].phase = "starting"
        BY <2>1, <4>1, <4>2, StartingShows
      <4>3. CASE \A q \in Pods : SyncedPods[q].phase # "starting"
        BY <3>1, <4>3, Rested DEF Guarded
      <4>4. QED BY <4>2, <4>3
    <3>2. QED BY <3>1
  <2>9. QED BY <2>1, <2>4, <2>5, <2>7, <2>8, <2>6, EasedServed
<1>2. ASSUME NEW p \in Pods, PodAdvances(p) PROVE Served'
  <2>1. /\ \/ pod[p].phase = "starting" /\ pod' = [pod EXCEPT ![p].phase = "ready"]
           \/ pod[p].phase = "ready" /\ pod' = [pod EXCEPT ![p].phase = "synced"]
        /\ ~pod[p].dying /\ UNCHANGED <<status, pc, pass, proxy, crashes>>
    BY <1>2 DEF PodAdvances
  <2>2. /\ \A q \in Pods : pod'[q].dying = pod[q].dying /\ pod'[q].rev = pod[q].rev
        /\ \A q \in Pods \ {p} : pod'[q].phase = pod[q].phase
        /\ pod[p].phase # "none" /\ pod'[p].phase \in {"ready", "synced"}
        /\ pod[p].phase # "synced"
    BY <1>0, <2>1 DEF PodStates
  <2>3. Eases BY <2>1, <2>2 DEF Eases, Sound, Good, NotOffline, Unsure, Up, Serves
  <2>4. PrimaryGood => PrimaryGood' /\ UNCHANGED primary
    BY <2>1, <2>3 DEF PrimaryGood, Eases
  <2>5. pc \in {"restart", "sync", "online"} /\ Expected => Expected'
    <3>1. pc = "restart" /\ Expected => Expected' BY <1>0, <2>1, <2>2 DEF Expected
    <3>2. QED BY <1>0, <2>1, <2>3, <3>1, StillExpected
  <2>6. NoneDying => NoneDying' BY <2>2 DEF NoneDying
  <2>7. Headed => Headed' BY <2>1, <2>4, <2>6 DEF Headed
  <2>8. QED BY <2>1, <2>3, <2>4, <2>5, <2>6, <2>7, EasedServed
<1>3. ASSUME NEW p \in Pods, PodGone(p) PROVE Served'
  <2>1. /\ pod[p].dying /\ pod' = [pod EXCEPT ![p] = NoPods[p]]
        /\ UNCHANGED <<status, pc, pass, proxy, crashes>>
    BY <1>3 DEF PodGone, Vanish
  <2>2. /\ pod'[p].phase = "none" /\ ~pod'[p].dying
        /\ \A q \in Pods \ {p} : pod'[q] = pod[q]
    BY <1>0, <2>1 DEF NoPods
  <2>3. ~Sound(p) /\ ~Good(p) /\ Unsure(p) BY <2>1 DEF Sound, Good, NotOffline, Unsure
  <2>4. \A q \in Pods : Sound(q) \/ Good(q) \/ ~Unsure(q) => pod'[q] = pod[q]
    BY <2>2, <2>3
  <2>5. Eases BY <2>1, <2>4 DEF Eases, Sound, Good, NotOffline, Unsure, Up, Serves
  <2>6. PrimaryGood => PrimaryGood' /\ UNCHANGED primary
    BY <2>1, <2>5 DEF PrimaryGood, Eases
  <2>7. pc \in {"restart", "sync", "online"} /\ Expected => Expected'
    <3>1. pc = "restart" /\ Expected => Expected' BY <1>0, <2>1, <2>2 DEF Expected
    <3>2. QED BY <1>0, <2>1, <2>5, <3>1, StillExpected
  <2>8. ~NoneDying BY <2>1 DEF NoneDying
  <2>9. Headed => Headed' BY <2>6, <2>8 DEF Headed
  <2>10. QED BY <2>1, <2>5, <2>6, <2>7, <2>8, <2>9, EasedServed
<1>4. ASSUME NEW p \in Pods, ProxyNotices(p) PROVE Served'
  <2>1. /\ online' = IF Serves(p) THEN online \cup {p} ELSE online \ {p}
        /\ primary \in online' => UNCHANGED primary
        /\ primary \notin online' => primary' \in IF online' = {} THEN {NoPod} ELSE online'
        /\ rows' = rows \cup online'
        /\ UNCHANGED <<status, pod, pc, pass, crashes>>
    BY <1>4 DEF ProxyNotices
  <2>2. \A q \in Pods : Good(q) => Good(q)' BY <2>1 DEF Good, NotOffline, Serves
  <2>3. Eases BY <2>1, <2>2 DEF Eases, Sound, Unsure, Up, Serves
  <2>4. PrimaryGood => PrimaryGood' /\ UNCHANGED primary
    <3>1. SUFFICES ASSUME PrimaryGood PROVE primary \in online'
      BY <2>1, <2>2 DEF PrimaryGood
    <3>2. primary \in online BY <3>1, SizeAssumption DEF PrimaryGood, SInv, Noticed, SizeAssumption, Pods
    <3>3. Serves(primary) BY <3>1 DEF PrimaryGood, Good
    <3>4. QED BY <2>1, <3>2, <3>3
  <2>5. pc \in {"restart", "sync", "online"} /\ Expected => Expected'
    BY <2>1 DEF Expected, Unsure, Sound, Up, Serves
  <2>6. NoneDying => NoneDying' BY <2>1 DEF NoneDying
  <2>7. Headed => Headed'
    <3>1. SUFFICES ASSUME primary = NoPod, NoneDying PROVE Headed'
      BY <2>4 DEF Headed
    <3>2. primary \notin Pods BY <3>1, SizeAssumption DEF SizeAssumption, Pods
    <3>3. online = {} BY <1>0, <3>2 DEF SInv, Noticed
    <3>4. CASE Serves(p)
      <4>1. online' = {p} /\ primary' = p BY <1>0, <2>1, <3>2, <3>3, <3>4
      <4>2. Good(p)' BY <2>1, <2>6, <3>1, <3>4, <4>1 DEF Good, NotOffline, NoneDying, Serves
      <4>3. QED BY <4>1, <4>2 DEF Headed, PrimaryGood, Good, NotOffline, Serves
    <3>5. CASE ~Serves(p)
      <4>1. online' = {} /\ primary' = NoPod BY <2>1, <3>2, <3>3, <3>5
      <4>2. QED BY <2>6, <3>1, <4>1 DEF Headed
    <3>6. QED BY <3>4, <3>5
  <2>8. QED BY <2>1, <2>3, <2>4, <2>5, <2>6, <2>7, EasedServed
<1>5. ASSUME NEW p \in Pods, ProxyDrops(p) PROVE Served'
  <2>1. rows' = rows \ {p} /\ UNCHANGED <<status, pod, primary, online, pc, pass, crashes>>
    BY <1>5 DEF ProxyDrops
  <2>2. \A q \in Pods : Good(q) => Good(q)' BY <2>1 DEF Good, NotOffline, Serves
  <2>3. Eases BY <2>1, <2>2 DEF Eases, Sound, Unsure, Up, Serves
  <2>4. PrimaryGood => PrimaryGood' /\ UNCHANGED primary
    BY <2>1, <2>2 DEF PrimaryGood, Good, NotOffline, Serves
  <2>5. Expected => Expected' BY <2>1 DEF Expected, Unsure, Sound, Up, Serves
  <2>6. NoneDying => NoneDying' BY <2>1 DEF NoneDying
  <2>7. Headed => Headed' BY <2>1, <2>4, <2>6 DEF Headed
  <2>8. QED BY <2>1, <2>3, <2>4, <2>5, <2>6, <2>7, EasedServed
<1>6. CASE StartBackup \/ EndBackup \/ Change \/ UNCHANGED vars
  <2>1. UNCHANGED <<status, pod, proxy, pc, pass, crashes>>
    BY <1>6 DEF StartBackup, EndBackup, Change, vars
  <2>2. Eases BY <2>1 DEF Eases, Sound, Good, NotOffline, Unsure, Up, Serves
  <2>3. PrimaryGood => PrimaryGood' /\ UNCHANGED primary
    BY <2>1, <2>2 DEF PrimaryGood, Eases
  <2>4. Expected => Expected' BY <2>1 DEF Expected, Unsure, Sound, Up, Serves
  <2>5. NoneDying => NoneDying' BY <2>1 DEF NoneDying
  <2>6. Headed => Headed' BY <2>1, <2>3, <2>5 DEF Headed
  <2>7. QED BY <2>1, <2>2, <2>3, <2>4, <2>5, <2>6, EasedServed
<1>7. CASE Restart
  <2>1. Within(crashes) /\ pc' = "idle" /\ UNCHANGED <<pod, proxy, crashes>>
    BY <1>7 DEF Restart, Goto, SInv, Served
  <2>2. QED BY <2>1, Ended
<1>8. ~Switch /\ \A p \in Pods : ~PodFails(p)
  BY <1>0 DEF Switch, PodFails
<1>9. QED BY <1>1, <1>2, <1>3, <1>4, <1>6, <1>7, <1>8, <1>5 DEF Environment

\* A pass goes on when the status shows every pod ready, and then finds out which
\* pods there are and which of them takes the writes.
LEMMA EarlyServed ==
    ASSUME SInv, Guarded, ~CallFails, UNCHANGED crashes,
           Begin \/ Apply \/ CheckBackup \/ ListPods \/ FindPrimary
    PROVE  Served'
<1> USE DEF cluster, proxy, pass, Goto
<1>0. crashes \in Int BY DEF SInv, Recorded
<1>1. ASSUME UNCHANGED <<pod, proxy>>
      PROVE  /\ Lost' = Lost /\ Away' = Away /\ PrimaryGood' = PrimaryGood
             /\ NoneDying' = NoneDying /\ Headed' = Headed
             /\ Within(crashes)' = Within(crashes) /\ Within(crashes + 1)' = Within(crashes + 1)
  <2>1. \A q \in Pods : Sound(q)' = Sound(q) /\ Good(q)' = Good(q)
    BY <1>1 DEF Sound, Good, NotOffline, Up, Serves
  <2>2. Lost' = Lost /\ Away' = Away BY <2>1 DEF Lost, Away
  <2>3. PrimaryGood' = PrimaryGood BY <1>1, <2>1 DEF PrimaryGood
  <2>4. NoneDying' = NoneDying BY <1>1 DEF NoneDying
  <2>5. Headed' = Headed BY <1>1, <2>3, <2>4 DEF Headed
  <2>6. Within(crashes)' = Within(crashes) /\ Within(crashes + 1)' = Within(crashes + 1)
    BY <2>2, <2>5 DEF Within
  <2>7. QED BY <2>2, <2>3, <2>4, <2>5, <2>6
<1>2. UNCHANGED <<pod, proxy, status>>
  BY DEF Begin, Apply, CheckBackup, ListPods, FindPrimary, Call, Return
<1>3. CASE Begin \/ Apply \/ CheckBackup
  <2>1. pc \in {"idle", "apply", "backup"} BY <1>3 DEF Begin, Apply, CheckBackup, Call
  <2>2. \/ Within(crashes)
        \/ NoneDying /\ status.ready < status.replicas /\ Within(crashes + 1)
    BY <2>1 DEF SInv, Served
  <2>3. \/ pc' \in {"idle", "apply"}
        \/ pc' = "backup" /\ seen' = status
        \/ pc' = "list" /\ pc = "backup" /\ ~(seen.ready < seen.replicas)
    BY <1>3 DEF Begin, Apply, CheckBackup, Call, Return
  <2>4. pc' = "list" => Within(crashes)
    <3>1. pc = "backup" => Within(crashes) \/ seen.ready < seen.replicas BY DEF SInv, Served
    <3>2. QED BY <2>3, <3>1
  <2>5. QED BY <1>1, <1>2, <2>2, <2>3, <2>4 DEF Served, Replacing
<1>4. CASE ListPods
  <2>1. pc = "list" /\ pc' = "primary" /\ listed' = pod BY <1>4 DEF ListPods, Call
  <2>2. Within(crashes) BY <2>1 DEF SInv, Served
  <2>3. \A q \in Pods : Unsure(q)' => ~Sound(q)
    BY <1>2, <2>1 DEF Unsure, Sound, Up
  <2>4. Doubtful' \in SUBSET Lost BY <2>3 DEF Doubtful, Lost
  <2>5. (Doubtful \cup Away)' \in SUBSET Away
    BY <1>1, <1>2, <2>4, LostIsMissing
  <2>6. AtMost(Doubtful', crashes) BY <1>0, <2>2, <2>4, PodSets, Fewer DEF Within
  <2>7. Headed' \/ AtMost((Doubtful \cup Away)', crashes)
    BY <1>0, <1>1, <1>2, <2>2, <2>5, PodSets, Fewer DEF Within
  <2>8. QED BY <2>1, <2>6, <2>7 DEF Served, Replacing
<1>5. CASE FindPrimary
  <2> DEFINE found == {q \in Pods : listed[q].phase # "none"}
  <2>1. AtMost(Doubtful, crashes) /\ (Headed \/ AtMost(Doubtful \cup Away, crashes))
    BY <1>5 DEF FindPrimary, Call, SInv, Served
  <2>2. Doubtful \cup Away \in SUBSET Pods BY PodSets
  <2>3. CASE Return
    <3>1. Away \in SUBSET (Doubtful \cup Away) OBVIOUS
    <3>2. AtMost(Lost, crashes) BY <1>0, <2>1, PodSets, LostIsMissing, Fewer
    <3>3. Headed \/ AtMost(Away, crashes) BY <1>0, <2>1, <2>2, <3>1, Fewer
    <3>4. Within(crashes) BY <3>2, <3>3 DEF Within
    <3>5. QED BY <1>2, <2>3, <3>4, Ended DEF Return
  <2>4. CASE ~Return
    <3>1. /\ main' = primary /\ primary # NoPod /\ pc' = "next" /\ UNCHANGED listed
          /\ todo' = UpdateOrder(found, primary)
      BY <1>5, <2>4 DEF FindPrimary, Call, Answers
    <3>2. PICK host \in Pods, F \in SUBSET Pods : host = primary /\ F = found
      <4>1. primary \in Pods BY <3>1 DEF SInv, IInv, Typed, Names
      <4>2. found \in SUBSET Pods OBVIOUS
      <4>3. QED BY <4>1, <4>2
    <3>3. \A q \in found : \E i \in 1 .. Len(todo') : todo'[i] = q
      <4>1. todo' = UpdateOrder(F, host) BY <3>1, <3>2
      <4> HIDE DEF found
      <4>2. \A q \in F : \E i \in 1 .. Len(UpdateOrder(F, host)) : UpdateOrder(F, host)[i] = q
        BY OrderOf
      <4>3. QED BY <3>2, <4>1, <4>2
    <3>4. \A q \in Pods : Unsure(q)' = Unsure(q) /\ Good(q)' = Good(q)
      BY <1>2, <1>5, <3>1 DEF FindPrimary, Call, Unsure, Good, NotOffline, Sound, Up, Serves
    <3>5. \A q \in Pods : ~Waits(q)' => Unsure(q)
      BY <3>3 DEF Waits, Unsure
    <3>6. Missing' \in SUBSET Doubtful BY <3>4, <3>5 DEF Missing, Doubtful
    <3>7. AtRisk' \in SUBSET (Doubtful \cup Away) BY <3>4 DEF AtRisk, Doubtful, Away
    <3>8. CASE PrimaryGood
      <4>1. AtMost(Missing', crashes) BY <1>0, <2>1, <3>6, PodSets, Fewer
      <4>2. PrimaryGood' /\ primary' = main' BY <1>1, <1>2, <3>1, <3>8
      <4>3. QED BY <3>1, <4>1, <4>2 DEF Served, Handling, Replacing
    <3>9. CASE ~PrimaryGood
      <4>0. ~Headed BY <3>1, <3>9 DEF Headed
      <4>1. AtMost(AtRisk', crashes) BY <1>0, <2>1, <2>2, <3>7, <4>0, Fewer
      <4>2. QED BY <3>1, <4>1 DEF Served, Handling, Replacing
    <3>10. QED BY <3>8, <3>9
  <2>5. QED BY <2>3, <2>4
<1>6. QED BY <1>3, <1>4, <1>5

\* When nobody is in hand, no more pods are missing than the operator has died.
LEMMA NothingInHand ==
    ASSUME SInv, Guarded, pc \in Replacing, pc = "next" \/ ~Expected
    PROVE  (AtMost(Missing, crashes) /\ PrimaryGood /\ primary = main) \/ AtMost(AtRisk, crashes)
BY DEF SInv, Served, Handling

\* The pod whose turn it is goes into the worker's hand.
LEMMA ReplaceServed ==
    ASSUME SInv, Guarded, ~CallFails, UNCHANGED crashes, ReplaceNext
    PROVE  Served'
<1> USE DEF cluster, proxy, pass
<1>0. crashes \in Int /\ pod \in [Pods -> PodStates] /\ todo \in Seq(Names)
  BY DEF SInv, Recorded, IInv, Typed
<1>1. pc = "next" /\ pc \in Replacing /\ UNCHANGED proxy
  BY DEF ReplaceNext, Call, Replacing
<1>2. (AtMost(Missing, crashes) /\ PrimaryGood /\ primary = main) \/ AtMost(AtRisk, crashes)
  BY <1>1, NothingInHand
<1>3. CASE Return
  <2>1. Within(crashes) BY <1>0, <1>2, Enough
  <2>2. QED BY <1>1, <1>3, <2>1, Ended DEF Return, Goto
<1>4. CASE ~Return
  <2>1. PICK h \in Pods : h = Head(todo) /\ todo # <<>> /\ Replace(h)
    BY <1>4 DEF ReplaceNext, Call, SInv, IInv, Typed, Names
  <2>2. /\ pod' = [pod EXCEPT ![h].dying = pod[h].dying \/ listed[h].rev # seen.rev]
        /\ pc' = "restart" /\ UNCHANGED <<template, pass>>
    BY <1>4, <2>1 DEF Replace, Goto
  <2>3. /\ \A q \in Pods \ {h} : pod'[q] = pod[q]
        /\ pod'[h].phase = pod[h].phase /\ pod'[h].rev = pod[h].rev
        /\ pod'[h].dying <=> pod[h].dying \/ listed[h].rev # seen.rev
    BY <1>0, <2>2 DEF PodStates
  <2>4. h = Head(todo') /\ Waits(h)
    <3>1. 1 \in 1 .. Len(todo) /\ todo[1] = h BY <1>0, <2>1
    <3>2. QED BY <2>1, <2>2, <3>1 DEF Waits
  <2>5. \A q \in Pods : Waits(q)' = Waits(q) BY <2>2 DEF Waits
  <2>6. \A q \in Pods \ {h} : Unsure(q)' = Unsure(q) /\ Good(q)' = Good(q)
    BY <1>1, <2>2, <2>3 DEF Unsure, Good, NotOffline, Sound, Up, Serves
  <2>7. ~Unsure(h) => Expected'
    <3>1. ASSUME ~Unsure(h) PROVE Expected'
      <4>1. ~pod[h].dying /\ pod[h].phase # "none" /\ listed[h].rev = pod[h].rev
        BY <3>1 DEF Unsure, Sound, Up
      <4>2. QED BY <2>2, <2>3, <2>4, <4>1 DEF Expected
    <3>2. QED BY <3>1
  <2>8. Missing' \ {h} \in SUBSET Missing /\ AtRisk' \ {h} \in SUBSET AtRisk
    BY <2>5, <2>6 DEF Missing, AtRisk
  <2>9. Unsure(h) => h \in Missing /\ h \in AtRisk BY <2>4 DEF Missing, AtRisk
  <2>10. /\ AtMost(Missing, crashes) => Handling(Missing)'
         /\ AtMost(AtRisk, crashes) => Handling(AtRisk)'
    <3>1. CASE Unsure(h)
      <4>1. Missing' \in SUBSET Missing /\ AtRisk' \in SUBSET AtRisk
        <5>1. \A S, T : S \ {h} \in SUBSET T /\ h \in T => S \in SUBSET T OBVIOUS
        <5>2. QED BY <2>8, <2>9, <3>1, <5>1
      <4>2. /\ AtMost(Missing, crashes) => AtMost(Missing', crashes)
            /\ AtMost(AtRisk, crashes) => AtMost(AtRisk', crashes)
        BY <1>0, <4>1, PodSets, Fewer
      <4>3. QED BY <4>2 DEF Handling
    <3>2. CASE ~Unsure(h)
      <4>1. /\ AtMost(Missing, crashes) => AtMost(Missing' \ {h}, crashes)
            /\ AtMost(AtRisk, crashes) => AtMost(AtRisk' \ {h}, crashes)
        BY <1>0, <2>8, PodSets, Fewer
      <4>2. QED BY <2>2, <2>4, <2>7, <3>2, <4>1 DEF Handling
    <3>3. QED BY <3>1, <3>2
  <2>11. CASE h # main \/ ~PrimaryGood \/ primary # main
    <3>1. PrimaryGood /\ primary = main /\ h # main => PrimaryGood' /\ primary' = main'
      BY <1>1, <2>2, <2>6 DEF PrimaryGood
    <3>2. QED BY <1>2, <2>2, <2>10, <2>11, <3>1 DEF Served, Replacing
  <2>12. CASE h = main /\ PrimaryGood /\ primary = main
    <3>1. todo' = todo /\ Len(todo) = 1 /\ todo[1] = h
      <4>1. 1 \in 1 .. Len(todo) /\ todo[1] = h BY <1>0, <2>1
      <4>2. 1 = Len(todo) BY <1>1, <2>12, <4>1 DEF SInv, IInv, Ordered
      <4>3. QED BY <2>2, <4>1, <4>2
    <3>2. \A q \in Pods \ {h} : ~Waits(q) /\ ~Waits(q)' BY <3>1 DEF Waits
    <3>3. AtRisk' \ {h} \in SUBSET Missing BY <2>6, <3>2 DEF AtRisk, Missing
    <3>4. AtMost(Missing, crashes) => Handling(AtRisk)'
      <4>1. CASE Unsure(h)
        <5>1. AtRisk' \in SUBSET Missing
          <6>1. \A S, T : S \ {h} \in SUBSET T /\ h \in T => S \in SUBSET T OBVIOUS
          <6>2. QED BY <2>9, <3>3, <4>1, <6>1
        <5>2. AtMost(Missing, crashes) => AtMost(AtRisk', crashes) BY <1>0, <5>1, PodSets, Fewer
        <5>3. QED BY <5>2 DEF Handling
      <4>2. CASE ~Unsure(h)
        <5>1. AtMost(Missing, crashes) => AtMost(AtRisk' \ {h}, crashes)
          BY <1>0, <3>3, PodSets, Fewer
        <5>2. QED BY <2>2, <2>4, <2>7, <4>2, <5>1 DEF Handling
      <4>3. QED BY <4>1, <4>2
    <3>5. QED BY <1>2, <2>2, <2>10, <3>4 DEF Served, Replacing
  <2>13. QED BY <2>11, <2>12
<1>5. QED BY <1>3, <1>4

\* It stays there until its replacement is up, and the proxy uses it.
LEMMA AwaitServed ==
    ASSUME SInv, Guarded, ~CallFails, UNCHANGED crashes, Proxy = "proxysql",
           AwaitRestart \/ AwaitSync \/ AwaitOnline
    PROVE  Served'
<1> USE DEF cluster, proxy, pass, Goto
<1>0. crashes \in Int /\ listed \in [Pods -> PodStates] /\ todo \in Seq(Names)
  BY DEF SInv, Recorded, IInv, Typed
<1>1. pc \in Replacing /\ UNCHANGED <<pod, proxy>>
  BY DEF AwaitRestart, AwaitSync, AwaitOnline, Call, Return, Replacing
<1>2. PICK h \in Pods : h = Head(todo) /\ todo # <<>>
  BY DEF AwaitRestart, AwaitSync, AwaitOnline, Call, SInv, IInv, Typed
<1>3. \A q \in Pods : Sound(q)' = Sound(q) /\ Good(q)' = Good(q)
  BY <1>1 DEF Sound, Good, NotOffline, Up, Serves
<1>4. PrimaryGood' = PrimaryGood BY <1>1, <1>3 DEF PrimaryGood
<1>5. (NoneDying => NoneDying') /\ (Headed => Headed')
  BY <1>1, <1>4 DEF NoneDying, Headed
<1>6. CASE AwaitRestart
  <2>1. /\ pc = "restart" /\ pc' = IF Restarted(Refreshed(h)) THEN "sync" ELSE "restart"
        /\ listed' = [listed EXCEPT ![h] = Refreshed(h)]
        /\ UNCHANGED <<status, seen, main, todo>>
    BY <1>2, <1>6 DEF AwaitRestart, Call
  <2>2. listed'[h] = Refreshed(h) /\ \A q \in Pods \ {h} : listed'[q] = listed[q]
    BY <1>0, <2>1
  <2>3. \A q \in Pods : Unsure(q)' => Unsure(q)
    <3>1. Sound(h) => ~Unsure(h)' BY <1>1, <2>1, <2>2 DEF Refreshed, Unsure, Sound, Up
    <3>2. \A q \in Pods \ {h} : Unsure(q)' = Unsure(q) BY <1>1, <2>1, <2>2 DEF Unsure, Sound, Up
    <3>3. QED BY <3>1, <3>2 DEF Unsure
  <2>4. Eases BY <1>3, <2>1, <2>3 DEF Eases
  <2>5. Expected => Expected'
    <3>1. SUFFICES ASSUME Expected PROVE Expected'
      OBVIOUS
    <3>2. /\ pod[h].phase = "none" \/ pod[h].dying => listed[h].rev # seen.rev
          /\ pod[h].dying => pod[h].rev # seen.rev
      BY <1>2, <2>1, <3>1 DEF Expected
    <3>3. pod[h].phase = "none" \/ pod[h].dying => Refreshed(h).rev # seen.rev
      BY <3>2 DEF Refreshed
    <3>4. CASE Restarted(Refreshed(h))
      <4>1. Sound(h) /\ Refreshed(h) = pod[h] BY <3>3, <3>4 DEF Restarted, Refreshed, Sound, Up
      <4>2. ~Unsure(h)' BY <1>1, <2>1, <2>2, <4>1 DEF Unsure, Sound, Up
      <4>3. ~Unsure(Head(todo))' BY <1>2, <2>1, <4>2 DEF Unsure, Sound, Up
      <4>4. QED BY <2>1, <3>4, <4>3 DEF Expected
    <3>5. CASE ~Restarted(Refreshed(h))
      BY <1>1, <1>2, <2>1, <2>2, <3>2, <3>3, <3>5 DEF Expected
    <3>6. QED BY <3>4, <3>5
  <2>6. QED BY <1>1, <1>4, <1>5, <2>1, <2>4, <2>5, EasedServed
<1>7. CASE AwaitSync
  <2>1. CASE Return
    <3>1. pc = "sync" /\ pc' = "idle" BY <1>7, <2>1 DEF AwaitSync, Call, Return
    <3>2. ~Up(h) BY <1>2, <1>7, <2>1 DEF AwaitSync, Call, Return
    <3>3. ~Expected BY <1>2, <3>1, <3>2 DEF Expected, Unsure, Sound
    <3>4. Within(crashes) BY <1>0, <1>1, <3>3, NothingInHand, Enough
    <3>5. QED BY <1>1, <3>1, <3>4, Ended
  <2>2. CASE ~Return
    <3>1. pc = "sync" /\ pc' = "online" /\ Serves(h) /\ UNCHANGED <<status, pass>>
      BY <1>2, <1>7, <2>2 DEF AwaitSync, Call
    <3>2. Eases BY <1>1, <1>2, <1>3, <3>1 DEF Eases, Unsure, Sound, Up, Serves
    <3>3. Expected => Expected' BY <1>1, <1>2, <3>1 DEF Expected, Unsure, Sound, Up, Serves
    <3>4. QED BY <1>1, <1>4, <1>5, <3>1, <3>2, <3>3, EasedServed
  <2>3. QED BY <2>1, <2>2
<1>8. CASE AwaitOnline
  <2>1. /\ pc = "online" /\ pc' = "next" /\ todo' = Tail(todo) /\ NotOffline(h)
        /\ UNCHANGED <<listed, main>>
    BY <1>2, <1>8 DEF AwaitOnline, Call
  <2>2. \A q \in Pods : Unsure(q)' => Unsure(q) BY <1>1, <2>1 DEF Unsure, Sound, Up, Serves
  <2>3. \A q \in Pods : Waits(q)' => Waits(q)
    <3>1. Len(todo) \in Nat /\ Len(todo') = Len(todo) - 1
          /\ \A i \in 1 .. Len(todo') : i + 1 \in 1 .. Len(todo) /\ todo'[i] = todo[i + 1]
      BY <1>0, <1>2, <2>1
    <3>2. QED BY <3>1 DEF Waits
  <2>4. \A q \in Pods \ {h} : Waits(q) => Waits(q)'
    <3>1. Len(todo) \in Nat /\ todo[1] = h
          /\ \A i \in 1 .. Len(todo) : i # 1 => i - 1 \in 1 .. Len(todo') /\ todo'[i - 1] = todo[i]
      BY <1>0, <1>2, <2>1
    <3>2. QED BY <3>1 DEF Waits
  <2>5. ~Unsure(h) => Good(h)
    BY <1>2, <2>1 DEF Unsure, Sound, Up, Good, NotOffline
  <2>6. ~Unsure(h) => h \notin Missing' /\ h \notin AtRisk'
    BY <1>3, <2>2, <2>5 DEF Missing, AtRisk
  <2>7. Missing' \ {h} \in SUBSET (Missing \ {h}) /\ AtRisk' \ {h} \in SUBSET (AtRisk \ {h})
    BY <1>3, <2>2, <2>3, <2>4 DEF Missing, AtRisk
  <2>8. Unsure(h) => h \in Missing /\ h \in AtRisk
    <3>1. Waits(h)
      <4>1. 1 \in 1 .. Len(todo) /\ todo[1] = h BY <1>0, <1>2
      <4>2. QED BY <4>1 DEF Waits
    <3>2. QED BY <3>1 DEF Missing, AtRisk
  <2>9. \A S, T \in SUBSET Pods :
           /\ T \ {h} \in SUBSET (S \ {h})
           /\ Unsure(h) => h \in S
           /\ ~Unsure(h) => h \notin T
           /\ Handling(S)
           => AtMost(T, crashes)
    <3>1. SUFFICES ASSUME NEW S \in SUBSET Pods, NEW T \in SUBSET Pods,
                          T \ {h} \in SUBSET (S \ {h}), Unsure(h) => h \in S,
                          ~Unsure(h) => h \notin T, Handling(S)
                   PROVE  AtMost(T, crashes)
      BY Zenon
    <3>2. T \in SUBSET S BY <3>1
    <3>3. CASE AtMost(S, crashes) BY <1>0, <3>2, <3>3, Fewer
    <3>4. CASE ~AtMost(S, crashes)
      <4>1. AtMost(S \ {h}, crashes) /\ Expected BY <1>2, <3>1, <3>4 DEF Handling
      <4>2. ~Unsure(h) BY <1>2, <2>1, <4>1 DEF Expected
      <4>3. T \in SUBSET (S \ {h}) /\ S \ {h} \in SUBSET Pods BY <3>1, <4>2
      <4>4. QED BY <1>0, <4>1, <4>3, Fewer
    <3>5. QED BY <3>3, <3>4
  <2>10. /\ Missing' \in SUBSET Pods /\ AtRisk' \in SUBSET Pods
         /\ Missing \in SUBSET Pods /\ AtRisk \in SUBSET Pods
    BY DEF Missing, AtRisk
  <2>11. /\ Handling(Missing) => AtMost(Missing', crashes)
         /\ Handling(AtRisk) => AtMost(AtRisk', crashes)
    BY <2>6, <2>7, <2>8, <2>9, <2>10
  <2>12. (Handling(Missing) /\ PrimaryGood /\ primary = main) \/ Handling(AtRisk)
    BY <1>1 DEF SInv, Served
  <2>13. QED BY <1>1, <1>4, <2>1, <2>11, <2>12 DEF Served, Handling, Replacing
<1>9. QED BY <1>6, <1>7, <1>8

\* A wait that runs out leaves the pod in hand, and the status says so until it is up.
LEMMA LimitServed ==
    ASSUME SInv, Guarded, UNCHANGED crashes, WaitLimit
    PROVE  Served'
<1> USE DEF cluster, proxy, pass
<1>1. /\ pc \in Replacing /\ NoneDying /\ pod = SyncedPods /\ status = StatusOf(pod)
      /\ pc' = "idle" /\ UNCHANGED <<pod, proxy, status>>
  BY DEF WaitLimit, Settled, NoneDying, Return, Goto, Replacing
<1>2. Within(crashes + 1) BY <1>1, InHand
<1>3. CASE \E q \in Pods : pod[q].phase = "starting"
  <2>1. status.ready < status.replicas BY <1>1, <1>3, StartingShows
  <2>2. \A q \in Pods : Sound(q)' = Sound(q) /\ Good(q)' = Good(q)
    BY <1>1 DEF Sound, Good, NotOffline, Up, Serves
  <2>3. Lost' = Lost /\ Away' = Away BY <2>2 DEF Lost, Away
  <2>4. Headed' = Headed BY <1>1, <2>2 DEF Headed, PrimaryGood, NoneDying
  <2>5. Within(crashes + 1)' BY <1>2, <2>3, <2>4 DEF Within
  <2>6. NoneDying' BY <1>1 DEF NoneDying
  <2>7. QED BY <1>1, <2>1, <2>5, <2>6 DEF Served, Replacing
<1>4. CASE \A q \in Pods : pod[q].phase # "starting"
  <2>1. \A q \in Pods : SyncedPods[q].phase # "starting" BY <1>1, <1>4
  <2>2. Within(crashes) BY <1>1, <1>2, <2>1, Rested DEF Guarded
  <2>3. QED BY <1>1, <2>2, Ended
<1>5. QED BY <1>3, <1>4

\* So does the operator when it dies.
LEMMA CrashServed ==
    ASSUME SInv, Guarded, Crash
    PROVE  Served'
<1> USE DEF cluster, proxy
<1>1. crashes \in Int /\ crashes + 1 \in Int BY DEF SInv, Recorded
<1>2. /\ crashes' = crashes + 1 /\ pc' = "down" /\ UNCHANGED <<pod, proxy>>
      /\ pc \notin {"idle", "down"}
  BY DEF Crash
<1>3. Served' \/ Within(crashes + 1)
  <2>1. CASE pc \in {"apply", "backup", "list"}
    <3>1. Within(crashes) \/ Within(crashes + 1) BY <2>1 DEF SInv, Served
    <3>2. QED BY <1>1, <3>1, WithinMore
  <2>2. CASE pc = "primary"
    <3>1. AtMost(Doubtful, crashes) /\ (Headed \/ AtMost(Doubtful \cup Away, crashes))
      BY <2>2 DEF SInv, Served
    <3>2. Doubtful \cup Away \in SUBSET Pods /\ Away \in SUBSET (Doubtful \cup Away) BY PodSets
    <3>3. AtMost(Lost, crashes) BY <1>1, <3>1, PodSets, LostIsMissing, Fewer
    <3>4. Headed \/ AtMost(Away, crashes) BY <1>1, <3>1, <3>2, Fewer
    <3>5. Within(crashes) BY <3>3, <3>4 DEF Within
    <3>6. QED BY <1>1, <3>5, WithinMore
  <2>3. CASE pc \in Replacing BY <2>3, InHand
  <2>4. QED BY <1>2, <2>1, <2>2, <2>3 DEF SInv, Steps, Replacing
<1>4. QED BY <1>2, <1>3, Ended

LEMMA AtAStep == pc \in Steps /\ [Next]_vars => pc' \in Steps
<1> USE DEF Steps, Goto, Return, CallFails, Call
<1>1. ASSUME Begin \/ Apply \/ CheckBackup \/ ListPods \/ FindPrimary PROVE pc' \in Steps
  BY <1>1 DEF Begin, Apply, CheckBackup, ListPods, FindPrimary
<1>2. ASSUME ReplaceNext \/ AwaitRestart \/ AwaitSync \/ AwaitOnline \/ WaitLimit PROVE pc' \in Steps
  BY <1>2 DEF ReplaceNext, Replace, AwaitRestart, AwaitSync, AwaitOnline, WaitLimit
<1>3. ASSUME pc \in Steps, Environment \/ UNCHANGED vars PROVE pc' \in Steps
  BY <1>3 DEF Environment, SyncStatefulSet, Switch, StartBackup, EndBackup, Change, Crash,
     Restart, PodAdvances, PodGone, PodFails, ProxyNotices, ProxyDrops, vars
<1>4. QED BY <1>1, <1>2, <1>3 DEF Next, Worker

LEMMA SInvStep == Proxy = "proxysql" /\ SInv /\ [Next]_vars => SInv'
<1> SUFFICES ASSUME Proxy = "proxysql", SInv, [Next]_vars PROVE SInv'
  OBVIOUS
<1>1. IInv' /\ Recorded' /\ pc' \in Steps /\ Noticed'
  BY IInvStep, StaysCalm, AtAStep, NoticedStep DEF SInv
<1>2. Served'
  <2>1. SUFFICES ASSUME Guarded' PROVE Served'
    BY DEF Served
  <2>2. Guarded /\ UNCHANGED <<failures, errors, switches>> BY <2>1, StaysGuarded DEF SInv
  <2>3. CASE Crash BY <2>2, <2>3, CrashServed
  <2>4. CASE (Environment \/ UNCHANGED vars) /\ ~Crash BY <2>2, <2>4, EnvironmentServed
  <2>5. CASE Worker \/ WaitLimit
    <3>1. ~CallFails BY <2>2 DEF CallFails, SInv, Recorded
    <3>2. UNCHANGED crashes
      BY <2>5, <3>1 DEF Worker, Begin, Apply, CheckBackup, ListPods, FindPrimary, ReplaceNext,
         Replace, AwaitRestart, AwaitSync, AwaitOnline, WaitLimit, Call, Return, Goto, mishaps
    <3>3. QED BY <2>2, <2>5, <3>1, <3>2, EarlyServed, ReplaceServed, AwaitServed, LimitServed
              DEF Worker
  <2>6. QED BY <2>3, <2>4, <2>5 DEF Next
<1>3. QED BY <1>1, <1>2 DEF SInv

LEMMA SInvInit == Init => SInv
<1> SUFFICES ASSUME Init PROVE SInv
  OBVIOUS
<1>1. \A q \in Pods : pod[q].phase = "synced" /\ ~pod[q].dying BY DEF Init
<1>2. online = Pods /\ primary \in Pods /\ pc = "idle" /\ crashes = 0 BY DEF Init
<1>3. Noticed BY <1>1, <1>2 DEF Noticed, Serves
<1>4. \A q \in Pods : Sound(q) /\ Good(q) BY <1>1, <1>2 DEF Sound, Good, NotOffline, Up, Serves
<1>5. Lost = {} BY <1>4 DEF Lost
<1>6. AtMost(Lost, 0) BY <1>5, FS_EmptySet DEF AtMost
<1>7. PrimaryGood BY <1>2, <1>4 DEF PrimaryGood
<1>8. Within(crashes) BY <1>2, <1>6, <1>7 DEF Within, Headed
<1>9. Served BY <1>2, <1>8 DEF Served, Replacing
<1>10. QED BY <1>2, <1>3, <1>9, IInvInit, OneByOneInit DEF SInv, Steps

\* When the worker deletes a pod another one serves.
LEMMA AnotherServes ==
    ASSUME SInv, [Next]_vars, NEW p \in Pods, Deletes(p), Guarded
    PROVE  \E q \in Pods \ {p} : NotOffline(q) /\ Serves(q)
<1>1. pc = "next" /\ todo # <<>> /\ Head(todo) = p BY DeletedInTurn DEF SInv, Deletes
<1>2. (AtMost(Missing, crashes) /\ PrimaryGood /\ primary = main) \/ AtMost(AtRisk, crashes)
  BY <1>1, NothingInHand DEF Replacing
<1>3. crashes \in Int /\ crashes + 1 < Size BY DEF SInv, Recorded, Guarded
<1>4. CASE AtMost(AtRisk, crashes)
  <2>1. PICK q \in Pods \ {p} : q \notin AtRisk BY <1>3, <1>4, PodSets, RoomBeside
  <2>2. QED BY <2>1 DEF AtRisk, Good, NotOffline
<1>5. CASE PrimaryGood /\ primary # p
  BY <1>5 DEF PrimaryGood, Good, NotOffline
<1>6. CASE AtMost(Missing, crashes) /\ main = p
  <2>1. todo \in Seq(Names) BY DEF SInv, IInv, Typed
  <2>2. 1 \in 1 .. Len(todo) /\ todo[1] = p BY <1>1, <2>1
  <2>3. 1 = Len(todo) BY <1>1, <1>6, <2>2 DEF SInv, IInv, Ordered, Replacing
  <2>4. PICK q \in Pods \ {p} : q \notin Missing BY <1>3, <1>6, PodSets, RoomBeside
  <2>5. ~Waits(q)
    <3>1. \A i \in 1 .. 1 : i = 1 OBVIOUS
    <3>2. QED BY <2>2, <2>3, <2>4, <3>1 DEF Waits
  <2>6. QED BY <2>4, <2>5 DEF Missing, Good, NotOffline
<1>7. QED BY <1>2, <1>4, <1>5, <1>6

\* Behind ProxySQL the service survives the smart update (applyNWait, waitUntilOnline):
\* when the worker deletes a pod there is another that serves and that ProxySQL does
\* not hold for offline, whether or not ProxySQL drops nodes from its table, for any
\* number of pods, changes of the template, backups and waits that run out, and any
\* number of deaths of the operator below that of the other pods.
THEOREM ServiceAlwaysUp == Spec => ServiceStaysUp
<1> DEFINE Another ==
      \A p \in Pods :
         Deletes(p) /\ Proxy = "proxysql" /\ Undisturbed /\ crashes + 1 < Size =>
           \E q \in Pods \ {p} : NotOffline(q) /\ Serves(q)
<1>1. CASE Proxy = "proxysql"
  <2>1. Init => SInv BY SInvInit
  <2>2. SInv /\ [Next]_vars => SInv' BY <1>1, SInvStep
  <2>3. SInv /\ [Next]_vars => [Another]_vars BY AnotherServes DEF Guarded
  <2>4. QED BY <2>1, <2>2, <2>3, PTL DEF Spec, ServiceStaysUp
<1>2. CASE Proxy # "proxysql"
  <2>1. [Next]_vars => [Another]_vars BY <1>2
  <2>2. QED BY <2>1, PTL DEF Spec, ServiceStaysUp
<1>3. QED BY <1>1, <1>2
=============================================================================
