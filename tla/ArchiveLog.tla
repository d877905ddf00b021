------------------------------ MODULE ArchiveLog ------------------------------
(****************************************************************************)
(* What the archive of binlogs promises whoever recovers from it, without   *)
(* the nodes, rounds and writes behind it: it is a piece of the cluster's   *)
(* history that only grows, each time by transactions that committed and    *)
(* that follow on, precede or overlap what is there.  It begins where the   *)
(* history does, unless a node may have lost its first binlogs.             *)
(****************************************************************************)
EXTENDS Integers

CONSTANT MayBeginLate

VARIABLES
    committed,  \* transactions committed so far, by number
    log         \* those that are archived

vars == <<committed, log>>

TypeOK ==
    /\ committed \in Nat
    /\ log \subseteq 1 .. committed

Init ==
    /\ committed = 0
    /\ log = {}

Commit ==
    /\ committed' = committed + 1
    /\ UNCHANGED log

\* Transactions a to b are archived, some of them perhaps again.
Append ==
    \E a \in 1 .. committed : \E b \in a .. committed :
        /\ log = {} => MayBeginLate \/ a = 1
        /\ log # {} => log \cap (a - 1 .. b + 1) # {}
        /\ log' = log \cup a .. b
        /\ UNCHANGED committed

Next == Commit \/ Append

Spec == Init /\ [][Next]_vars
=============================================================================
