------------------------------ MODULE JobService ------------------------------
(***************************************************************************)
(* What the pool of clamd/thrmgr.c promises to those who dispatch to it: a *)
(* job is accepted at most once and only while fewer than Capacity jobs    *)
(* wait or run, with at most BulkShare bulk jobs waiting; jobs of one kind *)
(* start in the order they were accepted; a started job ends once.         *)
(***************************************************************************)
EXTENDS Integers, Sequences, FiniteSets

CONSTANTS Task, BulkTask, Capacity, BulkShare

VARIABLES waiting, running, finished

svars == <<waiting, running, finished>>

QueueKind == {"single", "bulk"}
KindOf(j) == IF j \in BulkTask THEN "bulk" ELSE "single"
Elements(s) == {s[i] : i \in DOMAIN s}
Known == Elements(waiting["single"]) \cup Elements(waiting["bulk"]) \cup running
         \cup finished

SInit ==
    /\ waiting = [k \in QueueKind |-> <<>>]
    /\ running = {}
    /\ finished = {}

Accept(j) ==
    /\ j \in Task \ Known
    /\ Len(waiting["single"]) + Len(waiting["bulk"]) + Cardinality(running) < Capacity
    /\ KindOf(j) = "bulk" => Len(waiting["bulk"]) < BulkShare
    /\ waiting' = [waiting EXCEPT ![KindOf(j)] = Append(@, j)]
    /\ UNCHANGED <<running, finished>>

Start(k) ==
    /\ waiting[k] # <<>>
    /\ waiting' = [waiting EXCEPT ![k] = Tail(@)]
    /\ running' = running \cup {Head(waiting[k])}
    /\ UNCHANGED finished

End(j) ==
    /\ j \in running
    /\ running' = running \ {j}
    /\ finished' = finished \cup {j}
    /\ UNCHANGED waiting

SNext == \/ \E j \in Task : Accept(j) \/ End(j)
         \/ \E k \in QueueKind : Start(k)

SSpec == SInit /\ [][SNext]_svars
=============================================================================
