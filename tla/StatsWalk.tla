----------------------------- MODULE StatsWalk ------------------------------
(* The STATS command of clamd: thrmgr_printstats walks the queues and the   *)
(* list of task descriptions of a pool while workers start, take jobs and   *)
(* quit (thrmgr.c).  Two locks: pool_mutex protects the queues and the list *)
(* against other workers; pools_lock is held by STATS, and taken by a       *)
(* worker that unlinks its description, inside pool_mutex.                  *)
EXTENDS Naturals, Sequences, SequencesExt

CONSTANTS Threads, Items, None

ASSUME StatsAssumption == None \notin Threads \cup Items

VARIABLES
  queue,        \* the queued items, oldest first
  pc,           \* [Threads -> place]
  live,         \* threads that have a task description
  tasks, nxt, prv,  \* the list of descriptions
  pool_mutex,   \* held by a worker that waits for pools_lock, or None
  pools_lock,   \* the thread that holds it, or None
  q, cnt,       \* print_queue: item about to be read, items counted
  task,         \* thrmgr_printstats: description about to be read
  present, shown,   \* descriptions in the list when STATS began, and printed
  agreed        \* whether the last print_queue counted item_count items

vars == <<queue, pc, live, tasks, nxt, prv, pool_mutex, pools_lock, q, cnt, task, present, shown, agreed>>
walk == <<pools_lock, q, cnt, task, present, shown, agreed>>
list == <<live, tasks, nxt, prv>>

Init ==
  /\ queue = <<>>
  /\ pc = [t \in Threads |-> "off"]
  /\ live = {} /\ tasks = None
  /\ nxt = [t \in Threads |-> None] /\ prv = [t \in Threads |-> None]
  /\ pool_mutex = None /\ pools_lock = None
  /\ q = None /\ cnt = 0 /\ task = None
  /\ present = {} /\ shown = {} /\ agreed = TRUE
-----------------------------------------------------------------------------
At(c) == {t \in Threads : pc[t] = c}

(* thrmgr_dispatch: the item is queued, and a thread started for it when    *)
(* too few are idle.                                                        *)
Add(i) ==
  /\ pool_mutex = None /\ i \notin ToSet(queue)
  /\ queue' = Append(queue, i)
  /\ IF Cardinality(At("look")) <= Len(queue) /\ At("off") # {}
     THEN \E t \in At("off") : pc' = [pc EXCEPT ![t] = "new"]
     ELSE UNCHANGED pc
  /\ UNCHANGED <<pool_mutex, list, walk>>

(* stats_init, at the head of the list and without pools_lock; when calloc  *)
(* fails the thread has no description.                                     *)
Link(t) ==
  /\ live' = live \cup {t}
  /\ nxt' = [nxt EXCEPT ![t] = tasks]
  /\ prv' = [u \in Threads |-> CASE u = tasks -> t [] u = t -> None [] OTHER -> prv[u]]
  /\ tasks' = t

Enter(t) ==
  /\ pc[t] = "new" /\ pool_mutex = None
  /\ Link(t) \/ UNCHANGED list
  /\ pc' = [pc EXCEPT ![t] = "look"]
  /\ UNCHANGED <<queue, pool_mutex, walk>>

(* thrmgr_pop; the job is STATS or another command.                         *)
Take(t) ==
  /\ pc[t] = "look" /\ pool_mutex = None /\ queue # <<>>
  /\ queue' = Tail(queue)
  /\ \E c \in {"job", "stats"} : pc' = [pc EXCEPT ![t] = c]
  /\ UNCHANGED <<pool_mutex, list, walk>>

JobEnds(t) ==
  /\ pc[t] = "job"
  /\ pc' = [pc EXCEPT ![t] = "look"]
  /\ UNCHANGED <<queue, pool_mutex, list, walk>>

(* The idle timeout, or POOL_EXIT with an empty queue                       *)
Expire(t) ==
  /\ pc[t] = "look" /\ pool_mutex = None
  /\ pc' = [pc EXCEPT ![t] = "quit"]
  /\ UNCHANGED <<queue, pool_mutex, list, walk>>

Quit(t) ==
  /\ pc[t] = "quit" /\ pool_mutex = None
  /\ pool_mutex' = t
  /\ pc' = [pc EXCEPT ![t] = "destroy"]
  /\ UNCHANGED <<queue, list, walk>>

Unlink(t) ==
  /\ nxt' = [u \in Threads |-> IF u = prv[t] THEN nxt[t] ELSE IF u = t THEN None ELSE nxt[u]]
  /\ prv' = [u \in Threads |-> IF u = nxt[t] THEN prv[t] ELSE IF u = t THEN None ELSE prv[u]]
  /\ tasks' = IF tasks = t THEN nxt[t] ELSE tasks
  /\ live' = live \ {t}

(* Mutant: pools_lock is not taken. *)
DestroyUnlocked(t) ==
  /\ pc[t] = "destroy"
  /\ IF t \in live THEN Unlink(t) ELSE UNCHANGED list
  /\ pool_mutex' = None
  /\ pc' = [pc EXCEPT ![t] = "off"]
  /\ UNCHANGED <<queue, walk>>

(* stats_destroy                                                            *)
Destroy(t) ==
  /\ pc[t] = "destroy"
  /\ IF t \in live THEN pools_lock = None /\ Unlink(t) ELSE UNCHANGED list
  /\ pool_mutex' = None
  /\ pc' = [pc EXCEPT ![t] = "off"]
  /\ UNCHANGED <<queue, walk>>
-----------------------------------------------------------------------------
(* thrmgr_printstats, up to the head of the queue                           *)
StatsBegin(t) ==
  /\ pc[t] = "stats" /\ pools_lock = None
  /\ pools_lock' = t
  /\ q' = (IF queue = <<>> THEN None ELSE Head(queue)) /\ cnt' = 0
  /\ present' = live /\ shown' = {}
  /\ pc' = [pc EXCEPT ![t] = "items"]
  /\ UNCHANGED <<queue, pool_mutex, list, task, agreed>>

(* q->next: of an item that was popped meanwhile, anything.  A walk that    *)
(* strays is taken to end after MaxCount items.                             *)
MaxCount == Cardinality(Items) + 1

NextItem(i) ==
  LET k == CHOOSE k \in 1..Len(queue) : queue[k] = i
  IN  IF i \notin ToSet(queue) THEN Items \cup {None}
      ELSE IF k = Len(queue) THEN {None} ELSE {queue[k + 1]}

StatsItem(t) ==
  /\ pc[t] = "items" /\ q # None
  /\ cnt' = cnt + 1
  /\ q' \in (IF cnt = MaxCount THEN {None} ELSE NextItem(q))
  /\ UNCHANGED <<queue, pc, pool_mutex, list, pools_lock, task, present, shown, agreed>>

(* The count is compared with item_count, and the list of tasks begun.      *)
StatsItemsEnd(t) ==
  /\ pc[t] = "items" /\ q = None
  /\ agreed' = (cnt = 0 \/ cnt = Len(queue))
  /\ cnt' = 0
  /\ task' = tasks
  /\ pc' = [pc EXCEPT ![t] = "tasks"]
  /\ UNCHANGED <<queue, pool_mutex, list, pools_lock, q, present, shown>>

StatsTask(t) ==
  /\ pc[t] = "tasks" /\ task # None
  /\ shown' = shown \cup {task}
  /\ task' = nxt[task]
  /\ UNCHANGED <<queue, pc, pool_mutex, list, pools_lock, q, cnt, present, agreed>>

(* Mutant: the lock is kept. *)
StatsEndLocked(t) ==
  /\ pc[t] = "tasks" /\ task = None
  /\ present' = {} /\ shown' = {}
  /\ pc' = [pc EXCEPT ![t] = "look"]
  /\ UNCHANGED <<queue, pool_mutex, list, pools_lock, q, cnt, task, agreed>>

StatsEnd(t) ==
  /\ pc[t] = "tasks" /\ task = None
  /\ pools_lock' = None
  /\ present' = {} /\ shown' = {}
  /\ pc' = [pc EXCEPT ![t] = "look"]
  /\ UNCHANGED <<queue, pool_mutex, list, q, cnt, task, agreed>>
-----------------------------------------------------------------------------
Walk(t) == StatsBegin(t) \/ StatsItem(t) \/ StatsItemsEnd(t) \/ StatsTask(t) \/ StatsEnd(t)

Next ==
  \/ \E i \in Items : Add(i)
  \/ \E t \in Threads :
       \/ Enter(t) \/ Take(t) \/ JobEnds(t) \/ Expire(t) \/ Quit(t) \/ Destroy(t)
       \/ Walk(t)

Spec == Init /\ [][Next]_vars

(* Threads run; a mutex that is released again and again is got at some     *)
(* time.                                                                    *)
FairSpec ==
  /\ Spec
  /\ \A t \in Threads : WF_vars(Walk(t)) /\ SF_vars(Destroy(t))
-----------------------------------------------------------------------------
TypeOK ==
  /\ queue \in Seq(Items) /\ IsInjective(queue)
  /\ pc \in [Threads -> {"off", "new", "look", "job", "stats", "items", "tasks", "quit", "destroy"}]
  /\ live \subseteq {t \in Threads : pc[t] \notin {"off", "new"}}
  /\ tasks \in live \cup {None}
  /\ pool_mutex \in {None} \cup {t \in Threads : pc[t] = "destroy"}
  /\ pools_lock \in {None} \cup {t \in Threads : pc[t] \in {"items", "tasks"}}
  /\ q \in Items \cup {None} /\ cnt \in Nat

(* The list of descriptions holds each one once, linked both ways.          *)
ListSound ==
  \E s \in SetToSeqs(live) :
    /\ tasks = (IF s = <<>> THEN None ELSE s[1])
    /\ \A k \in DOMAIN s :
         /\ nxt[s[k]] = (IF k = Len(s) THEN None ELSE s[k + 1])
         /\ prv[s[k]] = (IF k = 1 THEN None ELSE s[k - 1])

(* Whatever the order in which threads start and quit, the list stays       *)
(* sound, STATS reads next the description of a thread that has not quit    *)
(* ("now we can access desc->, knowing that they won't get freed"), and it  *)
(* shows every thread that was there when it began.                         *)
WalkSound ==
  /\ TypeOK /\ ListSound
  /\ task # None => task \in live
  /\ \A t \in Threads : pc[t] = "tasks" /\ task = None => present \subseteq shown

(* print_queue reports an ERROR when it counts other than item_count items. *)
QueueCounted == agreed

(* A thread that quits gets both locks and ends, STATS or not.              *)
QuitEnds == \A t \in Threads : pc[t] = "destroy" ~> pc[t] = "off"
=============================================================================
