------------------------------ MODULE ThreadPool ------------------------------
(***************************************************************************)
(* The worker pool of clamd (clamd/thrmgr.c, clamd/thrmgr.h): two FIFO     *)
(* queues, workers that are created on demand and leave after an idle      *)
(* timeout, dispatchers that sleep while the queue is contended, and the   *)
(* destruction of the pool.  The handler of a MULTISCAN command, which     *)
(* dispatches one bulk job per file from inside a worker and then waits    *)
(* for them (clamd/session.c, clamd/scanner.c), is part of the module: it  *)
(* is what makes a worker a dispatcher.                                    *)
(*                                                                         *)
(* Everything the code does between locking and releasing (or waiting      *)
(* with) pool_mutex is one action.  A condition variable is the set of     *)
(* threads whose pc says that they sleep on it.                            *)
(***************************************************************************)
EXTENDS Integers, Sequences, FiniteSets

CONSTANTS
    Worker,       \* thread slots of the pool; thr_max is their number
    Main,         \* the receive loop: dispatches commands, destroys the pool
    SingleJob,    \* commands sent with bulk = 0
    BulkJob,      \* commands of a session, sent with bulk = 1
    MultiJob,     \* the MULTISCAN commands among SingleJob
    Files,        \* Files[m]: the MULTISCANFILE jobs of command m
    QueueMax,     \* threadpool->queue_max
    RATIO,        \* SINGLE_BULK_RATIO, 4 in the code
    ExitOnOOM,    \* the option of that name
    Faults,       \* what the environment may do: see FaultKind
    NoJob         \* job_data == NULL

FaultKind == {"malloc", "create", "timeout", "spurious", "disconnect"}
FileJob == UNION {Files[m] : m \in MultiJob}
Job == SingleJob \cup BulkJob \cup FileJob
Thread == Worker \cup {Main}

ASSUME PoolAssumption ==
    /\ IsFiniteSet(Worker) /\ Worker # {}
    /\ Main \notin Worker
    /\ QueueMax \in Nat
    /\ RATIO \in Nat \ {0}
    /\ ExitOnOOM \in BOOLEAN
    /\ MultiJob \subseteq SingleJob
    /\ DOMAIN Files = MultiJob
    /\ NoJob \notin Job
    /\ Faults \subseteq FaultKind

ASSUME JobAssumption ==
    /\ SingleJob \cap BulkJob = {}
    /\ FileJob \cap (SingleJob \cup BulkJob) = {}
    /\ \A m, n \in MultiJob : m # n => Files[m] \cap Files[n] = {}

VARIABLES
    state,         \* threadpool->state, and "FREED" once it is deallocated
    thr_alive,     \* threadpool->thr_alive
    thr_idle,      \* threadpool->thr_idle
    thr_multiscan, \* threadpool->thr_multiscan
    queue,         \* single_queue and bulk_queue: their work_item data
    popped,        \* work_queue_t.popped of both queues
    streak,        \* history: pops in a row from a queue while the other waits
    pc,            \* where each thread is
    job,           \* job_data of a worker, NoJob when it has none
    pend,          \* user_data of a dispatcher asleep in dispatch_internal
    fresh,         \* jobs nobody has tried to dispatch yet
    jobs,          \* group->jobs of the group of each MULTISCAN command
    progexit,      \* the global exit flag
    done           \* jobs whose handler returned

queues == <<queue, popped, streak>>
counters == <<thr_alive, thr_idle, thr_multiscan>>
vars == <<state, thr_alive, thr_idle, thr_multiscan, queue, popped, streak,
          pc, job, pend, fresh, jobs, progexit, done>>

(***************************************************************************)
(* pc of a worker:  none (no thread in the slot), top (before the lock at  *)
(* the top of the loop), pool_wait/pool_woken/pool_timedout (in            *)
(* pthread_cond_timedwait on pool_cond, or back from it and wanting the    *)
(* mutex), run (in the handler), walk (control thread of a MULTISCAN, at   *)
(* the top of scan_callback or done with the tree), file (past the checks  *)
(* of scan_callback, about to dispatch), queue_wait/queue_woken (asleep on *)
(* or back from a queueable condition), failed (the walk met CL_EMEM),     *)
(* waitall (thrmgr_group_waitforall), ended (before thr_multiscan--),      *)
(* leave (out of the loop, before thr_alive--).                            *)
(* pc of Main: ready, queue_wait, queue_woken, destroy_wait,               *)
(* destroy_woken, gone.                                                    *)
(***************************************************************************)
WorkerPC == {"none", "top", "pool_wait", "pool_woken", "pool_timedout", "run",
             "walk", "file", "queue_wait", "queue_woken", "failed", "waitall",
             "ended", "leave"}
MainPC == {"ready", "queue_wait", "queue_woken", "destroy_wait",
           "destroy_woken", "gone"}

thr_max == Cardinality(Worker)
IdlePC == {"pool_wait", "pool_woken", "pool_timedout"}
ControlPC == {"walk", "file", "queue_wait", "queue_woken", "failed", "waitall",
              "ended"}
Alive == {w \in Worker : pc[w] # "none"}
Idle == {w \in Worker : pc[w] \in IdlePC}
Control == {w \in Worker : pc[w] \in ControlPC}
QueueKind == {"single", "bulk"}
Kind(j) == IF j \in SingleJob THEN "single" ELSE "bulk"
Items(q) == Len(q["single"]) + Len(q["bulk"])

-----------------------------------------------------------------------------
(* Conditions: pthread_cond_signal wakes one sleeper if there is one.      *)

Waken(c) == CASE c = "pool_wait" -> "pool_woken"
              [] c = "destroy_wait" -> "destroy_woken"
              [] c = "queue_wait" -> "queue_woken"
              [] OTHER -> c

PoolWaiters(p) == {t \in Thread : p[t] \in {"pool_wait", "destroy_wait"}}
QueueWaiters(p, kind) == {t \in Thread : p[t] = "queue_wait"
                                         /\ Kind(pend[t]) = kind}
WakeAll(p, S) == [t \in Thread |-> IF t \in S THEN Waken(p[t]) ELSE p[t]]
Signal(p, S) == IF S = {} THEN {p} ELSE {WakeAll(p, {t}) : t \in S}

-----------------------------------------------------------------------------
(* Mutant: > for >=.                                                       *)
ContendedOffByOne(q, busy, kind) ==
    \/ kind = "bulk" /\ Len(q["bulk"]) > QueueMax \div 2
    \/ Items(q) + busy > QueueMax

(* thrmgr_contended, on the values the caller has just computed.           *)
Contended(q, busy, kind) ==
    \/ kind = "bulk" /\ Len(q["bulk"]) >= QueueMax \div 2
    \/ Items(q) + busy >= QueueMax

(***************************************************************************)
(* thrmgr_pop without its signals: the queue it takes from, or "none".     *)
(* first is the queue that has the turn, ratio the length of that turn.    *)
(***************************************************************************)
PopFirst(p) == IF p["single"] < RATIO THEN "single" ELSE "bulk"
Other(kind) == IF kind = "single" THEN "bulk" ELSE "single"
PopRatio(p) == IF p["single"] < RATIO THEN RATIO ELSE 1
PopFrom(q, p) ==
    LET first == PopFirst(p) IN
    IF q[first] # <<>> THEN first
    ELSE IF q[Other(first)] # <<>> THEN Other(first)
    ELSE "none"
(* Mutant: the other queue's counter is not reset at the end of a turn.    *)
PoppedAfterNoReset(p, from) == [p EXCEPT ![from] = @ + 1]

PoppedAfter(p, from) ==
    LET n == p[from] + 1 IN
    [k \in QueueKind |->
        IF k = from THEN n
        ELSE IF n = PopRatio(p) THEN 0 ELSE p[k]]

(* Mutant: the newest item is taken.                                       *)
UnlinkNewest(s) == SubSeq(s, 1, Len(s) - 1)

(* work_queue_pop on a queue that is not empty: what is left of it.        *)
Unlink(s) == Tail(s)

-----------------------------------------------------------------------------
Init ==
    /\ state = "VALID"
    /\ thr_alive = 0 /\ thr_idle = 0 /\ thr_multiscan = 0
    /\ queue = [k \in QueueKind |-> <<>>]
    /\ popped = [k \in QueueKind |-> 0]
    /\ streak = [k \in QueueKind |-> 0]
    /\ pc = [t \in Thread |-> IF t = Main THEN "ready" ELSE "none"]
    /\ job = [w \in Worker |-> NoJob]
    /\ pend = [t \in Thread |-> NoJob]
    /\ fresh = Job
    /\ jobs = [m \in MultiJob |-> 0]
    /\ progexit = FALSE
    /\ done = {}

-----------------------------------------------------------------------------
(* thrmgr_worker.  idle is thr_idle as the code sees it inside the loop,   *)
(* after the thr_idle++ of a thread that comes from the top.               *)

Looking(w) == pc[w] \in {"top", "pool_woken"}

(* Mutant: thr_idle++ inside the loop.                                     *)
IdleInEachTurn(w) == thr_idle + 1

IdleIn(w) == IF pc[w] = "top" THEN thr_idle + 1 ELSE thr_idle

(* The two signals at the end of thrmgr_pop: single first, then bulk.      *)
PopSignals(q, idle) ==
    LET After(p, kind) == IF Contended(q, thr_alive - idle, kind) THEN {p}
                          ELSE Signal(p, QueueWaiters(p, kind))
    IN UNION {After(p, "bulk") : p \in After(pc, "single")}

(* thrmgr_pop returns a job: thr_idle--, unlock, call the handler.         *)
WorkerTake(w) ==
    LET from == PopFrom(queue, popped) IN
    /\ Looking(w)
    /\ from # "none"
    /\ queue' = [queue EXCEPT ![from] = Unlink(@)]
    /\ popped' = PoppedAfter(popped, from)
    /\ streak' = [k \in QueueKind |->
                     IF k = from /\ queue[Other(k)] # <<>>
                     THEN streak[k] + 1 ELSE 0]
    /\ job' = [job EXCEPT ![w] = Head(queue[from])]
    /\ thr_idle' = IdleIn(w) - 1
    /\ \E p \in PopSignals(queue', IdleIn(w)) : pc' = [p EXCEPT ![w] = "run"]
    /\ UNCHANGED <<state, thr_alive, thr_multiscan, pend, fresh, jobs,
                   progexit, done>>

(* No job: sleep on pool_cond.  idle_cond is signalled, nobody waits on it. *)
WorkerSleep(w) ==
    /\ Looking(w)
    /\ PopFrom(queue, popped) = "none"
    /\ state # "EXIT"
    /\ thr_idle' = IdleIn(w)
    /\ \E p \in PopSignals(queue, IdleIn(w)) :
           pc' = [p EXCEPT ![w] = "pool_wait"]
    /\ UNCHANGED <<state, thr_alive, thr_multiscan, queues, job, pend, fresh,
                   jobs, progexit, done>>

(* Mutant: POOL_EXIT is tested before the queue is looked at.              *)
WorkerQuitEarly(w) ==
    /\ Looking(w)
    /\ state = "EXIT"
    /\ thr_idle' = IdleIn(w) - 1
    /\ pc' = [pc EXCEPT ![w] = "leave"]
    /\ UNCHANGED <<state, thr_alive, thr_multiscan, queues, job, pend, fresh,
                   jobs, progexit, done>>

(* No job and POOL_EXIT: out of the loop.                                  *)
WorkerQuit(w) ==
    /\ Looking(w)
    /\ PopFrom(queue, popped) = "none"
    /\ state = "EXIT"
    /\ thr_idle' = IdleIn(w) - 1
    /\ \E p \in PopSignals(queue, IdleIn(w)) : pc' = [p EXCEPT ![w] = "leave"]
    /\ UNCHANGED <<state, thr_alive, thr_multiscan, queues, job, pend, fresh,
                   jobs, progexit, done>>

(* The idle timeout expires; the thread still has to get the mutex back.   *)
WorkerTimeout(w) ==
    /\ "timeout" \in Faults
    /\ pc[w] = "pool_wait"
    /\ pc' = [pc EXCEPT ![w] = "pool_timedout"]
    /\ UNCHANGED <<state, counters, queues, job, pend, fresh, jobs, progexit,
                   done>>

(* ETIMEDOUT: must_exit, break, thr_idle--, and no second look at the queue. *)
WorkerExpire(w) ==
    /\ pc[w] = "pool_timedout"
    /\ pc' = [pc EXCEPT ![w] = "leave"]
    /\ thr_idle' = thr_idle - 1
    /\ UNCHANGED <<state, thr_alive, thr_multiscan, queues, job, pend, fresh,
                   jobs, progexit, done>>

(* Mutant: nobody is told that the last thread left.                       *)
LastOutSilent(p) == p

(* The last thread to leave broadcasts pool_cond.                          *)
LastOut(p) == IF thr_alive = 1 THEN WakeAll(p, PoolWaiters(p)) ELSE p

(* thr_alive--, and the thread ends.                                       *)
WorkerLeave(w) ==
    /\ pc[w] = "leave"
    /\ thr_alive' = thr_alive - 1
    /\ pc' = LastOut([pc EXCEPT ![w] = "none"])
    /\ UNCHANGED <<state, thr_idle, thr_multiscan, queues, job, pend, fresh,
                   jobs, progexit, done>>

(* POSIX lets a condition wait return for no reason.                       *)
SpuriousWakeup(t) ==
    /\ "spurious" \in Faults
    /\ pc[t] \in {"pool_wait", "destroy_wait", "queue_wait"}
    /\ pc' = [pc EXCEPT ![t] = Waken(@)]
    /\ UNCHANGED <<state, counters, queues, job, pend, fresh, jobs, progexit,
                   done>>

-----------------------------------------------------------------------------
(* thrmgr_group_dispatch and thrmgr_dispatch_internal.  Main dispatches a  *)
(* client's command, a control thread the file that scan_callback has let  *)
(* through.  The job count of the group goes up before the dispatch and    *)
(* down again if it fails.                                                 *)

Offers(t, j) ==
    /\ j \in fresh
    /\ \/ t = Main /\ pc[t] = "ready" /\ j \in SingleJob \cup BulkJob
       \/ t \in Worker /\ pc[t] = "file" /\ j \in Files[job[t]]

Back(t) == IF t = Main THEN "ready" ELSE "walk"
Fail(t) == IF t = Main THEN "ready" ELSE "failed"

(* Mutant: the count is never taken back.                                  *)
JobsPlusOnly(j, d) ==
    [m \in MultiJob |-> IF j \in Files[m] /\ d > 0 THEN jobs[m] + d ELSE jobs[m]]

(* group->jobs += d for the group of j.                                    *)
JobsPlus(j, d) ==
    [m \in MultiJob |-> IF j \in Files[m] THEN jobs[m] + d ELSE jobs[m]]

IsContended(kind) == Contended(queue, thr_alive - thr_idle, kind)

(* Mutant: a thread is only started for an empty pool.                     *)
NeedThreadFirstOnly(q) == thr_alive = 0

(* Fewer idle threads than items, and room for one more.                   *)
NeedThread(q) == thr_idle < Items(q) /\ thr_alive < thr_max

(* The part after the contention loop: work_queue_add, pthread_create,     *)
(* pthread_cond_signal(&pool_cond).                                        *)
Enqueue(t, j) ==
    LET q == [queue EXCEPT ![Kind(j)] = Append(@, j)]
        p == [pc EXCEPT ![t] = Back(t)]
    IN  /\ queue' = q
        /\ \/ /\ NeedThread(q)
              /\ thr_alive' = thr_alive + 1
              /\ \E w \in Worker :
                    /\ pc[w] = "none"
                    /\ \E r \in Signal(p, PoolWaiters(p)) :
                          pc' = [r EXCEPT ![w] = "top"]
           \/ /\ NeedThread(q) => "create" \in Faults
              /\ thr_alive' = thr_alive
              /\ pc' \in Signal(p, PoolWaiters(p))
        /\ UNCHANGED <<state, thr_idle, thr_multiscan, popped, streak, job,
                       progexit, done>>

Dispatch(t, j) ==
    /\ Offers(t, j)
    /\ state = "VALID"
    /\ ~IsContended(Kind(j))
    /\ Enqueue(t, j)
    /\ fresh' = fresh \ {j}
    /\ jobs' = JobsPlus(j, 1)
    /\ UNCHANGED pend

DispatchSleep(t, j) ==
    /\ Offers(t, j)
    /\ state = "VALID"
    /\ IsContended(Kind(j))
    /\ pc' = [pc EXCEPT ![t] = "queue_wait"]
    /\ pend' = [pend EXCEPT ![t] = j]
    /\ fresh' = fresh \ {j}
    /\ jobs' = JobsPlus(j, 1)
    /\ UNCHANGED <<state, counters, queues, job, progexit, done>>

(* The pool is closing, or an allocation of the dispatcher fails.          *)
DispatchRefused(t, j) ==
    /\ Offers(t, j)
    /\ state # "VALID" \/ "malloc" \in Faults
    /\ pc' = [pc EXCEPT ![t] = Fail(t)]
    /\ fresh' = fresh \ {j}
    /\ UNCHANGED <<state, counters, queues, job, pend, jobs, progexit, done>>

(* Back from the condition: contention is tested again, the state is not.  *)
DispatchResume(t) ==
    /\ pc[t] = "queue_woken"
    /\ ~IsContended(Kind(pend[t]))
    /\ Enqueue(t, pend[t])
    /\ pend' = [pend EXCEPT ![t] = NoJob]
    /\ UNCHANGED <<fresh, jobs>>

DispatchSleepAgain(t) ==
    /\ pc[t] = "queue_woken"
    /\ IsContended(Kind(pend[t]))
    /\ pc' = [pc EXCEPT ![t] = "queue_wait"]
    /\ UNCHANGED <<state, counters, queues, job, pend, fresh, jobs, progexit,
                   done>>

DispatchResumeFails(t) ==
    /\ pc[t] = "queue_woken"
    /\ "malloc" \in Faults
    /\ ~IsContended(Kind(pend[t]))
    /\ pc' = [pc EXCEPT ![t] = Fail(t)]
    /\ pend' = [pend EXCEPT ![t] = NoJob]
    /\ jobs' = JobsPlus(pend[t], -1)
    /\ UNCHANGED <<state, counters, queues, job, fresh, progexit, done>>

-----------------------------------------------------------------------------
(* The handler.                                                            *)

Finish(w) ==
    /\ pc' = [pc EXCEPT ![w] = "top"]
    /\ job' = [job EXCEPT ![w] = NoJob]
    /\ done' = done \cup {job[w]}

(* thrmgr_group_finished: a count that is zero stays zero.                 *)
GroupFinished(j) ==
    [m \in MultiJob |-> IF j \in Files[m] /\ jobs[m] # 0 THEN jobs[m] - 1 ELSE jobs[m]]

(* Any command but MULTISCAN runs and leaves its group if it is a file of  *)
(* one.                                                                    *)
RunJob(w) ==
    /\ pc[w] = "run"
    /\ job[w] \notin MultiJob
    /\ Finish(w)
    /\ jobs' = GroupFinished(job[w])
    /\ UNCHANGED <<state, counters, queues, pend, fresh, progexit>>

(* Mutant: off by one.                                                     *)
MultiAllowedAll == thr_multiscan + 1 <= thr_max

(* multiscan+1 < max                                                       *)
MultiAllowed == thr_multiscan + 1 < thr_max

(* MULTISCAN: only if one thread stays that is not a control thread.       *)
MultiStart(w) ==
    /\ pc[w] = "run"
    /\ job[w] \in MultiJob
    /\ ~progexit
    /\ MultiAllowed
    /\ thr_multiscan' = thr_multiscan + 1
    /\ pc' = [pc EXCEPT ![w] = "walk"]
    /\ jobs' = [jobs EXCEPT ![job[w]] = 1]
    /\ UNCHANGED <<state, thr_alive, thr_idle, queues, job, pend, fresh,
                   progexit, done>>

MultiRefuse(w) ==
    /\ pc[w] = "run"
    /\ job[w] \in MultiJob
    /\ progexit \/ ~MultiAllowed
    /\ Finish(w)
    /\ UNCHANGED <<state, counters, queues, pend, fresh, jobs, progexit>>

(* thrmgr_group_new fails: CL_EMEM, and thr_multiscan stays incremented.   *)
MultiNoGroup(w) ==
    /\ pc[w] = "run"
    /\ job[w] \in MultiJob
    /\ "malloc" \in Faults
    /\ ~progexit
    /\ MultiAllowed
    /\ thr_multiscan' = thr_multiscan + 1
    /\ Finish(w)
    /\ UNCHANGED <<state, thr_alive, thr_idle, queues, pend, fresh, jobs,
                   progexit>>

(* The next file passes the checks at the top of scan_callback, which      *)
(* reads progexit: it may be set before the file is dispatched.            *)
VisitFile(w) ==
    /\ pc[w] = "walk"
    /\ fresh \cap Files[job[w]] # {}
    /\ ~progexit
    /\ pc' = [pc EXCEPT ![w] = "file"]
    /\ UNCHANGED <<state, counters, queues, job, pend, fresh, jobs, progexit,
                   done>>

(* cli_ftw returns: no file left, progexit, or the client went away.       *)
WalkEnd(w) ==
    /\ pc[w] = "walk"
    /\ \/ fresh \cap Files[job[w]] = {}
       \/ progexit
       \/ "disconnect" \in Faults
    /\ pc' = [pc EXCEPT ![w] = "waitall"]
    /\ UNCHANGED <<state, counters, queues, job, pend, fresh, jobs, progexit,
                   done>>

(* cli_ftw returns CL_EMEM.  With ExitOnOOM the command returns -1 and      *)
(* scanner_thread sets progexit: neither the group nor thr_multiscan is     *)
(* released.                                                                *)
WalkFailed(w) ==
    /\ pc[w] = "failed"
    /\ \/ /\ ExitOnOOM
          /\ Finish(w)
          /\ progexit' = TRUE
       \/ /\ ~ExitOnOOM
          /\ pc' = [pc EXCEPT ![w] = "waitall"]
          /\ UNCHANGED <<job, done, progexit>>
    /\ UNCHANGED <<state, counters, queues, pend, fresh, jobs>>

(* thrmgr_group_waitforall: the loop wakes at least every 5 seconds, so it  *)
(* ends when the control thread is alone in the group or progexit is set.   *)
WaitForAll(w) ==
    /\ pc[w] = "waitall"
    /\ jobs[job[w]] <= 1 \/ progexit
    /\ jobs' = [jobs EXCEPT ![job[w]] = @ - 1]
    /\ pc' = [pc EXCEPT ![w] = "ended"]
    /\ UNCHANGED <<state, counters, queues, job, pend, fresh, progexit, done>>

(* Mutant: the budget is not given back.                                   *)
AfterMultiscanKept == thr_multiscan

(* conn->thrpool->thr_multiscan--                                          *)
AfterMultiscan == thr_multiscan - 1

MultiEnd(w) ==
    /\ pc[w] = "ended"
    /\ thr_multiscan' = AfterMultiscan
    /\ Finish(w)
    /\ UNCHANGED <<state, thr_alive, thr_idle, queues, pend, fresh, jobs,
                   progexit>>

-----------------------------------------------------------------------------
(* A signal handler or a client's SHUTDOWN sets the exit flag.             *)
ProgExit ==
    /\ ~progexit
    /\ progexit' = TRUE
    /\ UNCHANGED <<state, counters, queues, pc, job, pend, fresh, jobs, done>>

(* thrmgr_destroy, called by the receive loop once it has left its loop.    *)
Destroy ==
    /\ pc[Main] = "ready"
    /\ progexit
    /\ state = "VALID"
    /\ IF thr_alive > 0
       THEN /\ state' = "EXIT"
            /\ pc' = [WakeAll(pc, PoolWaiters(pc)) EXCEPT ![Main] = "destroy_wait"]
       ELSE /\ state' = "FREED"
            /\ pc' = [pc EXCEPT ![Main] = "gone"]
    /\ UNCHANGED <<counters, queues, job, pend, fresh, jobs, progexit, done>>

(* Mutant: if for while.                                                   *)
DestroyWokenOnce ==
    /\ pc[Main] = "destroy_woken"
    /\ state' = "FREED"
    /\ pc' = [pc EXCEPT ![Main] = "gone"]
    /\ UNCHANGED <<counters, queues, job, pend, fresh, jobs, progexit, done>>

DestroyWoken ==
    /\ pc[Main] = "destroy_woken"
    /\ IF thr_alive > 0
       THEN /\ pc' = [pc EXCEPT ![Main] = "destroy_wait"]
            /\ UNCHANGED state
       ELSE /\ state' = "FREED"
            /\ pc' = [pc EXCEPT ![Main] = "gone"]
    /\ UNCHANGED <<counters, queues, job, pend, fresh, jobs, progexit, done>>

-----------------------------------------------------------------------------
DispatchStep(t) ==
    \/ \E j \in Job : Dispatch(t, j) \/ DispatchSleep(t, j) \/ DispatchRefused(t, j)
    \/ DispatchResume(t) \/ DispatchSleepAgain(t) \/ DispatchResumeFails(t)

HandlerStep(w) ==
    \/ RunJob(w) \/ MultiStart(w) \/ MultiRefuse(w) \/ MultiNoGroup(w)
    \/ VisitFile(w) \/ WalkEnd(w) \/ WalkFailed(w) \/ WaitForAll(w) \/ MultiEnd(w)

LoopStep(w) ==
    \/ WorkerTake(w) \/ WorkerSleep(w) \/ WorkerQuit(w)
    \/ WorkerExpire(w) \/ WorkerLeave(w)

(* Nothing happens any more once the pool is gone.                         *)
Terminated == state = "FREED" /\ UNCHANGED vars

Next ==
    \/ \E t \in Thread : DispatchStep(t) \/ SpuriousWakeup(t)
    \/ \E w \in Worker : LoopStep(w) \/ HandlerStep(w) \/ WorkerTimeout(w)
    \/ ProgExit \/ Destroy \/ DestroyWoken \/ Terminated

Spec == Init /\ [][Next]_vars

(***************************************************************************)
(* Every thread that can run does, and the mutex is fair to it; a handler  *)
(* returns.  Nothing obliges a client to send a command, the timeout to    *)
(* expire or the exit flag to be set.                                      *)
(***************************************************************************)
MainResume == DispatchResume(Main) \/ DispatchSleepAgain(Main)
Fairness ==
    /\ \A w \in Worker : WF_vars(LoopStep(w)) /\ WF_vars(HandlerStep(w))
                          /\ WF_vars(DispatchStep(w))
    /\ WF_vars(MainResume) /\ WF_vars(Destroy) /\ WF_vars(DestroyWoken)
FairSpec == Spec /\ Fairness

-----------------------------------------------------------------------------
Running == {w \in Worker : pc[w] = "run" \/ pc[w] \in ControlPC}
Queued == {queue["single"][i] : i \in DOMAIN queue["single"]}
          \cup {queue["bulk"][i] : i \in DOMAIN queue["bulk"]}

(***************************************************************************)
(* Types: the counters, which are signed and decremented without a check   *)
(* in the code, never go below zero.                                       *)
(***************************************************************************)
TypeOK ==
    /\ state \in {"VALID", "EXIT", "FREED"}
    /\ thr_alive \in Nat /\ thr_idle \in Nat /\ thr_multiscan \in Nat
    /\ queue \in [QueueKind -> Seq(Job)]
    /\ popped \in [QueueKind -> Nat]
    /\ streak \in [QueueKind -> Nat]
    /\ pc \in [Thread -> WorkerPC \cup MainPC]
    /\ pc[Main] \in MainPC /\ \A w \in Worker : pc[w] \in WorkerPC
    /\ job \in [Worker -> Job \cup {NoJob}]
    /\ pend \in [Thread -> Job \cup {NoJob}]
    /\ fresh \subseteq Job /\ done \subseteq Job
    /\ jobs \in [MultiJob -> Int]
    /\ progexit \in BOOLEAN

(***************************************************************************)
(* thr_alive and thr_idle, which every path of thrmgr_worker and           *)
(* thrmgr_dispatch_internal moves by hand, are at all times the number of  *)
(* threads that exist and that are inside the wait for work.               *)
(***************************************************************************)
CountersMatch ==
    /\ thr_alive = Cardinality(Alive)
    /\ thr_idle = Cardinality(Idle)

(***************************************************************************)
(* What clamd.conf says of MaxQueue: "Maximum number of queued items       *)
(* (including those being processed by MaxThreads threads)".  Waiting and  *)
(* running jobs together never exceed queue_max, and bulk jobs never take  *)
(* more than half of the queue (the comment of thrmgr_contended).          *)
(***************************************************************************)
QueueBound ==
    /\ Items(queue) + Cardinality(Running) <= QueueMax
    /\ Len(queue["bulk"]) <= QueueMax \div 2

(***************************************************************************)
(* "when both queues have tasks, it will pick 4 items from the single      *)
(* queue, and 1 from the bulk" (thrmgr.c; 4 is RATIO): while both have     *)
(* jobs, no more than RATIO single jobs and no more than 1 bulk job leave  *)
(* in a row, whatever the two popped counters went through before.         *)
(***************************************************************************)
PickRatio == streak["single"] <= RATIO /\ streak["bulk"] <= 1

(***************************************************************************)
(* "there needs to be at least 1 threads that is a non-multiscan           *)
(* controlthread" (session.c): control threads never fill the pool.        *)
(***************************************************************************)
ControlReserve == Control # Worker /\ Cardinality(Control) <= thr_multiscan

(***************************************************************************)
(* Without allocation failures thr_multiscan counts the control threads:   *)
(* the budget of MULTISCAN commands is given back in full.                 *)
(***************************************************************************)
MultiscanExact == thr_multiscan = Cardinality(Control)

(***************************************************************************)
(* A group of a MULTISCAN counts one job for its control thread until      *)
(* thrmgr_group_waitforall and one for each file queued, running or held   *)
(* by the sleeping dispatcher, so it is freed after its last user and not  *)
(* before.  Only the ExitOnOOM path keeps a reference for ever.            *)
(***************************************************************************)
Outstanding(m) ==
    {f \in Files[m] : \/ f \in Queued
                      \/ \E w \in Worker : job[w] = f
                      \/ \E t \in Thread : pend[t] = f}
Holds(m) == \E w \in Control : job[w] = m /\ pc[w] # "ended"
GroupRefs ==
    \A m \in MultiJob :
        LET own == jobs[m] - Cardinality(Outstanding(m)) IN
        /\ own \in {0, 1}
        /\ Holds(m) => own = 1
        /\ own = 1 => Holds(m) \/ (ExitOnOOM /\ progexit /\ m \in done)

(***************************************************************************)
(* thrmgr_destroy frees the pool only when nobody can touch it again: no   *)
(* worker exists, nobody sleeps on its conditions.                         *)
(***************************************************************************)
FreedQuiet ==
    state = "FREED" => \A t \in Thread : pc[t] \in {"none", "gone"}

(***************************************************************************)
(* "This waits for all current tasks to end" (server-th.c, before          *)
(* thrmgr_destroy): no job is left in the queues of a freed pool.          *)
(***************************************************************************)
DestroyDrains == state = "FREED" => Items(queue) = 0

(***************************************************************************)
(* The pool implements JobService: each job runs at most once, in order of *)
(* arrival within its queue, within the capacity.                          *)
(***************************************************************************)
Service == INSTANCE JobService WITH
    Task <- Job, BulkTask <- BulkJob \cup FileJob, Capacity <- QueueMax,
    BulkShare <- QueueMax \div 2,
    waiting <- queue, running <- {job[w] : w \in Running}, finished <- done
ImplementsService == Service!SSpec

(***************************************************************************)
(* A job that thrmgr_dispatch_internal accepted is run to its end.         *)
(***************************************************************************)
AcceptedDone == \A j \in Job : (j \in Queued) ~> (j \in done)

(***************************************************************************)
(* A MULTISCAN that passed the thread check of session.c ends: "at least   *)
(* 1 threads that is a non-multiscan controlthread to scan and make        *)
(* progress".                                                              *)
(***************************************************************************)
MultiProgress ==
    \A m \in MultiJob : (\E w \in Control : job[w] = m) ~> (m \in done)

(***************************************************************************)
(* Once progexit is set the pool is drained and freed: clamd can exit.     *)
(***************************************************************************)
ExitEnds == progexit ~> (state = "FREED")
=============================================================================
