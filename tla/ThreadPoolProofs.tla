-------------------------- MODULE ThreadPoolProofs --------------------------
(***************************************************************************)
(* The safety invariants of ThreadPool for every number of workers, every  *)
(* queue length, every set of jobs and every choice of faults.             *)
(***************************************************************************)
EXTENDS ThreadPoolDispatch

-----------------------------------------------------------------------------
(* The handler.                                                            *)

(* A worker whose handler returns: one thread less runs.                   *)
LEMMA FinishPreserves ==
    ASSUME PoolInv, NEW w \in Worker, Finish(w),
           pc[w] = "run" \/ pc[w] \in ControlPC, job[w] \in Job,
           UNCHANGED <<state, thr_alive, thr_idle, queue, popped, streak, pend, fresh>>,
           thr_multiscan' \in Nat,
           Cardinality(Control) - One(pc[w] \in ControlPC) <= thr_multiscan',
           thr_multiscan' = 0 \/ thr_multiscan' < thr_max,
           jobs' \in [MultiJob -> Int], progexit' \in BOOLEAN
    PROVE  PoolInv'
<1>1. /\ pc' = [pc EXCEPT ![w] = "top"] /\ job' = [job EXCEPT ![w] = NoJob]
      /\ done' = done \cup {job[w]}
    BY DEF Finish
<1>2. /\ "top" \in WorkerPC /\ "top" \notin ControlPC /\ "top" \notin IdlePC
      /\ pc[w] # "none" /\ pc[w] \notin IdlePC
      /\ "top" \notin {"queue_wait", "queue_woken"}
    BY Zenon DEF WorkerPC, ControlPC, IdlePC
<1>3. MoveFacts(w, "top") /\ FreedInv'
    BY Zenon, <1>1, <1>2, SelfWakes, WorkerFrame
<1>8. /\ One("top" # "none") = 1 /\ One("top" \in IdlePC) = 0
      /\ One("top" \in ControlPC) = 0 /\ One("top" = "run" \/ "top" \in ControlPC) = 0
      /\ One(pc[w] \in IdlePC) = 0 /\ One(pc[w] = "run" \/ pc[w] \in ControlPC) = 1
      /\ One(pc[w] \in ControlPC) \in {0, 1}
    BY <1>2 DEF One
<1>9. /\ Cardinality(Alive') = thr_alive - 1 + 1
      /\ Cardinality(Idle') = thr_idle - 0 + 0
      /\ Cardinality(Control') = Cardinality(Control) - One(pc[w] \in ControlPC) + 0
      /\ Cardinality(Running') = Cardinality(Running) - 1 + 0
      /\ Cardinality(Control) \in Nat /\ Cardinality(Running) \in Nat
    BY Zenon, <1>3, <1>8 DEF MoveFacts, MoveCards
<1>4. thr_alive' = Cardinality(Alive') /\ thr_idle' = Cardinality(Idle')
    <2>1. thr_alive \in Nat /\ thr_idle \in Nat
        BY DEF PoolInv, TypeOK
    <2> QED BY <1>9, <2>1
<1>5. Cardinality(Running') <= Cardinality(Running)
    BY <1>8, <1>9
<1>6. ControlInv'
    <2>1. Cardinality(Control') = Cardinality(Control) - One(pc[w] \in ControlPC)
        BY <1>8, <1>9
    <2> QED BY <2>1 DEF ControlInv, thr_max
<1>7. /\ job' \in [Worker -> Job \cup {NoJob}] /\ \A u \in Worker : u # w => job'[u] = job[u]
      /\ fresh' \subseteq Job /\ done' \subseteq Job
    BY <1>1 DEF PoolInv, TypeOK
<1> QED BY Zenon, <1>2, <1>3, <1>4, <1>5, <1>6, <1>7, QuietStep

(* The budget of control threads as it stands.                             *)
LEMMA ControlFacts ==
    ASSUME PoolInv
    PROVE  /\ thr_multiscan \in Nat /\ Cardinality(Control) \in Nat
           /\ Cardinality(Control) <= thr_multiscan /\ thr_max \in Nat
           /\ thr_multiscan = 0 \/ thr_multiscan < thr_max
           /\ \A w \in Worker : pc[w] \in ControlPC => Cardinality(Control) >= 1
<1>1. thr_max \in Nat
    BY PoolAssumption, FS_CardinalityType DEF thr_max
<1>2. \A w \in Worker : pc[w] \in ControlPC => Cardinality(Control) >= 1
    <2> SUFFICES ASSUME NEW w \in Worker, pc[w] \in ControlPC
                 PROVE  Cardinality(Control) >= 1
        OBVIOUS
    <2>1. Control # {}
        BY DEF Control
    <2>2. Cardinality(Control) # 0
        BY <2>1, SetsFinite, FS_EmptySet
    <2> QED BY <2>2, CardsNat
<1> QED BY <1>1, <1>2, CardsNat DEF PoolInv, ControlInv, TypeOK

(* An ordinary command ends.                                               *)
LEMMA RunJobPreserves ==
    ASSUME PoolInv, NEW w \in Worker, RunJob(w)
    PROVE  PoolInv'
<1>1. /\ pc[w] = "run" /\ Finish(w) /\ jobs' = GroupFinished(job[w])
      /\ UNCHANGED <<state, thr_alive, thr_idle, thr_multiscan, queue, popped, streak,
                      pend, fresh, progexit>>
    BY DEF RunJob, queues, counters
<1>2. job[w] \in Job /\ jobs' \in [MultiJob -> Int]
    <2>1. job[w] \in Job
        BY <1>1 DEF PoolInv, JobInv
    <2>2. jobs \in [MultiJob -> Int]
        BY DEF PoolInv, TypeOK
    <2> QED BY <1>1, <2>1, <2>2 DEF GroupFinished
<1>3. progexit' \in BOOLEAN /\ thr_multiscan' \in Nat
    BY <1>1 DEF PoolInv, TypeOK
<1>4. /\ Cardinality(Control) - One(pc[w] \in ControlPC) <= thr_multiscan'
      /\ thr_multiscan' = 0 \/ thr_multiscan' < thr_max
    BY <1>1, ControlFacts DEF One
<1> QED BY <1>1, <1>2, <1>3, <1>4, FinishPreserves

(* A MULTISCAN is refused.                                                 *)
LEMMA MultiRefusePreserves ==
    ASSUME PoolInv, NEW w \in Worker, MultiRefuse(w)
    PROVE  PoolInv'
<1>1. /\ pc[w] = "run" /\ Finish(w)
      /\ UNCHANGED <<state, thr_alive, thr_idle, thr_multiscan, queue, popped, streak,
                      pend, fresh, jobs, progexit>>
    BY DEF MultiRefuse, queues, counters
<1>2. job[w] \in Job /\ jobs' \in [MultiJob -> Int]
    BY <1>1 DEF PoolInv, JobInv, TypeOK
<1>3. progexit' \in BOOLEAN /\ thr_multiscan' \in Nat
    BY <1>1 DEF PoolInv, TypeOK
<1>4. /\ Cardinality(Control) - One(pc[w] \in ControlPC) <= thr_multiscan'
      /\ thr_multiscan' = 0 \/ thr_multiscan' < thr_max
    BY <1>1, ControlFacts DEF One
<1> QED BY <1>1, <1>2, <1>3, <1>4, FinishPreserves

(* thrmgr_group_new fails and thr_multiscan is leaked.                     *)
LEMMA MultiNoGroupPreserves ==
    ASSUME PoolInv, NEW w \in Worker, MultiNoGroup(w)
    PROVE  PoolInv'
<1>1. /\ pc[w] = "run" /\ Finish(w) /\ MultiAllowed
      /\ thr_multiscan' = thr_multiscan + 1
      /\ UNCHANGED <<state, thr_alive, thr_idle, queue, popped, streak, pend, fresh, jobs,
                      progexit>>
    BY DEF MultiNoGroup, queues
<1>2. job[w] \in Job /\ jobs' \in [MultiJob -> Int]
    BY <1>1 DEF PoolInv, JobInv, TypeOK
<1>3. progexit' \in BOOLEAN
    BY <1>1 DEF PoolInv, TypeOK
<1>4. /\ Cardinality(Control) - One(pc[w] \in ControlPC) <= thr_multiscan'
      /\ thr_multiscan' \in Nat /\ thr_multiscan' < thr_max
    BY <1>1, ControlFacts DEF One, MultiAllowed, ControlPC
<1> QED BY <1>1, <1>2, <1>3, <1>4, FinishPreserves

(* A MULTISCAN ends and gives back its budget.                             *)
LEMMA MultiEndPreserves ==
    ASSUME PoolInv, NEW w \in Worker, MultiEnd(w)
    PROVE  PoolInv'
<1>1. /\ pc[w] = "ended" /\ Finish(w)
      /\ thr_multiscan' = thr_multiscan - 1
      /\ UNCHANGED <<state, thr_alive, thr_idle, queue, popped, streak, pend, fresh, jobs,
                      progexit>>
    BY DEF MultiEnd, AfterMultiscan, queues
<1>2. pc[w] \in ControlPC
    BY <1>1 DEF ControlPC
<1>3. job[w] \in Job /\ jobs' \in [MultiJob -> Int]
    BY <1>1, <1>2, PoolAssumption DEF PoolInv, JobInv, TypeOK, Job
<1>4. progexit' \in BOOLEAN
    BY <1>1 DEF PoolInv, TypeOK
<1>5. /\ Cardinality(Control) - One(pc[w] \in ControlPC) <= thr_multiscan'
      /\ thr_multiscan' \in Nat /\ (thr_multiscan' = 0 \/ thr_multiscan' < thr_max)
    BY <1>1, <1>2, ControlFacts DEF One
<1> QED BY <1>1, <1>2, <1>3, <1>4, <1>5, FinishPreserves

(* The check of session.c is what keeps the budget below thr_max.          *)
LEMMA MultiStartPreserves ==
    ASSUME PoolInv, NEW w \in Worker, MultiStart(w)
    PROVE  PoolInv'
<1>1. /\ pc[w] = "run" /\ job[w] \in MultiJob /\ MultiAllowed
      /\ thr_multiscan' = thr_multiscan + 1
      /\ pc' = [pc EXCEPT ![w] = "walk"] /\ jobs' = [jobs EXCEPT ![job[w]] = 1]
      /\ UNCHANGED <<state, thr_alive, thr_idle, queue, popped, streak, job, pend, fresh,
                      progexit, done>>
    BY DEF MultiStart, queues
<1>2. /\ "walk" \in WorkerPC /\ "walk" \in ControlPC /\ "walk" \notin IdlePC
      /\ "walk" \notin {"queue_wait", "queue_woken"} /\ "walk" # "run"
      /\ pc[w] # "none" /\ pc[w] \notin IdlePC /\ pc[w] \notin ControlPC
    BY <1>1 DEF WorkerPC, ControlPC, IdlePC
<1>3. MoveFacts(w, "walk") /\ FreedInv'
    BY Zenon, <1>1, <1>2, SelfWakes, WorkerFrame
<1>9. /\ One("walk" # "none") = 1 /\ One("walk" \in IdlePC) = 0
      /\ One("walk" \in ControlPC) = 1 /\ One("walk" = "run" \/ "walk" \in ControlPC) = 1
      /\ One(pc[w] \in IdlePC) = 0 /\ One(pc[w] = "run" \/ pc[w] \in ControlPC) = 1
      /\ One(pc[w] \in ControlPC) = 0
    BY <1>1, <1>2 DEF One
<1>10. /\ Cardinality(Alive') = thr_alive - 1 + 1
       /\ Cardinality(Idle') = thr_idle - 0 + 0
       /\ Cardinality(Control') = Cardinality(Control) - 0 + 1
       /\ Cardinality(Running') = Cardinality(Running) - 1 + 1
       /\ Cardinality(Control) \in Nat /\ Cardinality(Running) \in Nat
    BY Zenon, <1>3, <1>9 DEF MoveFacts, MoveCards
<1>4. thr_alive' = Cardinality(Alive') /\ thr_idle' = Cardinality(Idle')
    <2>1. thr_alive \in Nat /\ thr_idle \in Nat
        BY DEF PoolInv, TypeOK
    <2> QED BY <1>1, <1>10, <2>1
<1>5. Cardinality(Running') <= Cardinality(Running)
    BY <1>10
<1>6. thr_multiscan' \in Nat /\ ControlInv'
    <2>1. Cardinality(Control') = Cardinality(Control) + 1
        BY <1>10
    <2>2. /\ Cardinality(Control') <= thr_multiscan'
          /\ thr_multiscan' \in Nat /\ thr_multiscan' < thr_max
        BY <1>1, <2>1, ControlFacts DEF MultiAllowed
    <2> QED BY <2>2 DEF ControlInv, thr_max
<1>7. /\ job' \in [Worker -> Job \cup {NoJob}] /\ \A u \in Worker : u # w => job'[u] = job[u]
      /\ fresh' \subseteq Job /\ done' \subseteq Job /\ jobs' \in [MultiJob -> Int]
      /\ job'[w] \in MultiJob
    BY <1>1 DEF PoolInv, TypeOK
<1>8. progexit' \in BOOLEAN
    BY <1>1 DEF PoolInv, TypeOK
<1> QED BY Zenon, <1>1, <1>2, <1>3, <1>4, <1>5, <1>6, <1>7, <1>8, QuietStep

(* A control thread moves on within the handler.                           *)
LEMMA ControlMovePreserves ==
    ASSUME PoolInv, NEW w \in Worker, NEW c \in {"file", "waitall", "ended"},
           pc[w] \in ControlPC, pc' = [pc EXCEPT ![w] = c],
           UNCHANGED <<state, thr_alive, thr_idle, thr_multiscan, queue, popped, streak,
                       job, pend, fresh, progexit, done>>,
           jobs' \in [MultiJob -> Int]
    PROVE  PoolInv'
<1>1. w \in Thread /\ w # Main
    BY PoolAssumption DEF Thread
<1>2. c \in WorkerPC /\ Same(pc[w], c)
    BY DEF WorkerPC, Same, ControlPC, IdlePC
<1>3. /\ pc' \in [Thread -> WorkerPC \cup MainPC]
      /\ pc'[Main] \in MainPC /\ \A u \in Worker : pc'[u] \in WorkerPC
      /\ \A u \in Worker : Same(pc[u], pc'[u])
      /\ state' \in {"VALID", "EXIT", "FREED"} /\ FreedInv'
      /\ pc'[w] = c /\ \A u \in Thread : u # w => pc'[u] = pc[u]
    BY Zenon, <1>1, <1>2, WithinClass
<1>4. \A u \in Thread : pc'[u] \in {"queue_wait", "queue_woken"} => pend'[u] \in Job
    BY Zenon, <1>3 DEF PoolInv, JobInv
<1>5. /\ pend' \in [Thread -> Job \cup {NoJob}] /\ fresh' \subseteq Job
      /\ progexit' \in BOOLEAN /\ done' = done
    BY DEF PoolInv, TypeOK
<1> QED BY <1>3, <1>4, <1>5, StillStep

(* A file passes the checks of scan_callback.                              *)
LEMMA VisitFilePreserves ==
    ASSUME PoolInv, NEW w \in Worker, VisitFile(w)
    PROVE  PoolInv'
<1>1. /\ pc[w] = "walk" /\ pc' = [pc EXCEPT ![w] = "file"]
      /\ UNCHANGED <<state, thr_alive, thr_idle, thr_multiscan, queue, popped, streak,
                      job, pend, fresh, progexit, done>>
      /\ jobs' = jobs
    BY DEF VisitFile, queues, counters
<1>2. jobs' \in [MultiJob -> Int] /\ pc[w] \in ControlPC
    BY <1>1 DEF PoolInv, TypeOK, ControlPC
<1> QED BY Zenon, <1>1, <1>2, ControlMovePreserves

(* cli_ftw returns.                                                        *)
LEMMA WalkEndPreserves ==
    ASSUME PoolInv, NEW w \in Worker, WalkEnd(w)
    PROVE  PoolInv'
<1>1. /\ pc[w] = "walk" /\ pc' = [pc EXCEPT ![w] = "waitall"]
      /\ UNCHANGED <<state, thr_alive, thr_idle, thr_multiscan, queue, popped, streak,
                      job, pend, fresh, progexit, done>>
      /\ jobs' = jobs
    BY Zenon DEF WalkEnd, queues, counters
<1>2. jobs' \in [MultiJob -> Int] /\ pc[w] \in ControlPC
    BY <1>1 DEF PoolInv, TypeOK, ControlPC
<1> QED BY Zenon, <1>1, <1>2, ControlMovePreserves

(* thrmgr_group_waitforall returns.                                        *)
LEMMA WaitForAllPreserves ==
    ASSUME PoolInv, NEW w \in Worker, WaitForAll(w)
    PROVE  PoolInv'
<1>1. /\ pc[w] = "waitall" /\ pc' = [pc EXCEPT ![w] = "ended"]
      /\ UNCHANGED <<state, thr_alive, thr_idle, thr_multiscan, queue, popped, streak,
                      job, pend, fresh, progexit, done>>
      /\ jobs' = [jobs EXCEPT ![job[w]] = @ - 1]
    BY DEF WaitForAll, queues, counters
<1>2. pc[w] \in ControlPC
    BY <1>1 DEF ControlPC
<1>3. job[w] \in MultiJob /\ jobs \in [MultiJob -> Int]
    BY <1>2 DEF PoolInv, JobInv, TypeOK
<1>4. jobs' \in [MultiJob -> Int]
    <2>1. jobs[job[w]] - 1 \in Int
        BY <1>3
    <2> QED BY <1>1, <1>3, <2>1
<1> QED BY Zenon, <1>1, <1>2, <1>4, ControlMovePreserves

(* cli_ftw returns CL_EMEM.                                                *)
LEMMA WalkFailedPreserves ==
    ASSUME PoolInv, NEW w \in Worker, WalkFailed(w)
    PROVE  PoolInv'
<1>1. /\ pc[w] = "failed"
      /\ UNCHANGED <<state, thr_alive, thr_idle, thr_multiscan, queue, popped, streak,
                      pend, fresh, jobs>>
    BY DEF WalkFailed, queues, counters
<1>2. pc[w] \in ControlPC /\ jobs' \in [MultiJob -> Int]
    BY <1>1 DEF PoolInv, TypeOK, ControlPC
<1>3. CASE Finish(w) /\ progexit' = TRUE
    <2>1. job[w] \in Job
        BY <1>2, PoolAssumption DEF PoolInv, JobInv, Job
    <2>2. /\ Cardinality(Control) - One(pc[w] \in ControlPC) <= thr_multiscan'
          /\ thr_multiscan' \in Nat /\ (thr_multiscan' = 0 \/ thr_multiscan' < thr_max)
        BY <1>1, <1>2, ControlFacts DEF One
    <2>3. progexit' \in BOOLEAN
        BY <1>3
    <2> QED BY <1>1, <1>2, <1>3, <2>1, <2>2, <2>3, FinishPreserves
<1>4. CASE pc' = [pc EXCEPT ![w] = "waitall"] /\ UNCHANGED <<job, done, progexit>>
    BY Zenon, <1>1, <1>2, <1>4, ControlMovePreserves
<1> QED BY Zenon, <1>3, <1>4 DEF WalkFailed

-----------------------------------------------------------------------------
(* thrmgr_destroy.                                                         *)

(* The receive loop's step from c: it sleeps, or frees an empty pool.      *)
LEMMA FreePreserves ==
    ASSUME PoolInv, pc[Main] \in MainPC \ {"gone"}, ~(thr_alive > 0),
           state' = "FREED", pc' = [pc EXCEPT ![Main] = "gone"],
           UNCHANGED <<thr_alive, thr_idle, thr_multiscan, queue, popped, streak, job,
                       pend, fresh, jobs, progexit, done>>
    PROVE  PoolInv'
<1>1. Main \in Thread /\ Main \notin Worker /\ \A u \in Worker : u \in Thread
    BY PoolAssumption DEF Thread
<1>2. Alive = {}
    <2>1. Cardinality(Alive) = 0
        BY DEF PoolInv, TypeOK, CountersMatch
    <2> QED BY <2>1, SetsFinite, FS_EmptySet
<1>3. /\ pc' \in [Thread -> WorkerPC \cup MainPC] /\ pc'[Main] = "gone"
      /\ \A u \in Thread : u # Main => pc'[u] = pc[u]
    BY <1>1 DEF PoolInv, TypeOK, MainPC
<1>4. /\ pc'[Main] \in MainPC /\ \A u \in Worker : pc'[u] \in WorkerPC
      /\ \A u \in Worker : Same(pc[u], pc'[u])
    BY <1>1, <1>3, SameRefl DEF PoolInv, TypeOK, MainPC
<1>5. FreedInv' /\ state' \in {"VALID", "EXIT", "FREED"}
    BY <1>1, <1>2, <1>3 DEF FreedInv, Alive
<1>6. \A u \in Thread : pc'[u] \in {"queue_wait", "queue_woken"} => pend'[u] \in Job
    BY <1>3 DEF PoolInv, JobInv
<1>7. /\ pend' \in [Thread -> Job \cup {NoJob}] /\ fresh' \subseteq Job
      /\ jobs' \in [MultiJob -> Int] /\ progexit' \in BOOLEAN /\ done' = done
    BY DEF PoolInv, TypeOK
<1> QED BY <1>3, <1>4, <1>5, <1>6, <1>7, StillStep

(* thrmgr_destroy closes the pool.                                         *)
LEMMA DestroyPreserves == ASSUME PoolInv, Destroy PROVE PoolInv'
<1>1. /\ pc[Main] = "ready" /\ state = "VALID"
      /\ UNCHANGED <<thr_alive, thr_idle, thr_multiscan, queue, popped, streak, job,
                      pend, fresh, jobs, progexit, done>>
    BY DEF Destroy, queues, counters
<1>2. CASE thr_alive > 0
    <2> DEFINE r == WakeAll(pc, PoolWaiters(pc))
    <2>1. state' = "EXIT" /\ pc' = [r EXCEPT ![Main] = "destroy_wait"]
        BY <1>2 DEF Destroy
    <2>2. Main \in Thread /\ Main \notin Worker /\ \A u \in Worker : u \in Thread
        BY PoolAssumption DEF Thread
    <2>3. Wakes(pc, r)
        <3>1. PoolWaiters(pc) \in SUBSET Thread
            BY DEF PoolWaiters
        <3> QED BY <3>1, SignalWakes DEF PoolInv, TypeOK
    <2>4. /\ pc' \in [Thread -> WorkerPC \cup MainPC] /\ pc'[Main] = "destroy_wait"
          /\ \A u \in Thread : u # Main => pc'[u] = pc[u] \/ pc'[u] = Waken(pc[u])
        BY <2>1, <2>2, <2>3 DEF Wakes, MainPC
    <2>5. \A u \in Thread : pc[u] \in WorkerPC \cup MainPC
        BY DEF PoolInv, TypeOK
    <2>6. \A u \in Thread : u # Main =>
              /\ Same(pc[u], pc'[u]) /\ (pc[u] \in WorkerPC => pc'[u] \in WorkerPC)
              /\ pc'[u] \in {"queue_wait", "queue_woken"}
                     => pc[u] \in {"queue_wait", "queue_woken"}
        BY <2>4, <2>5, WakenSame
    <2>7. /\ pc'[Main] \in MainPC /\ \A u \in Worker : pc'[u] \in WorkerPC
          /\ \A u \in Worker : Same(pc[u], pc'[u])
        BY <2>2, <2>4, <2>6 DEF PoolInv, TypeOK, MainPC
    <2>8. FreedInv' /\ state' \in {"VALID", "EXIT", "FREED"}
        BY <2>1, <2>4 DEF FreedInv
    <2>9. \A u \in Thread : pc'[u] \in {"queue_wait", "queue_woken"} => pend'[u] \in Job
        BY Zenon, <1>1, <2>4, <2>6 DEF PoolInv, JobInv
    <2>10. /\ pend' \in [Thread -> Job \cup {NoJob}] /\ fresh' \subseteq Job
           /\ jobs' \in [MultiJob -> Int] /\ progexit' \in BOOLEAN /\ done' = done
        BY <1>1 DEF PoolInv, TypeOK
    <2> QED BY <1>1, <2>4, <2>7, <2>8, <2>9, <2>10, StillStep
<1>3. CASE ~(thr_alive > 0)
    <2>1. state' = "FREED" /\ pc' = [pc EXCEPT ![Main] = "gone"]
        BY <1>3 DEF Destroy
    <2>2. pc[Main] \in MainPC \ {"gone"}
        BY <1>1 DEF MainPC
    <2> QED BY <1>1, <1>3, <2>1, <2>2, FreePreserves
<1> QED BY <1>2, <1>3

(* thrmgr_destroy is woken.                                                *)
LEMMA DestroyWokenPreserves == ASSUME PoolInv, DestroyWoken PROVE PoolInv'
<1>1. /\ pc[Main] = "destroy_woken"
      /\ UNCHANGED <<thr_alive, thr_idle, thr_multiscan, queue, popped, streak, job,
                      pend, fresh, jobs, progexit, done>>
    BY DEF DestroyWoken, queues, counters
<1>2. CASE thr_alive > 0
    <2>1. state' = state /\ pc' = [pc EXCEPT ![Main] = "destroy_wait"]
        BY <1>2 DEF DestroyWoken
    <2>2. Main \in Thread /\ Main \notin Worker /\ "destroy_wait" \in MainPC \ {"gone"}
        BY PoolAssumption DEF Thread, MainPC
    <2>3. /\ pc' \in [Thread -> WorkerPC \cup MainPC]
          /\ pc'[Main] \in MainPC /\ \A u \in Worker : pc'[u] \in WorkerPC
          /\ \A u \in Worker : Same(pc[u], pc'[u])
          /\ state' \in {"VALID", "EXIT", "FREED"} /\ FreedInv'
          /\ pc'[Main] = "destroy_wait" /\ \A u \in Thread : u # Main => pc'[u] = pc[u]
        BY Zenon, <1>1, <2>1, <2>2, WithinClass
    <2>4. \A u \in Thread : pc'[u] \in {"queue_wait", "queue_woken"} => pend'[u] \in Job
        BY <1>1, <2>3 DEF PoolInv, JobInv
    <2>5. /\ pend' \in [Thread -> Job \cup {NoJob}] /\ fresh' \subseteq Job
          /\ jobs' \in [MultiJob -> Int] /\ progexit' \in BOOLEAN /\ done' = done
        BY <1>1 DEF PoolInv, TypeOK
    <2> QED BY <1>1, <2>3, <2>4, <2>5, StillStep
<1>3. CASE ~(thr_alive > 0)
    <2>1. state' = "FREED" /\ pc' = [pc EXCEPT ![Main] = "gone"]
        BY <1>3 DEF DestroyWoken
    <2>2. pc[Main] \in MainPC \ {"gone"}
        BY <1>1 DEF MainPC
    <2> QED BY <1>1, <1>3, <2>1, <2>2, FreePreserves
<1> QED BY <1>2, <1>3

(* A step that changes nothing.                                            *)
LEMMA StutterPreserves == ASSUME PoolInv, UNCHANGED vars PROVE PoolInv'
<1>1. UNCHANGED <<state, thr_alive, thr_idle, thr_multiscan, queue, popped, streak,
                  pc, job, pend, fresh, jobs, progexit, done>>
    BY DEF vars
<1>2. Alive' = Alive /\ Idle' = Idle /\ Control' = Control /\ Running' = Running
    BY <1>1 DEF Alive, Idle, Control, Running
<1>3. TypeOK' /\ JobInv' /\ RatioInv'
    BY <1>1 DEF PoolInv, TypeOK, JobInv, RatioInv, PickRatio
<1>4. CountersMatch' /\ QueueBound' /\ ControlInv' /\ FreedInv'
    BY <1>1, <1>2 DEF PoolInv, CountersMatch, QueueBound, ControlInv, FreedInv
<1> QED BY <1>3, <1>4 DEF PoolInv

-----------------------------------------------------------------------------
(* Every step preserves the invariant: one case for each action.           *)
LEMMA NextPreserves == PoolInv /\ [Next]_vars => PoolInv'
<1> SUFFICES ASSUME PoolInv, [Next]_vars PROVE PoolInv'
    OBVIOUS
<1>1. ASSUME NEW t \in Thread, DispatchStep(t) PROVE PoolInv'
    BY <1>1, DispatchPreserves, DispatchSleepPreserves, DispatchRefusedPreserves,
       ResumePreserves, SleepAgainPreserves, ResumeFailsPreserves DEF DispatchStep
<1>2. ASSUME NEW t \in Thread, SpuriousWakeup(t) PROVE PoolInv'
    BY <1>2, SpuriousPreserves
<1>3. ASSUME NEW w \in Worker, LoopStep(w) PROVE PoolInv'
    BY <1>3, TakePreserves, SleepPreserves, QuitPreserves, ExpirePreserves,
       LeavePreserves DEF LoopStep
<1>4. ASSUME NEW w \in Worker, HandlerStep(w) PROVE PoolInv'
    BY <1>4, RunJobPreserves, MultiStartPreserves, MultiRefusePreserves,
       MultiNoGroupPreserves, VisitFilePreserves, WalkEndPreserves, WalkFailedPreserves,
       WaitForAllPreserves, MultiEndPreserves DEF HandlerStep
<1>5. ASSUME NEW w \in Worker, WorkerTimeout(w) PROVE PoolInv'
    BY <1>5, TimeoutPreserves
<1>6. CASE ProgExit
    BY <1>6, ProgExitPreserves
<1>7. CASE Destroy \/ DestroyWoken
    BY <1>7, DestroyPreserves, DestroyWokenPreserves
<1>8. CASE Terminated \/ UNCHANGED vars
    BY <1>8, StutterPreserves DEF Terminated
<1> QED BY <1>1, <1>2, <1>3, <1>4, <1>5, <1>6, <1>7, <1>8 DEF Next

(***************************************************************************)
(* The inductive invariant holds in every reachable state of the pool, for *)
(* any number of workers, any queue_max, any jobs and any faults.          *)
(***************************************************************************)
THEOREM PoolInvariant == Spec => []PoolInv
BY InitPool, NextPreserves, PTL DEF Spec

(***************************************************************************)
(* Every variable keeps its type: in particular the counters that          *)
(* thrmgr_worker and command() decrement never go below zero.              *)
(***************************************************************************)
THEOREM TypeCorrect == Spec => []TypeOK
<1>1. PoolInv => TypeOK
    BY DEF PoolInv
<1> QED BY <1>1, PoolInvariant, PTL

(***************************************************************************)
(* thr_alive and thr_idle count the threads that exist and those that wait *)
(* for work, on every path through thrmgr_worker and                       *)
(* thrmgr_dispatch_internal.                                               *)
(***************************************************************************)
THEOREM CountersCorrect == Spec => []CountersMatch
<1>1. PoolInv => CountersMatch
    BY DEF PoolInv
<1> QED BY <1>1, PoolInvariant, PTL

(***************************************************************************)
(* Jobs waiting and jobs in a handler never exceed queue_max together, and *)
(* bulk jobs wait in at most half of it: what thrmgr_contended is for.     *)
(***************************************************************************)
THEOREM QueueBounded == Spec => []QueueBound
<1>1. PoolInv => QueueBound
    BY DEF PoolInv
<1> QED BY <1>1, PoolInvariant, PTL

(***************************************************************************)
(* thrmgr_pop serves the two queues in the ratio 4 to 1 while both have    *)
(* jobs.                                                                   *)
(***************************************************************************)
THEOREM RatioKept == Spec => []PickRatio
<1>1. PoolInv => PickRatio
    BY DEF PoolInv, RatioInv
<1> QED BY <1>1, PoolInvariant, PTL

(***************************************************************************)
(* The check multiscan+1 < max of session.c keeps one thread of the pool   *)
(* out of the control threads, whatever fails and whatever is leaked.      *)
(***************************************************************************)
THEOREM ReserveKept == Spec => []ControlReserve
<1>1. PoolInv => ControlReserve
    <2> SUFFICES ASSUME PoolInv PROVE ControlReserve
        OBVIOUS
    <2>1. Cardinality(Control) <= thr_multiscan
        BY DEF PoolInv, ControlInv
    <2>2. Control # Worker
        <3>1. CASE Control = {}
            BY <3>1, PoolAssumption
        <3>2. CASE Control # {}
            <4>1. Cardinality(Control) # 0
                BY <3>2, SetsFinite, FS_EmptySet
            <4>2. Cardinality(Control) # thr_max
                BY <4>1, ControlFacts
            <4> QED BY <4>2 DEF thr_max
        <3> QED BY <3>1, <3>2
    <2> QED BY <2>1, <2>2 DEF ControlReserve
<1> QED BY <1>1, PoolInvariant, PTL

(***************************************************************************)
(* thrmgr_destroy frees the pool only after the last thread that could     *)
(* touch it has gone.                                                      *)
(***************************************************************************)
THEOREM FreedSafely == Spec => []FreedQuiet
<1>1. PoolInv => FreedQuiet
    <2> SUFFICES ASSUME PoolInv, state = "FREED", NEW t \in Thread
                 PROVE  pc[t] \in {"none", "gone"}
        BY DEF FreedQuiet
    <2>1. CASE t = Main
        BY <2>1 DEF PoolInv, FreedInv
    <2>2. CASE t \in Worker
        BY <2>2 DEF PoolInv, FreedInv, Alive
    <2> QED BY <2>1, <2>2 DEF Thread
<1> QED BY <1>1, PoolInvariant, PTL
=============================================================================
