------------------------- MODULE ThreadPoolDispatch -------------------------
(***************************************************************************)
(* The steps of thrmgr_dispatch_internal preserve the invariant.           *)
(***************************************************************************)
EXTENDS ThreadPoolInv

-----------------------------------------------------------------------------
(* Steps in which no worker changes its class: nothing that is counted     *)
(* moves.                                                                  *)
LEMMA StillStep ==
    ASSUME PoolInv,
           pc' \in [Thread -> WorkerPC \cup MainPC],
           pc'[Main] \in MainPC, \A u \in Worker : pc'[u] \in WorkerPC,
           \A u \in Worker : Same(pc[u], pc'[u]),
           state' \in {"VALID", "EXIT", "FREED"}, FreedInv',
           UNCHANGED <<thr_alive, thr_idle, thr_multiscan, queue, popped, streak, job>>,
           pend' \in [Thread -> Job \cup {NoJob}],
           \A t \in Thread : pc'[t] \in {"queue_wait", "queue_woken"} => pend'[t] \in Job,
           fresh' \subseteq Job, done' = done, jobs' \in [MultiJob -> Int],
           progexit' \in BOOLEAN
    PROVE  PoolInv'
<1>1. Alive' = Alive /\ Idle' = Idle /\ Control' = Control /\ Running' = Running
    BY Unmoved
<1>2. TypeOK'
    BY DEF PoolInv, TypeOK
<1>3. JobInv'
    BY DEF PoolInv, JobInv, Same
<1>4. CountersMatch' /\ ControlInv' /\ QueueBound'
    BY <1>1 DEF PoolInv, CountersMatch, ControlInv, QueueBound
<1>5. RatioInv'
    BY DEF PoolInv, RatioInv, PickRatio
<1> QED BY <1>2, <1>3, <1>4, <1>5 DEF PoolInv

(* Every pc is in its own class.                                           *)
LEMMA SameRefl == ASSUME NEW c PROVE Same(c, c)
BY DEF Same

(* One thread moves within its class.                                      *)
LEMMA WithinClass ==
    ASSUME PoolInv, NEW t \in Thread, NEW c, pc' = [pc EXCEPT ![t] = c],
           t = Main => c \in MainPC \ {"gone"} /\ pc[Main] # "gone",
           t \in Worker => c \in WorkerPC /\ Same(pc[t], c),
           state' = state
    PROVE  /\ pc' \in [Thread -> WorkerPC \cup MainPC]
           /\ pc'[Main] \in MainPC /\ \A u \in Worker : pc'[u] \in WorkerPC
           /\ \A u \in Worker : Same(pc[u], pc'[u])
           /\ state' \in {"VALID", "EXIT", "FREED"} /\ FreedInv'
           /\ pc'[t] = c /\ \A u \in Thread : u # t => pc'[u] = pc[u]
<1>1. Main \in Thread /\ Main \notin Worker /\ \A u \in Worker : u \in Thread
    BY PoolAssumption DEF Thread
<1>2. t = Main \/ t \in Worker
    BY DEF Thread
<1>3. pc \in [Thread -> WorkerPC \cup MainPC]
    BY DEF PoolInv, TypeOK
<1>4. pc'[t] = c /\ \A u \in Thread : u # t => pc'[u] = pc[u]
    BY <1>3
<1>5. pc' \in [Thread -> WorkerPC \cup MainPC]
    BY <1>2, <1>3
<1>6. pc'[Main] \in MainPC /\ \A u \in Worker : pc'[u] \in WorkerPC
    BY <1>1, <1>2, <1>4 DEF PoolInv, TypeOK
<1>7. \A u \in Worker : Same(pc[u], pc'[u])
    BY <1>1, <1>2, <1>4, SameRefl
<1>8. pc[Main] = "gone" <=> pc'[Main] = "gone"
    BY <1>1, <1>2, <1>4
<1>9. Alive' = Alive
    BY <1>7 DEF Alive, Same
<1>10. FreedInv' /\ state' \in {"VALID", "EXIT", "FREED"}
    BY <1>8, <1>9 DEF PoolInv, FreedInv, TypeOK
<1> QED BY <1>4, <1>5, <1>6, <1>7, <1>10

(* Group counts stay integers.                                             *)
LEMMA JobsPlusType ==
    ASSUME TypeOK, NEW j, NEW d \in Int
    PROVE  JobsPlus(j, d) \in [MultiJob -> Int]
BY DEF TypeOK, JobsPlus

(* The exit flag is set.                                                   *)
LEMMA ProgExitPreserves == ASSUME PoolInv, ProgExit PROVE PoolInv'
<1>1. /\ UNCHANGED <<state, thr_alive, thr_idle, thr_multiscan, queue, popped, streak,
                      pc, job, pend, fresh, jobs, done>>
      /\ progexit' = TRUE
    BY DEF ProgExit, queues, counters
<1>2. \A u \in Worker : Same(pc[u], pc'[u])
    BY <1>1, SameRefl
<1>3. FreedInv'
    BY <1>1 DEF PoolInv, FreedInv, Alive
<1>4. progexit' \in BOOLEAN
    BY <1>1
<1>5. \A t \in Thread : pc'[t] \in {"queue_wait", "queue_woken"} => pend'[t] \in Job
    BY <1>1 DEF PoolInv, JobInv
<1> QED BY <1>1, <1>2, <1>3, <1>4, <1>5, StillStep DEF PoolInv, TypeOK

(* A wait returns for no reason.                                           *)
LEMMA SpuriousPreserves ==
    ASSUME PoolInv, NEW t \in Thread, SpuriousWakeup(t)
    PROVE  PoolInv'
<1>1. /\ pc[t] \in {"pool_wait", "destroy_wait", "queue_wait"}
      /\ pc' = [pc EXCEPT ![t] = Waken(pc[t])]
      /\ UNCHANGED <<state, thr_alive, thr_idle, thr_multiscan, queue, popped, streak,
                      job, pend, fresh, jobs, progexit, done>>
    BY DEF SpuriousWakeup, queues, counters
<1>2. pc[t] \in WorkerPC \cup MainPC
    BY DEF PoolInv, TypeOK
<1>3. /\ Same(pc[t], Waken(pc[t]))
      /\ pc[t] \in WorkerPC => Waken(pc[t]) \in WorkerPC
      /\ pc[t] \in MainPC => Waken(pc[t]) \in MainPC
      /\ pc[t] = "gone" <=> Waken(pc[t]) = "gone"
      /\ Waken(pc[t]) \in {"queue_wait", "queue_woken"}
            => pc[t] \in {"queue_wait", "queue_woken"}
    BY <1>2, WakenSame
<1>4. pc[t] # "gone"
    BY <1>1
<1>5. /\ pc' \in [Thread -> WorkerPC \cup MainPC]
      /\ pc'[Main] \in MainPC /\ \A u \in Worker : pc'[u] \in WorkerPC
      /\ \A u \in Worker : Same(pc[u], pc'[u])
      /\ state' \in {"VALID", "EXIT", "FREED"} /\ FreedInv'
      /\ pc'[t] = Waken(pc[t]) /\ \A u \in Thread : u # t => pc'[u] = pc[u]
    BY Zenon, <1>1, <1>3, <1>4, WithinClass DEF PoolInv, TypeOK
<1>6. \A u \in Thread : pc'[u] \in {"queue_wait", "queue_woken"} => pend'[u] \in Job
    BY Zenon, <1>1, <1>3, <1>5 DEF PoolInv, JobInv
<1> QED BY Zenon, <1>1, <1>5, <1>6, StillStep DEF PoolInv, TypeOK

-----------------------------------------------------------------------------
(* thrmgr_dispatch_internal.                                               *)

(* Where a dispatcher is, and where it goes when it sleeps, gives up or    *)
(* comes back: always within its class.                                    *)
LEMMA DispatcherMoves ==
    ASSUME PoolInv, NEW t \in Thread,
           (\E j : Offers(t, j)) \/ pc[t] = "queue_woken",
           NEW c \in {"queue_wait", Back(t), Fail(t)}
    PROVE  /\ t = Main => c \in MainPC \ {"gone"} /\ pc[Main] # "gone"
           /\ t \in Worker => c \in WorkerPC /\ Same(pc[t], c)
<1>1. t = Main => Back(t) = "ready" /\ Fail(t) = "ready"
    BY DEF Back, Fail
<1>2. t \in Worker => Back(t) = "walk" /\ Fail(t) = "failed"
    BY PoolAssumption DEF Back, Fail
<1>3. pc[t] \in {"ready", "file", "queue_woken"} /\ (t \in Worker => pc[t] # "ready")
    BY PoolAssumption DEF Offers
<1> QED BY <1>1, <1>2, <1>3 DEF Same, MainPC, WorkerPC, IdlePC, ControlPC

(* A dispatcher meets a contended queue and sleeps.                        *)
LEMMA DispatchSleepPreserves ==
    ASSUME PoolInv, NEW t \in Thread, NEW j \in Job, DispatchSleep(t, j)
    PROVE  PoolInv'
<1>1. /\ Offers(t, j)
      /\ pc' = [pc EXCEPT ![t] = "queue_wait"] /\ pend' = [pend EXCEPT ![t] = j]
      /\ fresh' = fresh \ {j} /\ jobs' = JobsPlus(j, 1)
      /\ UNCHANGED <<state, thr_alive, thr_idle, thr_multiscan, queue, popped, streak,
                      job, progexit, done>>
    BY DEF DispatchSleep, queues, counters
<1>2. /\ pc' \in [Thread -> WorkerPC \cup MainPC]
      /\ pc'[Main] \in MainPC /\ \A u \in Worker : pc'[u] \in WorkerPC
      /\ \A u \in Worker : Same(pc[u], pc'[u])
      /\ state' \in {"VALID", "EXIT", "FREED"} /\ FreedInv'
      /\ pc'[t] = "queue_wait" /\ \A u \in Thread : u # t => pc'[u] = pc[u]
    BY Zenon, <1>1, DispatcherMoves, WithinClass
<1>3. pend' \in [Thread -> Job \cup {NoJob}] /\ fresh' \subseteq Job
    BY <1>1 DEF PoolInv, TypeOK
<1>4. \A u \in Thread : pc'[u] \in {"queue_wait", "queue_woken"} => pend'[u] \in Job
    BY <1>1, <1>2 DEF PoolInv, JobInv, TypeOK
<1>5. jobs' \in [MultiJob -> Int]
    BY <1>1, JobsPlusType DEF PoolInv
<1>6. progexit' \in BOOLEAN /\ done' = done
    BY <1>1 DEF PoolInv, TypeOK
<1> QED BY <1>1, <1>2, <1>3, <1>4, <1>5, <1>6, StillStep

(* A dispatch fails before it reaches the queue.                           *)
LEMMA DispatchRefusedPreserves ==
    ASSUME PoolInv, NEW t \in Thread, NEW j \in Job, DispatchRefused(t, j)
    PROVE  PoolInv'
<1>1. /\ Offers(t, j)
      /\ pc' = [pc EXCEPT ![t] = Fail(t)] /\ fresh' = fresh \ {j}
      /\ UNCHANGED <<state, thr_alive, thr_idle, thr_multiscan, queue, popped, streak,
                      job, pend, jobs, progexit, done>>
    BY DEF DispatchRefused, queues, counters
<1>2. /\ pc' \in [Thread -> WorkerPC \cup MainPC]
      /\ pc'[Main] \in MainPC /\ \A u \in Worker : pc'[u] \in WorkerPC
      /\ \A u \in Worker : Same(pc[u], pc'[u])
      /\ state' \in {"VALID", "EXIT", "FREED"} /\ FreedInv'
      /\ pc'[t] = Fail(t) /\ \A u \in Thread : u # t => pc'[u] = pc[u]
    BY Zenon, <1>1, DispatcherMoves, WithinClass
<1>3. \A u \in Thread : pc'[u] \in {"queue_wait", "queue_woken"} => pend'[u] \in Job
    BY <1>1, <1>2 DEF PoolInv, JobInv, Fail
<1>4. /\ pend' \in [Thread -> Job \cup {NoJob}] /\ fresh' \subseteq Job
      /\ jobs' \in [MultiJob -> Int] /\ progexit' \in BOOLEAN /\ done' = done
    BY <1>1 DEF PoolInv, TypeOK
<1> QED BY <1>1, <1>2, <1>3, <1>4, StillStep

(* A woken dispatcher still meets a contended queue.                       *)
LEMMA SleepAgainPreserves ==
    ASSUME PoolInv, NEW t \in Thread, DispatchSleepAgain(t)
    PROVE  PoolInv'
<1>1. /\ pc[t] = "queue_woken" /\ pc' = [pc EXCEPT ![t] = "queue_wait"]
      /\ UNCHANGED <<state, thr_alive, thr_idle, thr_multiscan, queue, popped, streak,
                      job, pend, fresh, jobs, progexit, done>>
    BY DEF DispatchSleepAgain, queues, counters
<1>2. /\ pc' \in [Thread -> WorkerPC \cup MainPC]
      /\ pc'[Main] \in MainPC /\ \A u \in Worker : pc'[u] \in WorkerPC
      /\ \A u \in Worker : Same(pc[u], pc'[u])
      /\ state' \in {"VALID", "EXIT", "FREED"} /\ FreedInv'
      /\ pc'[t] = "queue_wait" /\ \A u \in Thread : u # t => pc'[u] = pc[u]
    BY Zenon, <1>1, DispatcherMoves, WithinClass
<1>3. \A u \in Thread : pc'[u] \in {"queue_wait", "queue_woken"} => pend'[u] \in Job
    BY <1>1, <1>2 DEF PoolInv, JobInv
<1>4. /\ pend' \in [Thread -> Job \cup {NoJob}] /\ fresh' \subseteq Job
      /\ jobs' \in [MultiJob -> Int] /\ progexit' \in BOOLEAN /\ done' = done
    BY <1>1 DEF PoolInv, TypeOK
<1> QED BY <1>1, <1>2, <1>3, <1>4, StillStep

(* A woken dispatcher cannot allocate the work item.                       *)
LEMMA ResumeFailsPreserves ==
    ASSUME PoolInv, NEW t \in Thread, DispatchResumeFails(t)
    PROVE  PoolInv'
<1>1. /\ pc[t] = "queue_woken" /\ pc' = [pc EXCEPT ![t] = Fail(t)]
      /\ pend' = [pend EXCEPT ![t] = NoJob] /\ jobs' = JobsPlus(pend[t], -1)
      /\ UNCHANGED <<state, thr_alive, thr_idle, thr_multiscan, queue, popped, streak,
                      job, fresh, progexit, done>>
    BY DEF DispatchResumeFails, queues, counters
<1>2. /\ pc' \in [Thread -> WorkerPC \cup MainPC]
      /\ pc'[Main] \in MainPC /\ \A u \in Worker : pc'[u] \in WorkerPC
      /\ \A u \in Worker : Same(pc[u], pc'[u])
      /\ state' \in {"VALID", "EXIT", "FREED"} /\ FreedInv'
      /\ pc'[t] = Fail(t) /\ \A u \in Thread : u # t => pc'[u] = pc[u]
    BY Zenon, <1>1, DispatcherMoves, WithinClass
<1>3. \A u \in Thread : pc'[u] \in {"queue_wait", "queue_woken"} => pend'[u] \in Job
    BY <1>1, <1>2 DEF PoolInv, JobInv, Fail, TypeOK
<1>4. jobs' \in [MultiJob -> Int]
    BY <1>1, JobsPlusType DEF PoolInv
<1>5. /\ pend' \in [Thread -> Job \cup {NoJob}] /\ fresh' \subseteq Job
      /\ progexit' \in BOOLEAN /\ done' = done
    BY <1>1 DEF PoolInv, TypeOK
<1> QED BY <1>1, <1>2, <1>3, <1>4, <1>5, StillStep

(* Threads in the handler are neither idle nor absent.                     *)
LEMMA RunningBusy ==
    ASSUME PoolInv
    PROVE  Cardinality(Running) <= thr_alive - thr_idle
<1>1. Idle \subseteq Alive /\ Running \subseteq Alive \ Idle /\ Alive \cap Idle = Idle
    BY DEF Idle, Alive, Running, IdlePC, ControlPC
<1>2. IsFiniteSet(Alive) /\ IsFiniteSet(Idle) /\ IsFiniteSet(Alive \ Idle)
    BY Zenon, SetsFinite, FS_Difference
<1>3. Cardinality(Alive \ Idle) = Cardinality(Alive) - Cardinality(Idle)
    BY <1>1, <1>2, FS_Difference
<1>4. Cardinality(Running) <= Cardinality(Alive \ Idle)
    BY <1>1, <1>2, FS_Subset
<1> QED BY <1>3, <1>4 DEF PoolInv, CountersMatch

(* What work_queue_add does to a queue that is not contended.              *)
LEMMA AppendBound ==
    ASSUME PoolInv, NEW j \in Job, ~IsContended(Kind(j)),
           queue' = [queue EXCEPT ![Kind(j)] = Append(@, j)],
           Cardinality(Running') = Cardinality(Running)
    PROVE  queue' \in [QueueKind -> Seq(Job)] /\ QueueBound'
<1>1. Kind(j) \in QueueKind
    BY DEF Kind, QueueKind
<1>2. queue \in [QueueKind -> Seq(Job)] /\ queue["single"] \in Seq(Job) /\ queue["bulk"] \in Seq(Job)
    BY DEF PoolInv, TypeOK, QueueKind
<1>3. queue' \in [QueueKind -> Seq(Job)]
    BY <1>1, <1>2
<1>4. \A s \in Seq(Job) : Len(Append(s, j)) = Len(s) + 1 /\ Len(s) \in Nat
    OBVIOUS
<1>5. /\ Kind(j) = "single" => /\ Len(queue'["single"]) = Len(queue["single"]) + 1
                               /\ queue'["bulk"] = queue["bulk"]
      /\ Kind(j) = "bulk" => /\ Len(queue'["bulk"]) = Len(queue["bulk"]) + 1
                             /\ queue'["single"] = queue["single"]
    BY <1>2, <1>4 DEF QueueKind
<1>6. Items(queue') = Items(queue) + 1
    <2>1. Len(queue["single"]) \in Nat /\ Len(queue["bulk"]) \in Nat
        BY <1>2, <1>4
    <2>0. \A a, b \in Nat : (a + 1) + b = (a + b) + 1 /\ a + (b + 1) = (a + b) + 1
        OBVIOUS
    <2>2. CASE Kind(j) = "single"
        <3>1. Len(queue'["single"]) + Len(queue'["bulk"])
                 = (Len(queue["single"]) + 1) + Len(queue["bulk"])
            BY Zenon, <1>5, <2>2
        <3> QED BY <2>0, <2>1, <3>1, Zenon DEF Items
    <2>3. CASE Kind(j) = "bulk"
        <3>1. Len(queue'["single"]) + Len(queue'["bulk"])
                 = Len(queue["single"]) + (Len(queue["bulk"]) + 1)
            BY Zenon, <1>5, <2>3
        <3> QED BY <2>0, <2>1, <3>1, Zenon DEF Items
    <2> QED BY <1>1, <2>2, <2>3 DEF QueueKind
<1>7. /\ Items(queue) \in Nat /\ Len(queue["bulk"]) \in Nat
      /\ QueueMax \div 2 \in Nat /\ QueueMax \in Nat
      /\ Cardinality(Running) \in Nat /\ thr_alive \in Nat /\ thr_idle \in Nat
    BY ItemsNat, CardsNat, PoolAssumption DEF PoolInv, TypeOK
<1>8. /\ ~(Items(queue) + (thr_alive - thr_idle) >= QueueMax)
      /\ Kind(j) = "bulk" => ~(Len(queue["bulk"]) >= QueueMax \div 2)
    BY DEF IsContended, Contended
<1>9. Items(queue') + Cardinality(Running') <= QueueMax
    BY <1>6, <1>7, <1>8, RunningBusy
<1>10. Len(queue'["bulk"]) <= QueueMax \div 2
    <2>1. CASE Kind(j) = "bulk"
        BY <2>1, <1>5, <1>7, <1>8
    <2>2. CASE Kind(j) = "single"
        BY <2>2, <1>5 DEF PoolInv, QueueBound
    <2> QED BY <1>1, <2>1, <2>2 DEF QueueKind
<1> QED BY <1>3, <1>9, <1>10 DEF QueueBound

(* The dispatcher goes back to its loop and a sleeper of pool_cond wakes.  *)
LEMMA DispatcherBack ==
    ASSUME PoolInv, NEW t \in Thread,
           (\E j : Offers(t, j)) \/ pc[t] = "queue_woken",
           NEW r \in Signal([pc EXCEPT ![t] = Back(t)],
                            PoolWaiters([pc EXCEPT ![t] = Back(t)]))
    PROVE  /\ r \in [Thread -> WorkerPC \cup MainPC]
           /\ r[Main] \in MainPC \ {"gone"} /\ state # "FREED"
           /\ \A u \in Worker : r[u] \in WorkerPC /\ Same(pc[u], r[u])
           /\ \A u \in Thread : r[u] \in {"queue_wait", "queue_woken"}
                  => u # t /\ pc[u] \in {"queue_wait", "queue_woken"}
           /\ pc[t] # "none"
<1> DEFINE p == [pc EXCEPT ![t] = Back(t)]
<1>1. Main \in Thread /\ Main \notin Worker /\ \A u \in Worker : u \in Thread
    BY PoolAssumption DEF Thread
<1>2. /\ pc[t] # "none" /\ pc[t] # "gone"
      /\ Back(t) \notin {"queue_wait", "queue_woken"}
      /\ Back(t) \in WorkerPC \cup MainPC
    BY DEF Offers, Back, WorkerPC, MainPC
<1>3. /\ t = Main => Back(t) \in MainPC \ {"gone"} /\ pc[Main] # "gone"
      /\ t \in Worker => Back(t) \in WorkerPC /\ Same(pc[t], Back(t))
    BY DispatcherMoves
<1>4. state # "FREED" /\ pc[Main] # "gone"
    <2>1. CASE t = Main
        BY <1>2, <2>1 DEF PoolInv, FreedInv
    <2>2. CASE t \in Worker
        BY <1>2, <2>2 DEF PoolInv, FreedInv, Alive
    <2> QED BY <2>1, <2>2 DEF Thread
<1>5. pc \in [Thread -> WorkerPC \cup MainPC] /\ pc[Main] \in MainPC
      /\ \A u \in Worker : pc[u] \in WorkerPC
    BY DEF PoolInv, TypeOK
<1>6. /\ p \in [Thread -> WorkerPC \cup MainPC] /\ p[t] = Back(t)
      /\ \A u \in Thread : u # t => p[u] = pc[u]
    BY <1>2, <1>5
<1>7. PoolWaiters(p) \in SUBSET Thread
    BY DEF PoolWaiters
<1>8. Wakes(p, r)
    BY Zenon, <1>6, <1>7, SignalWakes
<1>9. r \in [Thread -> WorkerPC \cup MainPC]
      /\ \A u \in Thread : r[u] = p[u] \/ r[u] = Waken(p[u])
    BY <1>8 DEF Wakes
<1>10. \A u \in Thread :
         /\ Same(p[u], r[u])
         /\ p[u] \in WorkerPC => r[u] \in WorkerPC
         /\ p[u] \in MainPC => r[u] \in MainPC
         /\ p[u] = "gone" <=> r[u] = "gone"
         /\ r[u] \in {"queue_wait", "queue_woken"} => p[u] \in {"queue_wait", "queue_woken"}
    BY Zenon, <1>6, <1>9, WakenSame
<1>11. p[Main] \in MainPC \ {"gone"}
    BY <1>1, <1>3, <1>4, <1>5, <1>6
<1>12. \A u \in Worker : p[u] \in WorkerPC /\ Same(pc[u], p[u])
    BY <1>1, <1>3, <1>5, <1>6, SameRefl
<1>13. \A u \in Worker : r[u] \in WorkerPC /\ Same(pc[u], r[u])
    BY <1>1, <1>10, <1>12 DEF Same
<1>14. \A u \in Thread : r[u] \in {"queue_wait", "queue_woken"}
                  => u # t /\ pc[u] \in {"queue_wait", "queue_woken"}
    BY <1>2, <1>6, <1>10
<1> QED BY <1>1, <1>2, <1>4, <1>9, <1>10, <1>11, <1>13, <1>14

(* The item is added, a thread started if needed, pool_cond signalled.     *)
LEMMA EnqueuePreserves ==
    ASSUME PoolInv, NEW t \in Thread, NEW j \in Job,
           (\E k : Offers(t, k)) \/ pc[t] = "queue_woken",
           ~IsContended(Kind(j)), Enqueue(t, j),
           pend' \in [Thread -> Job \cup {NoJob}],
           \A u \in Thread : u # t => pend'[u] = pend[u],
           fresh' \subseteq Job, jobs' \in [MultiJob -> Int]
    PROVE  PoolInv'
<1> DEFINE p == [pc EXCEPT ![t] = Back(t)]
           q == [queue EXCEPT ![Kind(j)] = Append(@, j)]
<1>1. /\ queue' = q
      /\ \/ /\ thr_alive' = thr_alive + 1
            /\ \E w \in Worker : /\ pc[w] = "none"
                                 /\ \E r \in Signal(p, PoolWaiters(p)) : pc' = [r EXCEPT ![w] = "top"]
         \/ thr_alive' = thr_alive /\ pc' \in Signal(p, PoolWaiters(p))
      /\ UNCHANGED <<state, thr_idle, thr_multiscan, popped, streak, job, progexit, done>>
    BY Zenon DEF Enqueue
<1>2. Main \in Thread /\ Main \notin Worker /\ \A u \in Worker : u \in Thread
    BY PoolAssumption DEF Thread
<1>3. /\ pc' \in [Thread -> WorkerPC \cup MainPC]
      /\ pc'[Main] \in MainPC \ {"gone"} /\ state # "FREED"
      /\ \A u \in Worker : pc'[u] \in WorkerPC
      /\ \A u \in Worker : pc'[u] = "run" => pc[u] = "run"
      /\ \A u \in Worker : pc'[u] \in ControlPC => pc[u] \in ControlPC
      /\ \A u \in Thread : pc'[u] \in {"queue_wait", "queue_woken"}
              => u # t /\ pc[u] \in {"queue_wait", "queue_woken"}
      /\ Cardinality(Alive') = thr_alive' /\ thr_alive' \in Nat
      /\ Cardinality(Idle') = Cardinality(Idle)
      /\ Cardinality(Control') = Cardinality(Control)
      /\ Cardinality(Running') = Cardinality(Running)
    <2>1. CASE thr_alive' = thr_alive + 1
               /\ \E w \in Worker : /\ pc[w] = "none"
                                    /\ \E r \in Signal(p, PoolWaiters(p)) : pc' = [r EXCEPT ![w] = "top"]
        <3>1. PICK w \in Worker, r \in Signal(p, PoolWaiters(p)) :
                   pc[w] = "none" /\ pc' = [r EXCEPT ![w] = "top"]
            BY Zenon, <2>1
        <3>2. /\ r \in [Thread -> WorkerPC \cup MainPC]
              /\ r[Main] \in MainPC \ {"gone"} /\ state # "FREED"
              /\ \A u \in Worker : r[u] \in WorkerPC /\ Same(pc[u], r[u])
              /\ \A u \in Thread : r[u] \in {"queue_wait", "queue_woken"}
                     => u # t /\ pc[u] \in {"queue_wait", "queue_woken"}
              /\ pc[t] # "none"
            BY Zenon, DispatcherBack
        <3>3. "top" \in WorkerPC /\ "top" \notin ControlPC /\ "top" \notin IdlePC
              /\ "none" \notin ControlPC /\ "none" \notin IdlePC
            BY DEF WorkerPC, ControlPC, IdlePC
        <3>4. /\ pc' \in [Thread -> WorkerPC \cup MainPC] /\ pc'[w] = "top"
              /\ \A u \in Thread : u # w => pc'[u] = r[u]
            BY <1>2, <3>1, <3>2, <3>3
        <3>5. \A u \in Worker : u # w => Same(pc[u], pc'[u])
            BY <1>2, <3>2, <3>4
        <3>6. /\ Cardinality(Alive') = Cardinality(Alive) + 1
              /\ Cardinality(Idle') = Cardinality(Idle)
              /\ Cardinality(Control') = Cardinality(Control)
              /\ Cardinality(Running') = Cardinality(Running)
            <4>1. /\ One(pc[w] # "none") = 0 /\ One(pc'[w] # "none") = 1
                  /\ One(pc[w] \in IdlePC) = 0 /\ One(pc'[w] \in IdlePC) = 0
                  /\ One(pc[w] \in ControlPC) = 0 /\ One(pc'[w] \in ControlPC) = 0
                  /\ One(pc[w] = "run" \/ pc[w] \in ControlPC) = 0
                  /\ One(pc'[w] = "run" \/ pc'[w] \in ControlPC) = 0
                BY <3>1, <3>3, <3>4 DEF One
            <4>2. /\ Cardinality(Alive') = Cardinality(Alive)
                        - One(pc[w] # "none") + One(pc'[w] # "none")
                  /\ Cardinality(Idle') = Cardinality(Idle)
                        - One(pc[w] \in IdlePC) + One(pc'[w] \in IdlePC)
                  /\ Cardinality(Control') = Cardinality(Control)
                        - One(pc[w] \in ControlPC) + One(pc'[w] \in ControlPC)
                  /\ Cardinality(Running') = Cardinality(Running)
                        - One(pc[w] = "run" \/ pc[w] \in ControlPC)
                        + One(pc'[w] = "run" \/ pc'[w] \in ControlPC)
                BY Zenon, <3>5, Moved
            <4>3. /\ Cardinality(Alive') = Cardinality(Alive) - 0 + 1
                  /\ Cardinality(Idle') = Cardinality(Idle) - 0 + 0
                  /\ Cardinality(Control') = Cardinality(Control) - 0 + 0
                  /\ Cardinality(Running') = Cardinality(Running) - 0 + 0
                BY Zenon, <4>1, <4>2
            <4> QED BY <4>3, CardsNat
        <3>7. Cardinality(Alive') = thr_alive' /\ thr_alive' \in Nat
            <4>1. thr_alive \in Nat /\ thr_alive = Cardinality(Alive)
                BY DEF PoolInv, CountersMatch, TypeOK
            <4> QED BY <2>1, <3>6, <4>1
        <3>8. /\ pc'[Main] \in MainPC \ {"gone"} /\ state # "FREED"
              /\ \A u \in Worker : pc'[u] \in WorkerPC
              /\ \A u \in Worker : pc'[u] = "run" => pc[u] = "run"
              /\ \A u \in Worker : pc'[u] \in ControlPC => pc[u] \in ControlPC
            BY <1>2, <3>2, <3>3, <3>4, <3>5 DEF Same
        <3>9. \A u \in Thread : pc'[u] \in {"queue_wait", "queue_woken"}
                     => u # t /\ pc[u] \in {"queue_wait", "queue_woken"}
            BY <3>2, <3>4
        <3> QED BY Zenon, <3>4, <3>6, <3>7, <3>8, <3>9
    <2>2. CASE thr_alive' = thr_alive /\ pc' \in Signal(p, PoolWaiters(p))
        <3>1. /\ pc' \in [Thread -> WorkerPC \cup MainPC]
              /\ pc'[Main] \in MainPC \ {"gone"} /\ state # "FREED"
              /\ \A u \in Worker : pc'[u] \in WorkerPC /\ Same(pc[u], pc'[u])
              /\ \A u \in Thread : pc'[u] \in {"queue_wait", "queue_woken"}
                     => u # t /\ pc[u] \in {"queue_wait", "queue_woken"}
            BY Zenon, <2>2, DispatcherBack
        <3>2. Alive' = Alive /\ Idle' = Idle /\ Control' = Control /\ Running' = Running
            BY <3>1, Unmoved
        <3>3. Cardinality(Alive') = thr_alive' /\ thr_alive' \in Nat
            BY <2>2, <3>2 DEF PoolInv, CountersMatch, TypeOK
        <3> QED BY Zenon, <3>1, <3>2, <3>3 DEF Same
    <2> QED BY Zenon, <1>1, <2>1, <2>2
<1>4. queue' \in [QueueKind -> Seq(Job)] /\ QueueBound'
    BY Zenon, <1>1, <1>3, AppendBound
<1>5. TypeOK'
    BY Zenon, <1>1, <1>3, <1>4 DEF PoolInv, TypeOK
<1>6. JobInv'
    BY Zenon, <1>1, <1>3 DEF PoolInv, JobInv
<1>7. CountersMatch' /\ ControlInv'
    BY <1>1, <1>3 DEF PoolInv, CountersMatch, ControlInv
<1>8. RatioInv'
    BY <1>1 DEF PoolInv, RatioInv, PickRatio
<1>9. FreedInv'
    BY <1>1, <1>3 DEF FreedInv
<1> QED BY <1>4, <1>5, <1>6, <1>7, <1>8, <1>9 DEF PoolInv

(* A dispatch that meets room at once.                                     *)
LEMMA DispatchPreserves ==
    ASSUME PoolInv, NEW t \in Thread, NEW j \in Job, Dispatch(t, j)
    PROVE  PoolInv'
<1>1. /\ Offers(t, j) /\ ~IsContended(Kind(j)) /\ Enqueue(t, j)
      /\ fresh' = fresh \ {j} /\ jobs' = JobsPlus(j, 1) /\ pend' = pend
    BY DEF Dispatch
<1>2. jobs' \in [MultiJob -> Int]
    BY <1>1, JobsPlusType DEF PoolInv
<1>3. pend' \in [Thread -> Job \cup {NoJob}] /\ fresh' \subseteq Job
    BY <1>1 DEF PoolInv, TypeOK
<1> QED BY <1>1, <1>2, <1>3, EnqueuePreserves

(* A woken dispatcher that finds room.                                     *)
LEMMA ResumePreserves ==
    ASSUME PoolInv, NEW t \in Thread, DispatchResume(t)
    PROVE  PoolInv'
<1>1. /\ pc[t] = "queue_woken" /\ ~IsContended(Kind(pend[t])) /\ Enqueue(t, pend[t])
      /\ pend' = [pend EXCEPT ![t] = NoJob] /\ fresh' = fresh /\ jobs' = jobs
    BY DEF DispatchResume
<1>2. pend[t] \in Job
    BY <1>1 DEF PoolInv, JobInv
<1>3. /\ pend' \in [Thread -> Job \cup {NoJob}] /\ fresh' \subseteq Job
      /\ jobs' \in [MultiJob -> Int] /\ \A u \in Thread : u # t => pend'[u] = pend[u]
    BY <1>1 DEF PoolInv, TypeOK
<1> QED BY <1>1, <1>2, <1>3, EnqueuePreserves

=============================================================================
