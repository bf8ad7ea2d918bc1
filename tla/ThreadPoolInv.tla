--------------------------- MODULE ThreadPoolInv ----------------------------
(***************************************************************************)
(* The inductive invariant of ThreadPool, how a step of one thread changes *)
(* the sets that the counters count, and the steps of thrmgr_worker.       *)
(***************************************************************************)
EXTENDS ThreadPool, FiniteSetTheorems, TLAPS

-----------------------------------------------------------------------------
(* The inductive invariant.                                                *)

(* Facts about single threads: a control thread runs a MULTISCAN, a thread *)
(* in the handler has a job, a sleeping dispatcher remembers a job.        *)
JobInv ==
    /\ \A w \in Worker : pc[w] = "run" => job[w] \in Job
    /\ \A w \in Worker : pc[w] \in ControlPC => job[w] \in MultiJob
    /\ \A t \in Thread : pc[t] \in {"queue_wait", "queue_woken"} => pend[t] \in Job

(* Once the single queue has used up its turn the bulk counter is 0, so    *)
(* that the next bulk job ends the bulk turn.                              *)
RatioInv ==
    /\ popped["single"] >= RATIO => popped["bulk"] = 0
    /\ streak["single"] <= popped["single"]
    /\ streak["bulk"] = 1 => popped["single"] < RATIO
    /\ PickRatio

(* The pool keeps room for one thread that is not a control thread.        *)
ControlInv ==
    /\ Cardinality(Control) <= thr_multiscan
    /\ thr_multiscan = 0 \/ thr_multiscan < thr_max

(* The pool is freed in the step that makes Main leave, with no thread.    *)
FreedInv ==
    /\ state = "FREED" <=> pc[Main] = "gone"
    /\ state = "FREED" => Alive = {}

PoolInv ==
    /\ TypeOK
    /\ JobInv
    /\ CountersMatch
    /\ QueueBound
    /\ RatioInv
    /\ ControlInv
    /\ FreedInv

-----------------------------------------------------------------------------
(* How a step changes the sets that the counters count.                    *)

Same(c, d) ==
    /\ c = "none" <=> d = "none"
    /\ c \in IdlePC <=> d \in IdlePC
    /\ c \in ControlPC <=> d \in ControlPC
    /\ c = "run" <=> d = "run"

One(b) == IF b THEN 1 ELSE 0

(* Removing and adding one element changes a cardinality by one.           *)
LEMMA CardMove ==
    ASSUME NEW S, NEW T, NEW w, IsFiniteSet(S),
           \A u : u # w => (u \in T <=> u \in S)
    PROVE  /\ IsFiniteSet(T)
           /\ Cardinality(S) \in Nat /\ Cardinality(T) \in Nat
           /\ Cardinality(T) = Cardinality(S) - One(w \in S) + One(w \in T)
<1>0. /\ IsFiniteSet(S \ {w})
      /\ Cardinality(S \ {w}) = IF w \in S THEN Cardinality(S) - 1 ELSE Cardinality(S)
    BY FS_RemoveElement
<1>2. Cardinality(S) \in Nat /\ Cardinality(S \ {w}) \in Nat
    BY <1>0, FS_CardinalityType
<1>1. IsFiniteSet(S \ {w}) /\ Cardinality(S \ {w}) = Cardinality(S) - One(w \in S)
    BY <1>0, <1>2 DEF One
<1>3. CASE w \in T
    <2>1. T = (S \ {w}) \cup {w}
        BY <1>3
    <2>2. IsFiniteSet(T) /\ Cardinality(T) = Cardinality(S \ {w}) + 1
        BY <1>1, <2>1, FS_AddElement
    <2> QED BY <1>1, <1>2, <1>3, <2>2 DEF One
<1>4. CASE w \notin T
    <2>1. T = S \ {w}
        BY <1>4
    <2> QED BY <1>1, <1>2, <1>4, <2>1 DEF One
<1> QED BY <1>3, <1>4

(* The counted sets are finite, as sets of workers.                        *)
LEMMA SetsFinite ==
    /\ IsFiniteSet(Alive) /\ IsFiniteSet(Idle)
    /\ IsFiniteSet(Running) /\ IsFiniteSet(Control)
<1>1. /\ Alive \in SUBSET Worker /\ Idle \in SUBSET Worker
      /\ Running \in SUBSET Worker /\ Control \in SUBSET Worker
    BY DEF Alive, Idle, Running, Control
<1> QED BY <1>1, FS_Subset, PoolAssumption

(* A step in which one worker moves and the others keep their class.       *)
LEMMA Moved ==
    ASSUME NEW w \in Worker,
           \A u \in Worker : u # w => Same(pc[u], pc'[u])
    PROVE  /\ Cardinality(Alive') = Cardinality(Alive)
                 - One(pc[w] # "none") + One(pc'[w] # "none")
           /\ Cardinality(Idle') = Cardinality(Idle)
                 - One(pc[w] \in IdlePC) + One(pc'[w] \in IdlePC)
           /\ Cardinality(Control') = Cardinality(Control)
                 - One(pc[w] \in ControlPC) + One(pc'[w] \in ControlPC)
           /\ Cardinality(Running') = Cardinality(Running)
                 - One(pc[w] = "run" \/ pc[w] \in ControlPC)
                 + One(pc'[w] = "run" \/ pc'[w] \in ControlPC)
           /\ Cardinality(Alive') \in Nat /\ Cardinality(Idle') \in Nat
           /\ Cardinality(Control') \in Nat /\ Cardinality(Running') \in Nat
<1> USE SetsFinite
<1>1. /\ \A u : u # w => (u \in Alive' <=> u \in Alive)
      /\ w \in Alive <=> pc[w] # "none"
      /\ w \in Alive' <=> pc'[w] # "none"
    BY DEF Alive, Same
<1>2. /\ \A u : u # w => (u \in Idle' <=> u \in Idle)
      /\ w \in Idle <=> pc[w] \in IdlePC
      /\ w \in Idle' <=> pc'[w] \in IdlePC
    BY DEF Idle, Same
<1>3. /\ \A u : u # w => (u \in Control' <=> u \in Control)
      /\ w \in Control <=> pc[w] \in ControlPC
      /\ w \in Control' <=> pc'[w] \in ControlPC
    BY DEF Control, Same
<1>4. /\ \A u : u # w => (u \in Running' <=> u \in Running)
      /\ w \in Running <=> pc[w] = "run" \/ pc[w] \in ControlPC
      /\ w \in Running' <=> pc'[w] = "run" \/ pc'[w] \in ControlPC
    BY DEF Running, Same
<1>5. /\ Cardinality(Alive') = Cardinality(Alive) - One(w \in Alive) + One(w \in Alive')
      /\ Cardinality(Alive') \in Nat
    BY <1>1, CardMove DEF One
<1>6. /\ Cardinality(Idle') = Cardinality(Idle) - One(w \in Idle) + One(w \in Idle')
      /\ Cardinality(Idle') \in Nat
    BY <1>2, CardMove DEF One
<1>7. /\ Cardinality(Control') = Cardinality(Control) - One(w \in Control) + One(w \in Control')
      /\ Cardinality(Control') \in Nat
    BY <1>3, CardMove DEF One
<1>8. /\ Cardinality(Running') = Cardinality(Running) - One(w \in Running) + One(w \in Running')
      /\ Cardinality(Running') \in Nat
    BY <1>4, CardMove DEF One
<1> QED BY <1>1, <1>2, <1>3, <1>4, <1>5, <1>6, <1>7, <1>8 DEF One

(* A step in which every worker keeps its class.                           *)
LEMMA Unmoved ==
    ASSUME \A u \in Worker : Same(pc[u], pc'[u])
    PROVE  Alive' = Alive /\ Idle' = Idle /\ Control' = Control /\ Running' = Running
BY DEF Alive, Idle, Control, Running, Same

-----------------------------------------------------------------------------
(* What a signal does: some sleepers are awake.                            *)

Wakes(p, r) ==
    /\ r \in [Thread -> WorkerPC \cup MainPC]
    /\ \A t \in Thread : r[t] = p[t] \/ r[t] = Waken(p[t])

(* What waking does to a pc.                                               *)
LEMMA WakenCases ==
    ASSUME NEW c
    PROVE  /\ c = "pool_wait" => Waken(c) = "pool_woken"
           /\ c = "destroy_wait" => Waken(c) = "destroy_woken"
           /\ c = "queue_wait" => Waken(c) = "queue_woken"
           /\ c \notin {"pool_wait", "destroy_wait", "queue_wait"} => Waken(c) = c
BY DEF Waken

(* A signal only wakes.                                                    *)
LEMMA SignalWakes ==
    ASSUME NEW p \in [Thread -> WorkerPC \cup MainPC], NEW S \in SUBSET Thread
    PROVE  /\ Wakes(p, WakeAll(p, S))
           /\ \A r \in Signal(p, S) : Wakes(p, r)
<1>1. \A A \in SUBSET Thread : Wakes(p, WakeAll(p, A))
    <2> SUFFICES ASSUME NEW A \in SUBSET Thread
                 PROVE  Wakes(p, WakeAll(p, A))
        OBVIOUS
    <2>1. \A c \in WorkerPC \cup MainPC : Waken(c) \in WorkerPC \cup MainPC
        BY WakenCases DEF WorkerPC, MainPC
    <2> QED BY <2>1 DEF Wakes, WakeAll
<1>2. ASSUME NEW r \in Signal(p, S) PROVE Wakes(p, r)
    <2>1. CASE S = {}
        BY <2>1 DEF Signal, Wakes
    <2>2. CASE S # {}
        <3>1. PICK t \in S : r = WakeAll(p, {t})
            BY Zenon, <2>2 DEF Signal
        <3> QED BY <1>1, <3>1
    <2> QED BY <2>1, <2>2
<1> QED BY <1>1, <1>2

(* Waking is idempotent, so two signals in a row still only wake.          *)
LEMMA PopSignalsWake ==
    ASSUME pc \in [Thread -> WorkerPC \cup MainPC], NEW q, NEW idle,
           NEW p \in PopSignals(q, idle)
    PROVE  Wakes(pc, p)
<1> DEFINE After(r, kind) == IF Contended(q, thr_alive - idle, kind) THEN {r}
                             ELSE Signal(r, QueueWaiters(r, kind))
<1>1. PICK r \in After(pc, "single") : p \in After(r, "bulk")
    BY DEF PopSignals
<1>2. \A f, kind : QueueWaiters(f, kind) \in SUBSET Thread
    BY DEF QueueWaiters
<1>3. Wakes(pc, r)
    <2>1. Wakes(pc, pc)
        BY DEF Wakes
    <2>2. \A x \in Signal(pc, QueueWaiters(pc, "single")) : Wakes(pc, x)
        BY <1>2, SignalWakes
    <2> QED BY <1>1, <2>1, <2>2
<1>4. Wakes(r, p)
    <2>0. r \in [Thread -> WorkerPC \cup MainPC]
        BY <1>3 DEF Wakes
    <2>1. Wakes(r, r)
        BY <2>0 DEF Wakes
    <2>2. \A x \in Signal(r, QueueWaiters(r, "bulk")) : Wakes(r, x)
        BY <1>2, <2>0, SignalWakes
    <2> QED BY <1>1, <2>1, <2>2
<1>5. \A c : Waken(Waken(c)) = Waken(c)
    BY WakenCases
<1> QED BY <1>3, <1>4, <1>5 DEF Wakes

(* A sleeper that wakes keeps its class, and no other pc appears.          *)
LEMMA WakenSame ==
    ASSUME NEW c \in WorkerPC \cup MainPC, NEW d, d = c \/ d = Waken(c)
    PROVE  /\ Same(c, d)
           /\ c \in WorkerPC => d \in WorkerPC
           /\ c \in MainPC => d \in MainPC
           /\ c = "gone" <=> d = "gone"
           /\ d \in {"queue_wait", "queue_woken"} => c \in {"queue_wait", "queue_woken"}
BY WakenCases DEF Same, WorkerPC, MainPC, IdlePC, ControlPC

(* The form of every step of a worker w: w moves, others at most wake up.  *)
LEMMA WorkerMoves ==
    ASSUME TypeOK, NEW w \in Worker, NEW p, Wakes(pc, p), NEW c \in WorkerPC,
           pc' = [p EXCEPT ![w] = c]
    PROVE  /\ pc' \in [Thread -> WorkerPC \cup MainPC]
           /\ pc'[Main] \in MainPC /\ \A u \in Worker : pc'[u] \in WorkerPC
           /\ pc'[w] = c
           /\ \A u \in Worker : u # w => Same(pc[u], pc'[u])
           /\ pc[Main] = "gone" <=> pc'[Main] = "gone"
           /\ \A t \in Thread : t # w /\ pc'[t] \in {"queue_wait", "queue_woken"}
                                => pc[t] \in {"queue_wait", "queue_woken"}
<1>1. w \in Thread /\ Main \in Thread /\ Main # w /\ \A u \in Worker : u \in Thread
    BY PoolAssumption DEF Thread
<1>2. /\ pc' \in [Thread -> WorkerPC \cup MainPC]
      /\ pc'[w] = c
      /\ \A t \in Thread : t # w => pc'[t] = p[t]
    BY <1>1 DEF Wakes
<1>3. \A t \in Thread : /\ pc[t] \in WorkerPC \cup MainPC
                        /\ p[t] = pc[t] \/ p[t] = Waken(pc[t])
    BY DEF Wakes, TypeOK
<1>4. \A t \in Thread : t # w =>
        /\ Same(pc[t], pc'[t])
        /\ pc[t] \in WorkerPC => pc'[t] \in WorkerPC
        /\ pc[t] \in MainPC => pc'[t] \in MainPC
        /\ pc[t] = "gone" <=> pc'[t] = "gone"
        /\ pc'[t] \in {"queue_wait", "queue_woken"}
              => pc[t] \in {"queue_wait", "queue_woken"}
    BY <1>2, <1>3, WakenSame
<1> QED BY <1>1, <1>2, <1>4 DEF TypeOK

-----------------------------------------------------------------------------
(* The initial state.                                                      *)
LEMMA InitPool == Init => PoolInv
<1> SUFFICES ASSUME Init PROVE PoolInv
    OBVIOUS
<1>1. Main \in Thread /\ \A w \in Worker : w \in Thread /\ w # Main
    BY PoolAssumption DEF Thread
<1>2. TypeOK
    <2>1. /\ pc \in [Thread -> WorkerPC \cup MainPC]
          /\ pc[Main] \in MainPC /\ \A w \in Worker : pc[w] \in WorkerPC
        BY <1>1 DEF Init, WorkerPC, MainPC
    <2>2. <<>> \in Seq(Job)
        OBVIOUS
    <2>3. queue \in [QueueKind -> Seq(Job)]
        BY <2>2 DEF Init
    <2>4. progexit \in BOOLEAN /\ fresh \subseteq Job /\ done \subseteq Job
        BY Zenon DEF Init
    <2>5. job \in [Worker -> Job \cup {NoJob}] /\ pend \in [Thread -> Job \cup {NoJob}]
        BY DEF Init
    <2>6. /\ jobs \in [MultiJob -> Int]
          /\ popped \in [QueueKind -> Nat] /\ streak \in [QueueKind -> Nat]
          /\ thr_alive \in Nat /\ thr_idle \in Nat /\ thr_multiscan \in Nat
          /\ state \in {"VALID", "EXIT", "FREED"}
        BY DEF Init
    <2> QED BY <2>1, <2>3, <2>4, <2>5, <2>6 DEF TypeOK
<1>3. Alive = {} /\ Idle = {} /\ Control = {} /\ Running = {}
    BY <1>1 DEF Init, Alive, Idle, Control, Running, IdlePC, ControlPC
<1>4. Cardinality({}) = 0
    BY FS_EmptySet
<1>5. JobInv /\ RatioInv /\ FreedInv
    BY <1>1, <1>3, PoolAssumption DEF Init, JobInv, RatioInv, FreedInv, PickRatio, ControlPC, QueueKind
<1>6. CountersMatch /\ ControlInv
    BY <1>3, <1>4 DEF Init, CountersMatch, ControlInv
<1>7. QueueBound
    <2>1. Items(queue) = 0 /\ Len(queue["bulk"]) = 0
        BY DEF Init, Items, QueueKind
    <2> QED BY <1>3, <1>4, <2>1, PoolAssumption DEF QueueBound
<1> QED BY <1>2, <1>5, <1>6, <1>7 DEF PoolInv

-----------------------------------------------------------------------------
(* thrmgr_worker.                                                          *)

(* What WorkerTake does to the queues and to the two counters.             *)
LEMMA TakeQueues ==
    ASSUME TypeOK, RatioInv, NEW w \in Worker, WorkerTake(w)
    PROVE  /\ queue' \in [QueueKind -> Seq(Job)]
           /\ Items(queue') = Items(queue) - 1
           /\ Len(queue'["bulk"]) <= Len(queue["bulk"])
           /\ job' = [job EXCEPT ![w] = job'[w]] /\ job'[w] \in Job
           /\ popped' \in [QueueKind -> Nat]
           /\ streak' \in [QueueKind -> Nat]
           /\ RatioInv'
<1> DEFINE from == PopFrom(queue, popped)
<1>1. \/ /\ from = "single" /\ queue["single"] # <<>>
         /\ popped["single"] >= RATIO => queue["bulk"] = <<>>
      \/ /\ from = "bulk" /\ queue["bulk"] # <<>>
         /\ popped["single"] < RATIO => queue["single"] = <<>>
    BY PoolAssumption DEF WorkerTake, PopFrom, PopFirst, Other, TypeOK, QueueKind
<1>2. CASE from = "single"
    <2>1. /\ queue' = [queue EXCEPT !["single"] = Tail(@)]
          /\ job' = [job EXCEPT ![w] = Head(queue["single"])]
          /\ popped' = [k \in QueueKind |->
                IF k = "single" THEN popped["single"] + 1
                ELSE IF popped["single"] + 1 = PopRatio(popped) THEN 0 ELSE popped[k]]
          /\ streak' = [k \in QueueKind |->
                IF k = "single" /\ queue["bulk"] # <<>> THEN streak[k] + 1 ELSE 0]
        BY <1>2 DEF WorkerTake, PoppedAfter, Unlink, Other
    <2>2. queue["single"] \in Seq(Job) /\ queue["single"] # <<>>
        BY <1>1, <1>2 DEF TypeOK, QueueKind
    <2>3. /\ Head(queue["single"]) \in Job /\ Tail(queue["single"]) \in Seq(Job)
          /\ Len(Tail(queue["single"])) = Len(queue["single"]) - 1
        BY <2>2
    <2>4. popped'["single"] = popped["single"] + 1
          /\ popped'["bulk"] = IF popped["single"] + 1 = PopRatio(popped) THEN 0 ELSE popped["bulk"]
        BY <2>1 DEF QueueKind
    <2>5. streak'["single"] = (IF queue["bulk"] # <<>> THEN streak["single"] + 1 ELSE 0)
          /\ streak'["bulk"] = 0
        BY <2>1 DEF QueueKind
    <2>6. popped' \in [QueueKind -> Nat] /\ streak' \in [QueueKind -> Nat]
        BY <2>1 DEF TypeOK, QueueKind
    <2>7. RatioInv'
        BY <1>1, <1>2, <2>4, <2>5, PoolAssumption DEF RatioInv, PickRatio, PopRatio, TypeOK, QueueKind
    <2>8. job' = [job EXCEPT ![w] = job'[w]] /\ job'[w] \in Job
        BY <2>1, <2>3 DEF TypeOK, Job
    <2> QED BY <2>1, <2>3, <2>6, <2>7, <2>8 DEF TypeOK, Items, QueueKind
<1>3. CASE from = "bulk"
    <2>1. /\ queue' = [queue EXCEPT !["bulk"] = Tail(@)]
          /\ job' = [job EXCEPT ![w] = Head(queue["bulk"])]
          /\ popped' = [k \in QueueKind |->
                IF k = "bulk" THEN popped["bulk"] + 1
                ELSE IF popped["bulk"] + 1 = PopRatio(popped) THEN 0 ELSE popped[k]]
          /\ streak' = [k \in QueueKind |->
                IF k = "bulk" /\ queue["single"] # <<>> THEN streak[k] + 1 ELSE 0]
        BY <1>3 DEF WorkerTake, PoppedAfter, Unlink, Other
    <2>2. queue["bulk"] \in Seq(Job) /\ queue["bulk"] # <<>>
        BY <1>1, <1>3 DEF TypeOK, QueueKind
    <2>3. /\ Head(queue["bulk"]) \in Job
          /\ Tail(queue["bulk"]) \in Seq(Job)
          /\ Len(Tail(queue["bulk"])) = Len(queue["bulk"]) - 1
        BY <2>2
    <2>4. popped'["bulk"] = popped["bulk"] + 1
          /\ popped'["single"] = IF popped["bulk"] + 1 = PopRatio(popped) THEN 0 ELSE popped["single"]
        BY <2>1 DEF QueueKind
    <2>5. streak'["bulk"] = (IF queue["single"] # <<>> THEN streak["bulk"] + 1 ELSE 0)
          /\ streak'["single"] = 0
        BY <2>1 DEF QueueKind
    <2>6. popped' \in [QueueKind -> Nat] /\ streak' \in [QueueKind -> Nat]
        BY <2>1 DEF TypeOK, QueueKind
    <2>7. RatioInv'
        BY <1>1, <1>3, <2>4, <2>5, PoolAssumption DEF RatioInv, PickRatio, PopRatio, TypeOK, QueueKind
    <2>8. job' = [job EXCEPT ![w] = job'[w]] /\ job'[w] \in Job
        BY <2>1, <2>3 DEF TypeOK, Job
    <2> QED BY <2>1, <2>3, <2>6, <2>7, <2>8 DEF TypeOK, Items, QueueKind
<1> QED BY <1>1, <1>2, <1>3

(* Cardinalities of the counted sets are natural numbers.                  *)
LEMMA CardsNat ==
    /\ Cardinality(Alive) \in Nat /\ Cardinality(Idle) \in Nat
    /\ Cardinality(Running) \in Nat /\ Cardinality(Control) \in Nat
BY SetsFinite, FS_CardinalityType

(* What every step of an existing worker w that ends at c has in common,   *)
(* whatever it does to the other variables.                                *)
MoveTypes(w, c) ==
    /\ pc' \in [Thread -> WorkerPC \cup MainPC]
    /\ pc'[Main] \in MainPC /\ \A u \in Worker : pc'[u] \in WorkerPC
    /\ pc'[w] = c
    /\ \A u \in Worker : u # w => Same(pc[u], pc'[u])
    /\ \A t \in Thread : t # w /\ pc'[t] \in {"queue_wait", "queue_woken"}
                         => pc[t] \in {"queue_wait", "queue_woken"}

MoveCards(w, c) ==
    /\ Cardinality(Alive') = thr_alive - 1 + One(c # "none")
    /\ Cardinality(Idle') = thr_idle - One(pc[w] \in IdlePC) + One(c \in IdlePC)
    /\ Cardinality(Control') = Cardinality(Control)
          - One(pc[w] \in ControlPC) + One(c \in ControlPC)
    /\ Cardinality(Running') = Cardinality(Running)
          - One(pc[w] = "run" \/ pc[w] \in ControlPC)
          + One(c = "run" \/ c \in ControlPC)
    /\ Cardinality(Alive') \in Nat /\ Cardinality(Idle') \in Nat
    /\ Cardinality(Control') \in Nat /\ Cardinality(Running') \in Nat
    /\ Cardinality(Control) \in Nat /\ Cardinality(Running) \in Nat

MoveFacts(w, c) == MoveTypes(w, c) /\ MoveCards(w, c)

(* A step of an existing worker w to c, with some sleepers woken.          *)
LEMMA WorkerFrame ==
    ASSUME PoolInv, NEW w \in Worker, pc[w] # "none", NEW p, Wakes(pc, p),
           NEW c \in WorkerPC, pc' = [p EXCEPT ![w] = c], state' = state
    PROVE  MoveFacts(w, c) /\ FreedInv'
<1>1. /\ pc' \in [Thread -> WorkerPC \cup MainPC]
      /\ pc'[Main] \in MainPC /\ \A u \in Worker : pc'[u] \in WorkerPC
      /\ pc'[w] = c
      /\ \A u \in Worker : u # w => Same(pc[u], pc'[u])
      /\ pc[Main] = "gone" <=> pc'[Main] = "gone"
      /\ \A t \in Thread : t # w /\ pc'[t] \in {"queue_wait", "queue_woken"}
                           => pc[t] \in {"queue_wait", "queue_woken"}
    BY Zenon, WorkerMoves DEF PoolInv
<1>2. w \in Alive /\ state # "FREED"
    BY DEF Alive, PoolInv, FreedInv
<1>3. FreedInv'
    BY <1>1, <1>2 DEF PoolInv, FreedInv
<1>4. /\ Cardinality(Alive') = Cardinality(Alive)
            - One(pc[w] # "none") + One(c # "none")
      /\ Cardinality(Idle') = Cardinality(Idle)
            - One(pc[w] \in IdlePC) + One(c \in IdlePC)
      /\ Cardinality(Control') = Cardinality(Control)
            - One(pc[w] \in ControlPC) + One(c \in ControlPC)
      /\ Cardinality(Running') = Cardinality(Running)
            - One(pc[w] = "run" \/ pc[w] \in ControlPC)
            + One(c = "run" \/ c \in ControlPC)
      /\ Cardinality(Alive') \in Nat /\ Cardinality(Idle') \in Nat
      /\ Cardinality(Control') \in Nat /\ Cardinality(Running') \in Nat
    BY <1>1, Moved
<1>5. Cardinality(Alive') = thr_alive - 1 + One(c # "none")
    BY <1>4 DEF PoolInv, CountersMatch, One
<1>6. Cardinality(Idle') = thr_idle - One(pc[w] \in IdlePC) + One(c \in IdlePC)
    BY <1>4 DEF PoolInv, CountersMatch
<1> QED BY <1>1, <1>3, <1>4, <1>5, <1>6, CardsNat DEF MoveFacts, MoveTypes, MoveCards

(* The bulk share of the queue is a natural number.                        *)
LEMMA HalfNat == ASSUME NEW n \in Nat PROVE n \div 2 \in Nat
OBVIOUS

(* So is the number of waiting jobs.                                       *)
LEMMA ItemsNat ==
    ASSUME TypeOK
    PROVE  /\ Items(queue) \in Nat /\ Len(queue["bulk"]) \in Nat
           /\ QueueMax \div 2 \in Nat
<1>1. queue["single"] \in Seq(Job) /\ queue["bulk"] \in Seq(Job)
    BY DEF TypeOK, QueueKind
<1>2. Len(queue["single"]) \in Nat /\ Len(queue["bulk"]) \in Nat
    BY <1>1
<1>3. QueueMax \in Nat
    BY PoolAssumption
<1>4. QueueMax \div 2 \in Nat
    BY <1>3, HalfNat
<1>5. \A a, b \in Nat : a + b \in Nat
    OBVIOUS
<1>6. Items(queue) \in Nat
    BY <1>2, <1>5, Zenon DEF Items
<1> QED BY <1>2, <1>4, <1>6

(***************************************************************************)
(* A worker step that takes no job: the queues stay as they are, the       *)
(* counters follow the sets they count and no more threads run.            *)
(***************************************************************************)
LEMMA QuietStep ==
    ASSUME PoolInv, NEW w \in Worker, NEW c, MoveFacts(w, c), FreedInv',
           thr_alive' = Cardinality(Alive'), thr_idle' = Cardinality(Idle'),
           thr_multiscan' \in Nat, ControlInv',
           Cardinality(Running') <= Cardinality(Running),
           UNCHANGED <<state, queue, popped, streak, pend>>,
           job' \in [Worker -> Job \cup {NoJob}],
           \A u \in Worker : u # w => job'[u] = job[u],
           c = "run" => job'[w] \in Job, c \in ControlPC => job'[w] \in MultiJob,
           c \in {"queue_wait", "queue_woken"} => pend[w] \in Job,
           fresh' \subseteq Job, done' \subseteq Job, jobs' \in [MultiJob -> Int],
           progexit' \in BOOLEAN
    PROVE  PoolInv'
<1>1. thr_alive' \in Nat /\ thr_idle' \in Nat
    BY DEF MoveFacts, MoveCards
<1>2. TypeOK'
    BY <1>1 DEF MoveFacts, MoveTypes, PoolInv, TypeOK
<1>3. JobInv'
    <2>1. \A t \in Thread : pc'[t] \in {"queue_wait", "queue_woken"} => pend'[t] \in Job
        BY DEF MoveFacts, MoveTypes, PoolInv, JobInv
    <2>2. \A u \in Worker : pc'[u] = "run" => job'[u] \in Job
        BY DEF MoveFacts, MoveTypes, PoolInv, JobInv, Same
    <2>3. \A u \in Worker : pc'[u] \in ControlPC => job'[u] \in MultiJob
        BY DEF MoveFacts, MoveTypes, PoolInv, JobInv, Same
    <2> QED BY <2>1, <2>2, <2>3 DEF JobInv
<1>4. CountersMatch'
    BY DEF CountersMatch
<1>5. QueueBound'
    <2>1. Items(queue) \in Nat /\ QueueMax \in Nat
        BY ItemsNat, PoolAssumption DEF PoolInv
    <2>2. Items(queue) + Cardinality(Running') <= QueueMax
        BY <2>1 DEF MoveFacts, MoveCards, PoolInv, QueueBound
    <2> QED BY <2>2 DEF PoolInv, QueueBound
<1>6. RatioInv'
    BY DEF PoolInv, RatioInv, PickRatio
<1> QED BY <1>2, <1>3, <1>4, <1>5, <1>6 DEF PoolInv

(* The same for a step of the worker loop: only pc and the counters move.  *)
LEMMA IdleStep ==
    ASSUME PoolInv, NEW w \in Worker, NEW c, MoveFacts(w, c), FreedInv',
           thr_alive' = Cardinality(Alive'), thr_idle' = Cardinality(Idle'),
           thr_multiscan' = thr_multiscan,
           Cardinality(Control') = Cardinality(Control),
           Cardinality(Running') = Cardinality(Running),
           c \notin ControlPC, c # "run", c \notin {"queue_wait", "queue_woken"},
           UNCHANGED <<state, queue, popped, streak, pend, job, fresh, done, jobs,
                       progexit>>
    PROVE  PoolInv'
<1>1. ControlInv'
    BY DEF PoolInv, ControlInv
<1>2. /\ thr_multiscan' \in Nat /\ job' \in [Worker -> Job \cup {NoJob}]
      /\ fresh' \subseteq Job /\ done' \subseteq Job /\ jobs' \in [MultiJob -> Int]
      /\ progexit' \in BOOLEAN
    BY DEF PoolInv, TypeOK
<1>3. Cardinality(Running') <= Cardinality(Running)
    BY CardsNat
<1> QED BY <1>1, <1>2, <1>3, QuietStep

(* Waking nobody is a case of waking.                                      *)
LEMMA SelfWakes == ASSUME PoolInv PROVE Wakes(pc, pc)
BY DEF PoolInv, TypeOK, Wakes

(* A worker pops a job: one more runs, one less waits.                     *)
LEMMA TakePreserves ==
    ASSUME PoolInv, NEW w \in Worker, WorkerTake(w)
    PROVE  PoolInv'
<1>1. PICK p \in PopSignals(queue', IdleIn(w)) : pc' = [p EXCEPT ![w] = "run"]
    BY Zenon DEF WorkerTake
<1>2. Wakes(pc, p)
    BY PopSignalsWake DEF PoolInv, TypeOK
<1>3. pc[w] = "top" \/ pc[w] = "pool_woken"
    BY DEF WorkerTake, Looking
<1>4. MoveFacts(w, "run") /\ FreedInv'
    <2>1. "run" \in WorkerPC /\ state' = state /\ pc[w] # "none"
        BY <1>3 DEF WorkerPC, WorkerTake
    <2> QED BY Zenon, <1>1, <1>2, <2>1, WorkerFrame
<1>5. /\ queue' \in [QueueKind -> Seq(Job)]
      /\ Items(queue') = Items(queue) - 1
      /\ Len(queue'["bulk"]) <= Len(queue["bulk"])
      /\ job' = [job EXCEPT ![w] = job'[w]] /\ job'[w] \in Job
      /\ popped' \in [QueueKind -> Nat]
      /\ streak' \in [QueueKind -> Nat]
      /\ RatioInv'
    BY TakeQueues DEF PoolInv
<1>6. /\ Cardinality(Alive') = thr_alive'
      /\ Cardinality(Idle') = thr_idle'
      /\ Cardinality(Control') = Cardinality(Control)
      /\ Cardinality(Running') = Cardinality(Running) + 1
    <2>1. /\ thr_alive' = thr_alive /\ thr_idle' = IdleIn(w) - 1
          /\ thr_alive \in Nat /\ thr_idle \in Nat
        BY DEF WorkerTake, PoolInv, TypeOK
    <2> QED BY <1>3, <1>4, <2>1 DEF IdleIn, MoveFacts, MoveCards, One, IdlePC, ControlPC
<1>7. thr_alive' \in Nat /\ thr_idle' \in Nat /\ thr_multiscan' \in Nat
    BY <1>4, <1>6 DEF MoveFacts, MoveCards, WorkerTake, PoolInv, TypeOK
<1>8. TypeOK'
    BY <1>4, <1>5, <1>7 DEF WorkerTake, MoveFacts, MoveTypes, PoolInv, TypeOK
<1>9. JobInv'
    <2>1. /\ pc'[w] = "run" /\ "run" \notin ControlPC
          /\ \A u \in Worker : u # w => Same(pc[u], pc'[u])
          /\ \A t \in Thread : pc'[t] \in {"queue_wait", "queue_woken"}
                               => pc[t] \in {"queue_wait", "queue_woken"}
        BY <1>4 DEF MoveFacts, MoveTypes, ControlPC
    <2>2. pend' = pend /\ job'[w] \in Job /\ \A u \in Worker : u # w => job'[u] = job[u]
        BY <1>5 DEF WorkerTake, PoolInv, TypeOK
    <2>3. \A u \in Worker : pc'[u] = "run" => job'[u] \in Job
        BY <2>1, <2>2 DEF PoolInv, JobInv, Same
    <2>4. \A u \in Worker : pc'[u] \in ControlPC => job'[u] \in MultiJob
        BY <2>1, <2>2 DEF PoolInv, JobInv, Same
    <2>5. \A t \in Thread : pc'[t] \in {"queue_wait", "queue_woken"} => pend'[t] \in Job
        BY <2>1, <2>2 DEF PoolInv, JobInv
    <2> QED BY <2>3, <2>4, <2>5 DEF JobInv
<1>10. CountersMatch' /\ ControlInv'
    BY <1>6 DEF WorkerTake, PoolInv, CountersMatch, ControlInv
<1>11. QueueBound'
    <2>1. Len(queue'["bulk"]) \in Nat
        BY <1>5 DEF QueueKind
    <2>2. /\ Items(queue) \in Nat /\ Len(queue["bulk"]) \in Nat
          /\ QueueMax \div 2 \in Nat /\ QueueMax \in Nat
          /\ Cardinality(Running) \in Nat
        BY ItemsNat, CardsNat, PoolAssumption DEF PoolInv
    <2>3. /\ Items(queue') + Cardinality(Running') <= QueueMax
          /\ Len(queue'["bulk"]) <= QueueMax \div 2
        BY <1>5, <1>6, <2>1, <2>2 DEF PoolInv, QueueBound
    <2> QED BY <2>3 DEF QueueBound
<1> QED BY <1>4, <1>5, <1>8, <1>9, <1>10, <1>11 DEF PoolInv

(* A worker finds no job and sleeps on pool_cond.                          *)
LEMMA SleepPreserves ==
    ASSUME PoolInv, NEW w \in Worker, WorkerSleep(w)
    PROVE  PoolInv'
<1>1. PICK p \in PopSignals(queue, IdleIn(w)) : pc' = [p EXCEPT ![w] = "pool_wait"]
    BY Zenon DEF WorkerSleep
<1>2. Wakes(pc, p)
    BY PopSignalsWake DEF PoolInv, TypeOK
<1>3. pc[w] = "top" \/ pc[w] = "pool_woken"
    BY DEF WorkerSleep, Looking
<1>4. MoveFacts(w, "pool_wait") /\ FreedInv'
    <2>1. "pool_wait" \in WorkerPC /\ state' = state /\ pc[w] # "none"
        BY <1>3 DEF WorkerPC, WorkerSleep
    <2> QED BY Zenon, <1>1, <1>2, <2>1, WorkerFrame
<1>5. /\ thr_alive' = thr_alive /\ thr_idle' = IdleIn(w)
      /\ thr_multiscan' = thr_multiscan
      /\ UNCHANGED <<state, queue, popped, streak, pend, job, fresh, done, jobs, progexit>>
    BY DEF WorkerSleep, queues
<1>6. /\ thr_alive' = Cardinality(Alive') /\ thr_idle' = Cardinality(Idle')
      /\ Cardinality(Running') = Cardinality(Running)
      /\ Cardinality(Control') = Cardinality(Control)
    <2>1. thr_alive \in Nat /\ thr_idle \in Nat
        BY DEF PoolInv, TypeOK
    <2> QED BY <1>3, <1>4, <1>5, <2>1 DEF IdleIn, MoveFacts, MoveCards, One, IdlePC, ControlPC
<1>9. "pool_wait" \notin ControlPC
    BY DEF ControlPC
<1> QED BY <1>4, <1>5, <1>6, <1>9, IdleStep

(* A worker finds no job in a closing pool.                                *)
LEMMA QuitPreserves ==
    ASSUME PoolInv, NEW w \in Worker, WorkerQuit(w)
    PROVE  PoolInv'
<1>1. PICK p \in PopSignals(queue, IdleIn(w)) : pc' = [p EXCEPT ![w] = "leave"]
    BY Zenon DEF WorkerQuit
<1>2. Wakes(pc, p)
    BY PopSignalsWake DEF PoolInv, TypeOK
<1>3. pc[w] = "top" \/ pc[w] = "pool_woken"
    BY DEF WorkerQuit, Looking
<1>4. MoveFacts(w, "leave") /\ FreedInv'
    <2>1. "leave" \in WorkerPC /\ state' = state /\ pc[w] # "none"
        BY <1>3 DEF WorkerPC, WorkerQuit
    <2> QED BY Zenon, <1>1, <1>2, <2>1, WorkerFrame
<1>5. /\ thr_alive' = thr_alive /\ thr_idle' = IdleIn(w) - 1
      /\ thr_multiscan' = thr_multiscan
      /\ UNCHANGED <<state, queue, popped, streak, pend, job, fresh, done, jobs, progexit>>
    BY DEF WorkerQuit, queues
<1>6. /\ thr_alive' = Cardinality(Alive') /\ thr_idle' = Cardinality(Idle')
      /\ Cardinality(Running') = Cardinality(Running)
      /\ Cardinality(Control') = Cardinality(Control)
    <2>1. thr_alive \in Nat /\ thr_idle \in Nat
        BY DEF PoolInv, TypeOK
    <2> QED BY <1>3, <1>4, <1>5, <2>1 DEF IdleIn, MoveFacts, MoveCards, One, IdlePC, ControlPC
<1>9. "leave" \notin ControlPC
    BY DEF ControlPC
<1> QED BY <1>4, <1>5, <1>6, <1>9, IdleStep

(* The idle timeout of a sleeping worker expires.                          *)
LEMMA TimeoutPreserves ==
    ASSUME PoolInv, NEW w \in Worker, WorkerTimeout(w)
    PROVE  PoolInv'
<1>1. /\ pc[w] = "pool_wait" /\ pc' = [pc EXCEPT ![w] = "pool_timedout"]
      /\ thr_alive' = thr_alive /\ thr_idle' = thr_idle /\ thr_multiscan' = thr_multiscan
      /\ UNCHANGED <<state, queue, popped, streak, pend, job, fresh, done, jobs, progexit>>
    BY DEF WorkerTimeout, queues, counters
<1>2. "pool_timedout" \in WorkerPC /\ "pool_timedout" \notin ControlPC
    BY DEF WorkerPC, ControlPC
<1>3. MoveFacts(w, "pool_timedout") /\ FreedInv'
    BY Zenon, <1>1, <1>2, SelfWakes, WorkerFrame
<1>4. /\ thr_alive' = Cardinality(Alive') /\ thr_idle' = Cardinality(Idle')
      /\ Cardinality(Running') = Cardinality(Running)
      /\ Cardinality(Control') = Cardinality(Control)
    <2>1. thr_alive \in Nat /\ thr_idle \in Nat
        BY DEF PoolInv, TypeOK
    <2> QED BY <1>1, <1>3, <2>1 DEF MoveFacts, MoveCards, One, IdlePC, ControlPC
<1> QED BY <1>1, <1>2, <1>3, <1>4, IdleStep

(* A worker that timed out has the mutex and leaves the loop.              *)
LEMMA ExpirePreserves ==
    ASSUME PoolInv, NEW w \in Worker, WorkerExpire(w)
    PROVE  PoolInv'
<1>1. /\ pc[w] = "pool_timedout" /\ pc' = [pc EXCEPT ![w] = "leave"]
      /\ thr_alive' = thr_alive /\ thr_idle' = thr_idle - 1
      /\ thr_multiscan' = thr_multiscan
      /\ UNCHANGED <<state, queue, popped, streak, pend, job, fresh, done, jobs, progexit>>
    BY DEF WorkerExpire, queues
<1>2. "leave" \in WorkerPC /\ "leave" \notin ControlPC
    BY DEF WorkerPC, ControlPC
<1>3. MoveFacts(w, "leave") /\ FreedInv'
    BY Zenon, <1>1, <1>2, SelfWakes, WorkerFrame
<1>4. /\ thr_alive' = Cardinality(Alive') /\ thr_idle' = Cardinality(Idle')
      /\ Cardinality(Running') = Cardinality(Running)
      /\ Cardinality(Control') = Cardinality(Control)
    <2>1. thr_alive \in Nat /\ thr_idle \in Nat
        BY DEF PoolInv, TypeOK
    <2> QED BY <1>1, <1>3, <2>1 DEF MoveFacts, MoveCards, One, IdlePC, ControlPC
<1> QED BY <1>1, <1>2, <1>3, <1>4, IdleStep

(* thr_alive-- and the end of the thread.                                  *)
LEMMA LeavePreserves ==
    ASSUME PoolInv, NEW w \in Worker, WorkerLeave(w)
    PROVE  PoolInv'
<1> DEFINE q == [pc EXCEPT ![w] = "none"]
<1>1. /\ pc[w] = "leave" /\ pc' = LastOut(q)
      /\ thr_alive' = thr_alive - 1 /\ thr_idle' = thr_idle
      /\ thr_multiscan' = thr_multiscan
      /\ UNCHANGED <<state, queue, popped, streak, pend, job, fresh, done, jobs, progexit>>
    BY DEF WorkerLeave, queues
<1>2. "none" \in WorkerPC /\ "none" \notin ControlPC
    BY DEF WorkerPC, ControlPC
<1>3. PICK p : Wakes(pc, p) /\ pc' = [p EXCEPT ![w] = "none"]
    <2>1. pc \in [Thread -> WorkerPC \cup MainPC] /\ w \in Thread
        BY DEF PoolInv, TypeOK, Thread
    <2>2. CASE thr_alive = 1
        <3>1. PoolWaiters(q) \in SUBSET Thread
            BY DEF PoolWaiters
        <3>2. Wakes(pc, WakeAll(pc, PoolWaiters(q)))
            BY Zenon, <2>1, <3>1, SignalWakes
        <3>3. Waken("none") = "none"
            BY WakenCases
        <3>4. WakeAll(q, PoolWaiters(q)) = [WakeAll(pc, PoolWaiters(q)) EXCEPT ![w] = "none"]
            BY Zenon, <2>1, <3>3 DEF WakeAll
        <3> QED BY Zenon, <1>1, <2>2, <3>2, <3>4 DEF LastOut
    <2>3. CASE thr_alive # 1
        BY Zenon, <1>1, <2>1, <2>3, SelfWakes DEF LastOut
    <2> QED BY <2>2, <2>3
<1>4. MoveFacts(w, "none") /\ FreedInv'
    BY Zenon, <1>1, <1>2, <1>3, WorkerFrame
<1>5. /\ thr_alive' = Cardinality(Alive') /\ thr_idle' = Cardinality(Idle')
      /\ Cardinality(Running') = Cardinality(Running)
      /\ Cardinality(Control') = Cardinality(Control)
    <2>1. thr_alive \in Nat /\ thr_idle \in Nat
        BY DEF PoolInv, TypeOK
    <2> QED BY <1>1, <1>4, <2>1 DEF MoveFacts, MoveCards, One, IdlePC, ControlPC
<1> QED BY <1>1, <1>2, <1>4, <1>5, IdleStep

=============================================================================
