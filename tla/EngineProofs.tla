---------------------------- MODULE EngineProofs ----------------------------
(* The engine a job or the receive loop holds is never freed, and the       *)
(* status used by the self-check is never newer than the engine in use, for *)
(* any number of jobs, engines and updates and with failing dispatches.     *)
EXTENDS EngineRefs, FiniteSetTheorems, TLAPS

Typed ==
  /\ refcount \in [Engines -> Nat]
  /\ job \in [Jobs -> [at : {"idle", "queued", "running", "leaving"}, engine : Engines \cup {None}]]
  /\ engine \in Engines \cup {None}
  /\ rpc \in {"loop", "stat", "load", "done", "exit", "ended"}
  /\ rpc \in {"loop", "stat", "load", "done"} => engine \in Engines
  /\ \A j \in Jobs : job[j] # Idle => job[j].engine \in Engines /\ job[j].at # "idle"

(* A failed dispatch leaves a count too high, never too low.                *)
Counted == \A e \in Engines : Cardinality(Holders(e)) <= refcount[e]

EngineInv == Typed /\ Counted

LEMMA HoldersFinite ==
  ASSUME EngineAssumption, NEW e
  PROVE  IsFiniteSet(Holders(e))
<1>1. IsFiniteSet(Jobs)
  BY FS_Union DEF EngineAssumption, Jobs
<1>2. IsFiniteSet({j \in Jobs : job[j].engine = e})
  BY <1>1, FS_Subset
<1>3. IsFiniteSet({None}) /\ IsFiniteSet({})
  BY FS_Singleton, FS_EmptySet
<1> QED BY <1>2, <1>3, FS_Union DEF Holders

(* Each step does one of three things to an engine: no new holder and no    *)
(* lower count, one holder and one reference more, or one holder and one    *)
(* reference less.                                                          *)
NoMore(e) == Holders(e)' \subseteq Holders(e) /\ refcount[e] <= refcount'[e]
OneMore(e) == (\E x : Holders(e)' = Holders(e) \cup {x}) /\ refcount'[e] = refcount[e] + 1
OneLess(e) == (\E x \in Holders(e) : Holders(e)' \subseteq Holders(e) \ {x}) /\ refcount'[e] = (IF refcount[e] > 0 THEN refcount[e] - 1 ELSE 0)

LEMMA CountedKeeps ==
  ASSUME EngineAssumption, EngineInv, Typed',
         \A e \in Engines : NoMore(e) \/ OneMore(e) \/ OneLess(e)
  PROVE  EngineInv'
<1>1. SUFFICES ASSUME NEW e \in Engines
               PROVE  Cardinality(Holders(e)') <= refcount'[e]
  BY DEF EngineInv, Counted
<1> DEFINE H == Holders(e)
           K == Holders(e)'
<1>2. IsFiniteSet(H)
  BY HoldersFinite
<1>3. Cardinality(H) \in Nat /\ Cardinality(H) <= refcount[e] /\ refcount[e] \in Nat
  BY <1>2, FS_CardinalityType DEF EngineInv, Counted, Typed
<1>4. CASE NoMore(e)
  <2>1. K \subseteq H /\ refcount[e] <= refcount'[e]
    BY <1>4 DEF NoMore
  <2>2. Cardinality(K) <= Cardinality(H) /\ IsFiniteSet(K)
    BY <1>2, <2>1, FS_Subset
  <2>3. Cardinality(K) \in Nat /\ refcount'[e] \in Nat
    BY <2>2, FS_CardinalityType DEF Typed
  <2> QED BY <1>3, <2>1, <2>2, <2>3
<1>5. CASE OneMore(e)
  <2>1. PICK x : K = H \cup {x}
    BY <1>5 DEF OneMore
  <2>2. IsFiniteSet(K) /\ Cardinality(K) <= Cardinality(H) + 1
    <3> HIDE DEF H, K
    <3>1. IsFiniteSet(H \cup {x})
      BY <1>2, FS_AddElement
    <3>2. Cardinality(H \cup {x}) = Cardinality(H) \/ Cardinality(H \cup {x}) = Cardinality(H) + 1
      BY <1>2, FS_AddElement
    <3> QED BY <1>3, <2>1, <3>1, <3>2
  <2>3. Cardinality(K) \in Nat /\ refcount'[e] = refcount[e] + 1
    BY <1>5, <2>2, FS_CardinalityType DEF OneMore
  <2> QED BY <1>3, <2>2, <2>3
<1>6. CASE OneLess(e)
  <2>1. PICK x \in H : K \subseteq H \ {x}
    BY <1>6 DEF OneLess
  <2>2. IsFiniteSet(H \ {x}) /\ Cardinality(H \ {x}) = Cardinality(H) - 1
    BY <1>2, <2>1, FS_RemoveElement
  <2>3. IsFiniteSet(K) /\ Cardinality(K) <= Cardinality(H) - 1
    BY <2>1, <2>2, FS_Subset
  <2>4. Cardinality(K) \in Nat
    BY <2>3, FS_CardinalityType
  <2>5. refcount'[e] = IF refcount[e] > 0 THEN refcount[e] - 1 ELSE 0
    BY <1>6 DEF OneLess
  <2> QED BY <1>3, <2>3, <2>4, <2>5
<1> QED BY <1>1, <1>4, <1>5, <1>6

(* Steps that move no reference.                                            *)
LEMMA QuietStep ==
  ASSUME EngineAssumption, EngineInv, Typed', UNCHANGED refcount,
         \A e \in Engines : Holders(e)' \subseteq Holders(e)
  PROVE  EngineInv'
<1>1. \A e \in Engines : NoMore(e)
  BY DEF NoMore, EngineInv, Typed
<1> QED BY <1>1, CountedKeeps

LEMMA InitEngine ==
  ASSUME EngineAssumption, Init
  PROVE  EngineInv
<1>1. PICK e0 \in Engines : engine = e0 /\ refcount = [x \in Engines |-> IF x = e0 THEN 1 ELSE 0]
  BY DEF Init
<1>2. Typed
  BY <1>1 DEF Init, Typed, Idle
<1>3. ASSUME NEW e \in Engines PROVE Cardinality(Holders(e)) <= refcount[e]
  <2>1. {j \in Jobs : job[j].engine = e} = {}
    BY DEF Init, Idle, EngineAssumption
  <2>2. CASE e = e0
    <3>1. Holders(e) = {None}
      BY <1>1, <2>1, <2>2 DEF Holders, Init
    <3> QED BY <1>1, <2>2, <3>1, FS_Singleton
  <2>3. CASE e # e0
    <3>1. Holders(e) = {}
      BY <1>1, <2>1, <2>3 DEF Holders
    <3> QED BY <1>1, <2>3, <3>1, FS_EmptySet
  <2> QED BY <2>2, <2>3
<1> QED BY <1>2, <1>3 DEF EngineInv, Counted

(* The steps of jobs.                                                       *)
LEMMA JobsKeep ==
  ASSUME EngineAssumption, EngineInv,
         \/ \E j \in Jobs : JobStep(j)
         \/ \E j \in Commands : Dispatch(j) \/ ScanCallbackFails(j) \/ StatsRead(j)
         \/ \E j \in Commands, k \in Files : ScanCallback(j, k)
         \/ \E j \in Commands, k \in Jobs : StatsLook(j, k)
  PROVE  EngineInv'
<1>0. Commands \subseteq Jobs /\ Files \subseteq Jobs
  BY DEF Jobs
<1>1. ASSUME NEW j \in Jobs, JobStart(j) \/ JobTerminated(j) \/ JobLeave(j) PROVE EngineInv'
  <2>1. UNCHANGED <<refcount, engine, rpc>>
    BY <1>1 DEF JobStart, JobTerminated, JobLeave
  <2>2. PICK a \in {"running", "leaving"} : job' = [job EXCEPT ![j].at = a]
    BY <1>1 DEF JobStart, JobTerminated, JobLeave
  <2>3. job[j] # Idle
    BY <1>1 DEF JobStart, JobTerminated, JobLeave, Idle
  <2>4. job' \in [Jobs -> [at : {"idle", "queued", "running", "leaving"}, engine : Engines \cup {None}]]
    BY <2>2 DEF EngineInv, Typed
  <2>5. \A i \in Jobs : job'[i].engine = job[i].engine
    BY <2>2 DEF EngineInv, Typed
  <2>6. \A i \in Jobs : job'[i] # Idle => job[i] # Idle
    BY <2>2, <2>3 DEF EngineInv, Typed
  <2>7. \A i \in Jobs : job'[i] # Idle => job'[i].at # "idle"
    BY <2>2, <2>6 DEF EngineInv, Typed
  <2>8. Typed'
    BY <2>1, <2>4, <2>5, <2>6, <2>7 DEF EngineInv, Typed
  <2>9. \A e \in Engines : Holders(e)' = Holders(e)
    BY <2>1, <2>5 DEF Holders
  <2> QED BY <2>1, <2>8, <2>9, QuietStep
<1>2. ASSUME NEW j \in Jobs, JobEnd(j) PROVE EngineInv'
  <2> DEFINE o == job[j].engine
  <2>1. UNCHANGED <<engine, rpc>> /\ refcount' = Free(o) /\ job' = [job EXCEPT ![j] = Idle]
    BY <1>2 DEF JobEnd
  <2>2. o \in Engines
    BY <1>2 DEF JobEnd, EngineInv, Typed, Idle
  <2>3. refcount' \in [Engines -> Nat]
    BY <2>1, <2>2 DEF EngineInv, Typed, Free
  <2>4. Typed'
    BY <2>1, <2>3 DEF EngineInv, Typed, Idle
  <2>5. ASSUME NEW e \in Engines PROVE NoMore(e) \/ OneLess(e)
    <3>1. \A i \in Jobs : job'[i].engine = e => job[i].engine = e /\ i # j
      BY <2>1 DEF EngineInv, Typed, Idle, EngineAssumption
    <3>2. Holders(e)' \subseteq Holders(e) \ {j}
      BY <2>1, <3>1 DEF Holders, EngineAssumption, Jobs
    <3>3. CASE e = o
      <4>1. j \in Holders(e)
        BY <3>3 DEF Holders
      <4>2. refcount'[e] = IF refcount[e] > 0 THEN refcount[e] - 1 ELSE 0
        BY <2>1, <3>3 DEF Free, EngineInv, Typed
      <4> QED BY <3>2, <4>1, <4>2 DEF OneLess
    <3>4. CASE e # o
      <4>1. refcount'[e] = refcount[e] /\ refcount[e] \in Nat
        BY <2>1, <3>4 DEF Free, EngineInv, Typed
      <4> QED BY <3>2, <4>1 DEF NoMore
    <3> QED BY <3>3, <3>4
  <2> QED BY <2>4, <2>5, CountedKeeps
<1>3. ASSUME NEW k \in Jobs, NEW o \in Engines, job[k] = Idle, refcount' = AddRef(o),
             job' = [job EXCEPT ![k] = [at |-> "queued", engine |-> o]], UNCHANGED <<engine, rpc>>
      PROVE  EngineInv'
  <2>1. Typed'
    BY <1>3 DEF EngineInv, Typed, AddRef, Idle
  <2>2. ASSUME NEW e \in Engines PROVE NoMore(e) \/ OneMore(e)
    <3>1. CASE e = o
      <4>1. Holders(e)' = Holders(e) \cup {k}
        BY <1>3, <3>1 DEF Holders, EngineInv, Typed
      <4>2. refcount'[e] = refcount[e] + 1
        BY <1>3, <3>1 DEF AddRef, EngineInv, Typed
      <4> QED BY <4>1, <4>2 DEF OneMore
    <3>2. CASE e # o
      <4>1. Holders(e)' \subseteq Holders(e)
        BY <1>3, <3>2 DEF Holders, EngineInv, Typed
      <4>2. refcount'[e] = refcount[e] /\ refcount[e] \in Nat
        BY <1>3, <3>2 DEF AddRef, EngineInv, Typed
      <4> QED BY <4>1, <4>2 DEF NoMore
    <3> QED BY <3>1, <3>2
  <2> QED BY <2>1, <2>2, CountedKeeps
<1>4. ASSUME NEW j \in Commands, Dispatch(j) PROVE EngineInv'
  <2>1. engine \in Engines
    BY <1>4 DEF Dispatch, EngineInv, Typed
  <2> QED BY <1>0, <1>3, <1>4, <2>1 DEF Dispatch
<1>5. ASSUME NEW j \in Commands, NEW k \in Files, ScanCallback(j, k) PROVE EngineInv'
  <2>1. job[j].engine \in Engines
    BY <1>0, <1>5 DEF ScanCallback, EngineInv, Typed, Idle
  <2> QED BY <1>0, <1>3, <1>5, <2>1 DEF ScanCallback
<1>6. ASSUME NEW j \in Commands, ScanCallbackFails(j) PROVE EngineInv'
  <2>1. job[j].engine \in Engines
    BY <1>0, <1>6 DEF ScanCallbackFails, EngineInv, Typed, Idle
  <2>2. Typed'
    BY <1>6, <2>1 DEF ScanCallbackFails, EngineInv, Typed, AddRef
  <2>3. \A e \in Engines : refcount[e] <= refcount'[e]
    BY <1>6, <2>1 DEF ScanCallbackFails, EngineInv, Typed, AddRef
  <2>4. \A e \in Engines : Holders(e)' = Holders(e)
    BY <1>6 DEF ScanCallbackFails, Holders
  <2> QED BY <2>2, <2>3, <2>4, CountedKeeps DEF NoMore
<1>7. ASSUME NEW j \in Commands, StatsRead(j) \/ \E k \in Jobs : StatsLook(j, k) PROVE EngineInv'
  <2>1. UNCHANGED <<refcount, engine, rpc, job>>
    BY <1>7 DEF StatsRead, StatsLook
  <2>2. Typed' /\ \A e \in Engines : Holders(e)' = Holders(e)
    BY <2>1 DEF EngineInv, Typed, Holders
  <2> QED BY <2>1, <2>2, QuietStep
<1> QED BY <1>1, <1>2, <1>4, <1>5, <1>6, <1>7 DEF JobStep

(* The steps of the receive loop, of signals and of the updater.            *)
LEMMA LoopKeeps ==
  ASSUME EngineAssumption, EngineInv,
         DbUpdate \/ Sigusr2 \/ ReloadCommand \/ Check \/ Reloading \/ Stop
  PROVE  EngineInv'
<1>1. CASE DbUpdate \/ Sigusr2 \/ ReloadCommand \/ Check
  <2>1. UNCHANGED <<refcount, engine, rpc, job>>
    BY <1>1 DEF DbUpdate, Sigusr2, ReloadCommand, Check
  <2>2. Typed' /\ \A e \in Engines : Holders(e)' = Holders(e)
    BY <2>1 DEF EngineInv, Typed, Holders
  <2> QED BY <2>1, <2>2, QuietStep
<1>2. CASE ReloadLoad \/ ReloadDone \/ Stop
  <2>1. UNCHANGED <<refcount, engine, job>> /\ rpc # "stat" /\ rpc' \in {"done", "loop", "exit"} /\ engine \in Engines
    BY <1>2 DEF ReloadLoad, ReloadDone, Stop, EngineInv, Typed
  <2>2. Typed' /\ \A e \in Engines : Holders(e)' = Holders(e)
    BY <2>1 DEF EngineInv, Typed, Holders
  <2> QED BY <2>1, <2>2, QuietStep
<1>3. CASE ReloadStat
  <2>1. PICK n \in Engines : engine' = n /\ refcount' = AddRef(n)
    BY <1>3 DEF ReloadStat
  <2>2. rpc = "stat" /\ rpc' = "load" /\ UNCHANGED job
    BY <1>3 DEF ReloadStat
  <2>3. Typed'
    BY <2>1, <2>2 DEF EngineInv, Typed, AddRef
  <2>4. ASSUME NEW e \in Engines PROVE NoMore(e) \/ OneMore(e)
    <3>1. CASE e = n
      <4>1. Holders(e)' = Holders(e) \cup {None}
        BY <2>1, <2>2, <3>1 DEF Holders
      <4>2. refcount'[e] = refcount[e] + 1
        BY <2>1, <3>1 DEF AddRef, EngineInv, Typed
      <4> QED BY <4>1, <4>2 DEF OneMore
    <3>2. CASE e # n
      <4>1. Holders(e)' \subseteq Holders(e)
        BY <2>1, <2>2, <3>2 DEF Holders
      <4>2. refcount'[e] = refcount[e] /\ refcount[e] \in Nat
        BY <2>1, <3>2 DEF AddRef, EngineInv, Typed
      <4> QED BY <4>1, <4>2 DEF NoMore
    <3> QED BY <3>1, <3>2
  <2> QED BY <2>3, <2>4, CountedKeeps
<1>4. ASSUME engine \in Engines, rpc # "stat", refcount' = Free(engine), UNCHANGED job,
             \/ engine' = None /\ rpc' \in {"exit", "ended"}
             \/ engine' = engine /\ rpc' = "stat"
      PROVE  EngineInv'
  <2>1. Typed'
    BY <1>4 DEF EngineInv, Typed, Free
  <2>2. ASSUME NEW e \in Engines PROVE NoMore(e) \/ OneLess(e)
    <3>1. Holders(e)' = {j \in Jobs : job[j].engine = e}
      BY <1>4 DEF Holders, EngineAssumption
    <3>2. Holders(e)' \subseteq Holders(e) \ {None}
      BY <3>1 DEF Holders, EngineAssumption, Jobs
    <3>3. CASE e = engine
      <4>1. None \in Holders(e)
        BY <1>4, <3>3 DEF Holders
      <4>2. refcount'[e] = IF refcount[e] > 0 THEN refcount[e] - 1 ELSE 0
        BY <1>4, <3>3 DEF Free, EngineInv, Typed
      <4> QED BY <3>2, <4>1, <4>2 DEF OneLess
    <3>4. CASE e # engine
      <4>1. refcount'[e] = refcount[e] /\ refcount[e] \in Nat
        BY <1>4, <3>4 DEF Free, EngineInv, Typed
      <4> QED BY <3>2, <4>1 DEF NoMore
    <3> QED BY <3>3, <3>4
  <2> QED BY <2>1, <2>2, CountedKeeps
<1>5. CASE ReloadStart
  BY <1>4, <1>5 DEF ReloadStart, EngineInv, Typed
<1>6. CASE ReloadFails /\ rpc = "load"
  BY <1>4, <1>6 DEF ReloadFails, EngineInv, Typed
<1>7. CASE Exit /\ engine # None
  BY <1>4, <1>7 DEF Exit, EngineInv, Typed
<1>8. CASE (ReloadFails /\ rpc = "stat") \/ (Exit /\ engine = None)
  <2>1. UNCHANGED <<refcount, job>> /\ engine' = None /\ rpc' \in {"exit", "ended"}
    BY <1>8 DEF ReloadFails, Exit
  <2>2. Typed' /\ \A e \in Engines : Holders(e)' \subseteq Holders(e)
    BY <2>1 DEF EngineInv, Typed, Holders, EngineAssumption
  <2> QED BY <2>1, <2>2, QuietStep
<1> QED BY <1>1, <1>2, <1>3, <1>5, <1>6, <1>7, <1>8 DEF Reloading, ReloadFails

LEMMA EngineInductive == Spec => []EngineInv
<1>1. Init => EngineInv
  BY InitEngine, EngineAssumption
<1>2. EngineInv /\ [Next]_vars => EngineInv'
  <2> SUFFICES ASSUME EngineInv, [Next]_vars PROVE EngineInv'
    OBVIOUS
  <2>1. CASE UNCHANGED vars
    <3>1. UNCHANGED <<refcount, engine, rpc, job>>
      BY <2>1 DEF vars
    <3> QED BY <3>1 DEF EngineInv, Typed, Counted, Holders
  <2>2. CASE Next
    BY <2>2, JobsKeep, LoopKeeps, EngineAssumption DEF Next
  <2> QED BY <2>1, <2>2
<1> QED BY <1>1, <1>2, PTL DEF Spec

(* No job and no turn of the receive loop ever uses an engine that was      *)
(* freed: cl_engine_free, reload_db, scan_callback and dispatch_command     *)
(* keep a reference for every holder.                                       *)
THEOREM EngineNeverFreedInUse == Spec => []InUseAlive
<1>1. EngineInv => InUseAlive
  <2> SUFFICES ASSUME EngineInv, NEW e \in Engines, Holders(e) # {}
               PROVE  refcount[e] > 0
    BY DEF InUseAlive
  <2>1. IsFiniteSet(Holders(e))
    BY HoldersFinite, EngineAssumption
  <2>2. Cardinality(Holders(e)) # 0 /\ Cardinality(Holders(e)) \in Nat
    BY <2>1, FS_EmptySet, FS_CardinalityType
  <2> QED BY <2>2 DEF EngineInv, Counted, Typed
<1> QED BY <1>1, EngineInductive, PTL
-----------------------------------------------------------------------------
StatInv ==
  /\ disk \in Nat /\ dbstat \in Nat /\ dbstat <= disk
  /\ version \in [Engines -> Nat]
  /\ StatNotNewer

(* reload_db takes the status of the files before it loads them, so that a  *)
(* change during the load is found by the next self-check.                  *)
THEOREM SelfCheckSeesChanges == Spec => []StatNotNewer
<1>1. Init => StatInv
  BY DEF Init, StatInv, StatNotNewer
<1>2. EngineInv /\ StatInv /\ [Next]_vars => StatInv'
  <2> SUFFICES ASSUME EngineInv, StatInv, [Next]_vars PROVE StatInv'
    OBVIOUS
  <2> USE DEF StatInv, StatNotNewer
  <2>1. CASE DbUpdate
    BY <2>1 DEF DbUpdate
  <2>2. CASE ReloadStat
    BY <2>2 DEF ReloadStat
  <2>3. CASE ReloadLoad
    <3>1. engine \in Engines
      BY <2>3 DEF ReloadLoad, EngineInv, Typed
    <3> QED BY <2>3, <3>1 DEF ReloadLoad
  <2>4. CASE ReloadDone
    BY <2>4 DEF ReloadDone
  <2>5. CASE ReloadStart \/ ReloadFails \/ Exit \/ Stop
    <3>1. UNCHANGED <<disk, dbstat, version>> /\ rpc' \notin {"done", "loop"}
      BY <2>5 DEF ReloadStart, ReloadFails, Exit, Stop
    <3> QED BY <3>1
  <2>6. ASSUME UNCHANGED <<disk, dbstat, version, engine, rpc>> PROVE StatInv'
    BY <2>6
  <2>7. CASE Sigusr2 \/ ReloadCommand \/ Check \/ UNCHANGED vars
    BY <2>6, <2>7 DEF Sigusr2, ReloadCommand, Check, vars
  <2>8. ASSUME NEW j \in Jobs, JobStep(j) PROVE StatInv'
    BY <2>6, <2>8 DEF JobStep, JobStart, JobTerminated, JobLeave, JobEnd
  <2>9. ASSUME NEW j \in Commands,
               \/ Dispatch(j) \/ ScanCallbackFails(j) \/ StatsRead(j)
               \/ \E k \in Files : ScanCallback(j, k)
               \/ \E k \in Jobs : StatsLook(j, k)
        PROVE  StatInv'
    BY <2>6, <2>9 DEF Dispatch, ScanCallbackFails, StatsRead, ScanCallback, StatsLook
  <2> QED BY <2>1, <2>2, <2>3, <2>4, <2>5, <2>7, <2>8, <2>9 DEF Next, Reloading
<1>3. StatInv => StatNotNewer
  BY DEF StatInv
<1> QED BY <1>1, <1>2, <1>3, EngineInductive, PTL DEF Spec
=============================================================================
