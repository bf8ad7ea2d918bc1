----------------------------- MODULE EngineRefs -----------------------------
(* The scanning engine of clamd: its reference count (libclamav/readdb.c),  *)
(* its replacement when the databases are reloaded (server-th.c), the jobs  *)
(* that use it, and the STATS command that reads the engines of other       *)
(* threads (thrmgr.c).                                                      *)
(*                                                                          *)
(* An engine is an address: a freed one may be allocated again.  Database   *)
(* files have a version, 1 at start-up, raised by an updater.               *)
EXTENDS Integers, FiniteSets

CONSTANTS
  Engines, None,
  Commands,     \* jobs of the receive loop
  Files,        \* jobs of a MULTISCAN
  MaxRefs,      \* bound on the references taken by failed dispatches
  MaxVersion,   \* bound on the updates of the databases
  SelfCheck,    \* whether the timer of the receive loop is on
  CanFail       \* whether allocation, and with it dispatch or loading, may fail

ASSUME EngineAssumption ==
  /\ None \notin Engines \cup Commands \cup Files
  /\ IsFiniteSet(Commands) /\ IsFiniteSet(Files) /\ Commands \cap Files = {}
  /\ MaxVersion \in Nat \ {0} /\ MaxRefs \in Nat

VARIABLES
  disk,       \* version of the database files
  refcount,   \* [Engines -> Nat], 0 when not allocated
  version,    \* [Engines -> Nat], the version it was loaded from
  engine,     \* the receive loop's engine
  dbstat,     \* the version whose status was taken at the last reload, or 0
  reload,
  asked,      \* the version on disk when a reload was last asked for, or 0
  rpc,        \* the receive loop's place
  job,        \* [Jobs -> [at, engine]], job.engine is conn->engine
  active,     \* [Jobs -> engine of the task_desc of the thread running it]
  seen        \* [Commands -> the engine STATS is about to read]

vars == <<disk, refcount, version, engine, dbstat, reload, asked, rpc, job, active, seen>>

Jobs == Commands \cup Files

Idle == [at |-> "idle", engine |-> None]

Init ==
  /\ disk = 1 /\ asked = 0 /\ dbstat = 0 /\ reload = FALSE
  /\ \E e \in Engines :
       /\ engine = e
       /\ refcount = [x \in Engines |-> IF x = e THEN 1 ELSE 0]
  /\ version = [e \in Engines |-> 1]
  /\ rpc = "loop"
  /\ job = [j \in Jobs |-> Idle]
  /\ active = [j \in Jobs |-> None]
  /\ seen = [j \in Commands |-> None]

(* cl_engine_addref and the count of cl_engine_free                         *)
AddRef(e) == [refcount EXCEPT ![e] = @ + 1]
Free(e) == [refcount EXCEPT ![e] = IF @ > 0 THEN @ - 1 ELSE 0]
-----------------------------------------------------------------------------
DbUpdate ==
  /\ disk < MaxVersion
  /\ disk' = disk + 1
  /\ UNCHANGED <<refcount, version, engine, dbstat, reload, asked, rpc, job, active, seen>>

(* SIGUSR2, at any time                                                     *)
Sigusr2 ==
  /\ rpc \in {"loop", "stat", "load", "done"}
  /\ reload' = TRUE /\ asked' = disk
  /\ UNCHANGED <<disk, refcount, version, engine, dbstat, rpc, job, active, seen>>

(* The RELOAD command, executed in the receive loop                         *)
ReloadCommand ==
  /\ rpc = "loop"
  /\ reload' = TRUE /\ asked' = disk
  /\ UNCHANGED <<disk, refcount, version, engine, dbstat, rpc, job, active, seen>>

(* The self-check: reload_db with do_check; the first one always reloads,   *)
(* as no status was taken at start-up.                                      *)
Check ==
  /\ SelfCheck /\ rpc = "loop" /\ dbstat # disk
  /\ reload' = TRUE
  /\ UNCHANGED <<disk, refcount, version, engine, dbstat, asked, rpc, job, active, seen>>
-----------------------------------------------------------------------------
(* Jobs.                                                                    *)

(* dispatch_command; a failed dispatch gives its reference back.            *)
Dispatch(j) ==
  /\ rpc = "loop" /\ job[j] = Idle
  /\ refcount' = AddRef(engine)
  /\ job' = [job EXCEPT ![j] = [at |-> "queued", engine |-> engine]]
  /\ UNCHANGED <<disk, version, engine, dbstat, reload, asked, rpc, active, seen>>

(* command(): the client is still there.                                    *)
JobStart(j) ==
  /\ job[j].at = "queued"
  /\ job' = [job EXCEPT ![j].at = "running"]
  /\ active' = [active EXCEPT ![j] = job[j].engine]
  /\ UNCHANGED <<disk, refcount, version, engine, dbstat, reload, asked, rpc, seen>>

JobTerminated(j) ==
  /\ job[j].at = "queued"
  /\ job' = [job EXCEPT ![j].at = "leaving"]
  /\ UNCHANGED <<disk, refcount, version, engine, dbstat, reload, asked, rpc, active, seen>>

(* Mutant: the file's job borrows the reference of the MULTISCAN. *)
ScanCallbackBorrows(j, k) ==
  /\ job[j].at = "running" /\ job[k] = Idle
  /\ job' = [job EXCEPT ![k] = [at |-> "queued", engine |-> job[j].engine]]
  /\ UNCHANGED <<disk, refcount, version, engine, dbstat, reload, asked, rpc, active, seen>>

(* scan_callback of a MULTISCAN: a job for a file, with the engine of the   *)
(* MULTISCAN.                                                               *)
ScanCallback(j, k) ==
  /\ job[j].at = "running" /\ job[k] = Idle
  /\ refcount' = AddRef(job[j].engine)
  /\ job' = [job EXCEPT ![k] = [at |-> "queued", engine |-> job[j].engine]]
  /\ UNCHANGED <<disk, version, engine, dbstat, reload, asked, rpc, active, seen>>

(* The dispatch fails: scan_callback returns with its reference.            *)
ScanCallbackFails(j) ==
  /\ CanFail /\ job[j].at = "running" /\ refcount[job[j].engine] < MaxRefs
  /\ refcount' = AddRef(job[j].engine)
  /\ UNCHANGED <<disk, version, engine, dbstat, reload, asked, rpc, job, active, seen>>

(* scanner_thread after command()                                           *)
JobLeave(j) ==
  /\ job[j].at = "running" /\ (j \in Commands => seen[j] = None)
  /\ job' = [job EXCEPT ![j].at = "leaving"]
  /\ active' = [active EXCEPT ![j] = None]
  /\ UNCHANGED <<disk, refcount, version, engine, dbstat, reload, asked, rpc, seen>>

JobEnd(j) ==
  /\ job[j].at = "leaving"
  /\ refcount' = Free(job[j].engine)
  /\ job' = [job EXCEPT ![j] = Idle]
  /\ UNCHANGED <<disk, version, engine, dbstat, reload, asked, rpc, active, seen>>

(* STATS, run by job j, reads the engine of the thread that runs k (its own *)
(* included) and then passes it to mpool_getstats.  It holds pools_lock,      *)
(* which keeps other STATS commands out and no engine alive.                *)
StatsLook(j, k) ==
  /\ job[j].at = "running" /\ \A i \in Commands : seen[i] = None
  /\ active[k] # None
  /\ seen' = [seen EXCEPT ![j] = active[k]]
  /\ UNCHANGED <<disk, refcount, version, engine, dbstat, reload, asked, rpc, job, active>>

StatsRead(j) ==
  /\ seen[j] # None
  /\ seen' = [seen EXCEPT ![j] = None]
  /\ UNCHANGED <<disk, refcount, version, engine, dbstat, reload, asked, rpc, job, active>>
-----------------------------------------------------------------------------
(* The receive loop.                                                        *)

(* Mutant: the old engine is kept. *)
ReloadStartKeeps ==
  /\ rpc = "loop" /\ reload
  /\ rpc' = "stat"
  /\ UNCHANGED <<disk, refcount, version, engine, dbstat, reload, asked, job, active, seen>>

(* reload_db releases the old engine first.                                 *)
ReloadStart ==
  /\ rpc = "loop" /\ reload
  /\ refcount' = Free(engine)
  /\ rpc' = "stat"
  /\ UNCHANGED <<disk, version, engine, dbstat, reload, asked, job, active, seen>>

(* cl_statinidir, cl_engine_new                                             *)
ReloadStat ==
  /\ rpc = "stat"
  /\ dbstat' = disk
  /\ \E e \in Engines :
       /\ refcount[e] = 0
       /\ engine' = e
       /\ refcount' = AddRef(e)
  /\ rpc' = "load"
  /\ UNCHANGED <<disk, version, reload, asked, job, active, seen>>

(* Mutant: the status of the files is taken once they are loaded. *)
ReloadLoadStats ==
  /\ rpc = "load"
  /\ version' = [version EXCEPT ![engine] = dbstat]
  /\ dbstat' = disk
  /\ rpc' = "done"
  /\ UNCHANGED <<disk, refcount, engine, reload, asked, job, active, seen>>

(* cl_load, cl_engine_compile                                               *)
ReloadLoad ==
  /\ rpc = "load"
  /\ version' = [version EXCEPT ![engine] = disk]
  /\ rpc' = "done"
  /\ UNCHANGED <<disk, refcount, engine, dbstat, reload, asked, job, active, seen>>

(* The daemon terminates when the new engine cannot be made or loaded.      *)
ReloadFails ==
  /\ CanFail /\ rpc \in {"stat", "load"}
  /\ refcount' = IF rpc = "load" THEN Free(engine) ELSE refcount
  /\ engine' = None
  /\ rpc' = "exit"
  /\ UNCHANGED <<disk, version, dbstat, reload, asked, job, active, seen>>

ReloadDone ==
  /\ rpc = "done"
  /\ reload' = FALSE
  /\ rpc' = "loop"
  /\ UNCHANGED <<disk, refcount, version, engine, dbstat, asked, job, active, seen>>

(* progexit is seen.                                                        *)
Stop ==
  /\ rpc = "loop"
  /\ rpc' = "exit"
  /\ UNCHANGED <<disk, refcount, version, engine, dbstat, reload, asked, job, active, seen>>

(* thrmgr_destroy, then the engine is released.                             *)
Exit ==
  /\ rpc = "exit" /\ \A j \in Jobs : job[j] = Idle
  /\ refcount' = IF engine = None THEN refcount ELSE Free(engine)
  /\ engine' = None
  /\ rpc' = "ended"
  /\ UNCHANGED <<disk, version, dbstat, reload, asked, job, active, seen>>
-----------------------------------------------------------------------------
JobStep(j) == JobStart(j) \/ JobTerminated(j) \/ JobLeave(j) \/ JobEnd(j)

Reloading == ReloadStart \/ ReloadStat \/ ReloadLoad \/ ReloadFails \/ ReloadDone \/ Exit

Next ==
  \/ DbUpdate \/ Sigusr2 \/ ReloadCommand \/ Check
  \/ \E j \in Jobs : JobStep(j)
  \/ \E j \in Commands : Dispatch(j) \/ ScanCallbackFails(j) \/ StatsRead(j)
  \/ \E j \in Commands, k \in Files : ScanCallback(j, k)
  \/ \E j \in Commands, k \in Jobs : StatsLook(j, k)
  \/ Reloading \/ Stop

Spec == Init /\ [][Next]_vars

(* The receive loop and the workers run, and the receive loop looks at the  *)
(* timer and at reload again and again; a STATS command looks at each       *)
(* thread once, and a MULTISCAN comes to its last file.                     *)
FairSpec ==
  /\ Spec
  /\ WF_vars(Reloading) /\ SF_vars(ReloadStart) /\ SF_vars(Check)
  /\ \A j \in Jobs : WF_vars(JobStep(j)) /\ SF_vars(JobLeave(j))
  /\ \A j \in Commands : WF_vars(StatsRead(j))
-----------------------------------------------------------------------------
(* The places that hold a reference to e: the receive loop, except between  *)
(* the release of the old engine and the new one, and the jobs.             *)
Holders(e) ==
  {j \in Jobs : job[j].engine = e} \cup (IF engine = e /\ rpc # "stat" THEN {None} ELSE {})

(* "engine" in use: a job never runs, and the receive loop never hands out, *)
(* an engine that cl_engine_free has released, even when a dispatch failed. *)
InUseAlive ==
  \A e \in Engines : Holders(e) # {} => refcount[e] > 0

(* References that belong to nobody.                                        *)
Surplus(e) == refcount[e] - Cardinality(Holders(e))

(* Every path of a job, of a reload and of the exit takes and gives back    *)
(* references in step with those who hold them; the one step that does not  *)
(* is a failed dispatch in scan_callback (scanner.c:165).                   *)
RefsBalanced ==
  [][\A e \in Engines : Surplus(e)' = Surplus(e) \/ \E j \in Commands : ScanCallbackFails(j)]_vars

(* The status the self-check compares with is never newer than the          *)
(* databases in use, or a change would go unnoticed.                        *)
StatNotNewer ==
  rpc \in {"done", "loop"} => dbstat <= version[engine]

(* "checking refcount is not necessary, but safer": mpool_getstats is       *)
(* called with an engine that is allocated.                                 *)
StatsEngineAlive ==
  \A j \in Commands : seen[j] # None => refcount[seen[j]] > 0

(* "SIGUSR2 Reload the signature databases": what was on disk when a reload *)
(* was asked for is in use at some time later, unless the daemon stops.     *)
ReloadHonoured ==
  \A v \in 1..MaxVersion :
    asked = v ~> (rpc \in {"exit", "ended"} \/ (rpc = "loop" /\ version[engine] >= v))

(* An engine that was replaced is freed when its last job ends.  The code   *)
(* keeps one for good once a dispatch failed in scan_callback               *)
(* (scanner.c:165).                                                         *)
OldEngineReleased ==
  \A e \in Engines : (e # engine /\ refcount[e] > 0) ~> (e = engine \/ refcount[e] = 0)
=============================================================================
