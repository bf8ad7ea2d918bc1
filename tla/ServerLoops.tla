---------------------------- MODULE ServerLoops -----------------------------
(* The accept loop and the receive loop of clamd (server-th.c) around the   *)
(* table of monitored connections: the limit on its size and the condition  *)
(* cond_nfds, the two pipes that wake a loop out of poll, and the exit of   *)
(* the daemon.                                                              *)
(*                                                                          *)
(* Connections are counted, not named (Session models who owns a socket).   *)
(* A connection in the table is watched when the poll in progress includes  *)
(* it, fresh when it was added since that poll began, and dead when its     *)
(* descriptor is -1 and its slot waits for fds_cleanup.                     *)
EXTENDS Naturals

CONSTANTS
  Clients,    \* number of connections over the life of the daemon
  max_queue,
  Timers,     \* values of selfcheck considered
  CanStop,    \* whether SIGTERM may arrive, or a loop meet a fatal error
  CanFail,    \* whether accept() and fds_add may fail
  CanOOM      \* whether a worker may end with -1 (ExitOnOOM)

ASSUME LoopsAssumption == Clients \in Nat /\ max_queue \in Nat \ {0} /\ Timers \subseteq BOOLEAN

VARIABLES
  selfcheck,  \* fixed: whether poll of the receive loop has a time limit (SelfCheck)
  unborn,     \* clients that have not connected yet
  backlog,    \* connections not yet accepted
  watched, fresh, dead,
  tasks,      \* commands queued or run by the pool
  progexit,
  wake_recv, wake_accept,  \* a byte in the pipe
  apc, rpc

state == <<unborn, backlog, watched, fresh, dead, tasks, progexit, wake_recv, wake_accept, apc, rpc>>
vars == <<selfcheck, state>>

(* The table holds the pipe of the receive loop, too.                       *)
nfds == 1 + watched + fresh + dead

Init ==
  /\ selfcheck \in Timers
  /\ unborn = Clients /\ backlog = 0
  /\ watched = 0 /\ fresh = 0 /\ dead = 0 /\ tasks = 0
  /\ progexit = FALSE
  /\ wake_recv = FALSE /\ wake_accept = FALSE
  /\ apc = "poll" /\ rpc = "top"

(* The lock of the table: the receive loop holds it except in poll and      *)
(* after the pass over the ready connections.                               *)
TableFree == rpc \notin {"pass", "dispatch"}
-----------------------------------------------------------------------------
Connect ==
  /\ unborn > 0
  /\ unborn' = unborn - 1 /\ backlog' = backlog + 1
  /\ UNCHANGED <<watched, fresh, dead, tasks, progexit, wake_recv, wake_accept, apc, rpc>>

(* sighandler_th                                                            *)
Sigterm ==
  /\ CanStop /\ ~progexit
  /\ progexit' = TRUE /\ wake_recv' = TRUE
  /\ UNCHANGED <<unborn, backlog, watched, fresh, dead, tasks, wake_accept, apc, rpc>>

TaskEnds ==
  /\ tasks > 0
  /\ tasks' = tasks - 1
  /\ UNCHANGED <<unborn, backlog, watched, fresh, dead, progexit, wake_recv, wake_accept, apc, rpc>>

(* scanner_thread when command() returns -1: no loop is woken.              *)
TaskOOM ==
  /\ CanOOM /\ tasks > 0
  /\ tasks' = tasks - 1
  /\ progexit' = TRUE
  /\ UNCHANGED <<unborn, backlog, watched, fresh, dead, wake_recv, wake_accept, apc, rpc>>
-----------------------------------------------------------------------------
(* The accept loop.                                                         *)

(* poll returns for a connection, or for the pipe alone.                    *)
AcceptPoll ==
  /\ apc = "poll"
  /\ backlog > 0 \/ wake_accept
  /\ wake_accept' = FALSE
  /\ apc' = IF backlog > 0 THEN "limit" ELSE "check"
  /\ UNCHANGED <<unborn, backlog, watched, fresh, dead, tasks, progexit, wake_recv, rpc>>

(* poll fails, or all listening sockets do.                                 *)
AcceptFatal ==
  /\ CanStop /\ apc = "poll"
  /\ progexit' = TRUE
  /\ apc' = "closing"
  /\ UNCHANGED <<unborn, backlog, watched, fresh, dead, tasks, wake_recv, wake_accept, rpc>>

(* Mutant: one connection more. *)
AcceptLimitPlusOne ==
  /\ apc = "limit" /\ TableFree
  /\ apc' = IF nfds > max_queue + 1 /\ ~progexit THEN "asleep" ELSE "ready"
  /\ UNCHANGED <<unborn, backlog, watched, fresh, dead, tasks, progexit, wake_recv, wake_accept, rpc>>

AcceptLimit ==
  /\ apc = "limit" /\ TableFree
  /\ apc' = IF nfds > max_queue /\ ~progexit THEN "asleep" ELSE "ready"
  /\ UNCHANGED <<unborn, backlog, watched, fresh, dead, tasks, progexit, wake_recv, wake_accept, rpc>>

AcceptReady ==
  /\ apc = "ready"
  /\ apc' = IF progexit THEN "closing" ELSE "accept"
  /\ UNCHANGED <<unborn, backlog, watched, fresh, dead, tasks, progexit, wake_recv, wake_accept, rpc>>

Accept ==
  /\ apc = "accept"
  /\ backlog' = backlog - 1
  /\ apc' = "add"
  /\ UNCHANGED <<unborn, watched, fresh, dead, tasks, progexit, wake_recv, wake_accept, rpc>>

(* accept() fails: "give the poll loop a chance to close disconnected FDs".  *)
AcceptFails ==
  /\ CanFail /\ apc = "accept"
  /\ apc' = "failed"
  /\ UNCHANGED <<unborn, backlog, watched, fresh, dead, tasks, progexit, wake_recv, wake_accept, rpc>>

AcceptAdd ==
  /\ apc = "add" /\ TableFree
  /\ fresh' = fresh + 1
  /\ apc' = "notify"
  /\ UNCHANGED <<unborn, backlog, watched, dead, tasks, progexit, wake_recv, wake_accept, rpc>>

(* fds_add fails, and the connection is closed.                             *)
AddFails ==
  /\ CanFail /\ apc = "add" /\ TableFree
  /\ apc' = "check"
  /\ UNCHANGED <<unborn, backlog, watched, fresh, dead, tasks, progexit, wake_recv, wake_accept, rpc>>

(* Mutant: the receive loop is not told. *)
AcceptNotifySilent ==
  /\ apc = "notify"
  /\ apc' = "check"
  /\ UNCHANGED <<unborn, backlog, watched, fresh, dead, tasks, progexit, wake_recv, wake_accept, rpc>>

AcceptNotify ==
  /\ apc = "notify"
  /\ wake_recv' = TRUE
  /\ apc' = "check"
  /\ UNCHANGED <<unborn, backlog, watched, fresh, dead, tasks, progexit, wake_accept, rpc>>

AcceptCheck ==
  /\ apc \in {"check", "failed"}
  /\ apc' = IF progexit THEN "closing" ELSE "poll"
  /\ UNCHANGED <<unborn, backlog, watched, fresh, dead, tasks, progexit, wake_recv, wake_accept, rpc>>

(* The listening sockets are closed, and with them what is in the backlog.  *)
AcceptClose ==
  /\ apc = "closing"
  /\ backlog' = 0
  /\ progexit' = TRUE
  /\ wake_recv' = TRUE
  /\ apc' = "ended"
  /\ UNCHANGED <<unborn, watched, fresh, dead, tasks, wake_accept, rpc>>

AcceptLoop ==
  \/ AcceptPoll \/ AcceptLimit \/ AcceptReady \/ Accept
  \/ AcceptAdd \/ AcceptNotify \/ AcceptCheck \/ AcceptClose
-----------------------------------------------------------------------------
(* The receive loop.                                                        *)

(* Mutant: the condition is signalled before the dead slots are freed. *)
RecvTopEarly ==
  /\ rpc = "top"
  /\ dead' = 0
  /\ watched' = watched + fresh /\ fresh' = 0
  /\ apc' = IF apc = "asleep" /\ nfds <= max_queue THEN "limit" ELSE apc
  /\ rpc' = "poll"
  /\ UNCHANGED <<unborn, backlog, tasks, progexit, wake_recv, wake_accept>>

(* fds_cleanup, the signal, and the start of poll.                          *)
RecvTop ==
  /\ rpc = "top"
  /\ dead' = 0
  /\ watched' = watched + fresh /\ fresh' = 0
  /\ apc' = IF apc = "asleep" /\ nfds - dead <= max_queue THEN "limit" ELSE apc
  /\ rpc' = "poll"
  /\ UNCHANGED <<unborn, backlog, tasks, progexit, wake_recv, wake_accept>>

(* poll returns for the pipe, which is emptied.                             *)
RecvWoken ==
  /\ rpc = "poll" /\ wake_recv
  /\ wake_recv' = FALSE
  /\ rpc' = "pass"
  /\ UNCHANGED <<unborn, backlog, watched, fresh, dead, tasks, progexit, wake_accept, apc>>

RecvTimeout ==
  /\ rpc = "poll" /\ selfcheck
  /\ rpc' = "pass"
  /\ UNCHANGED <<unborn, backlog, watched, fresh, dead, tasks, progexit, wake_recv, wake_accept, apc>>

(* A watched connection has data, hung up or timed out.                     *)
RecvReady ==
  /\ rpc = "poll" /\ watched > 0
  /\ rpc' = "pass"
  /\ UNCHANGED <<unborn, backlog, watched, fresh, dead, tasks, progexit, wake_recv, wake_accept, apc>>

(* poll fails.                                                              *)
RecvFatal ==
  /\ CanStop /\ rpc = "poll"
  /\ progexit' = TRUE
  /\ rpc' = "exit"
  /\ UNCHANGED <<unborn, backlog, watched, fresh, dead, tasks, wake_recv, wake_accept, apc>>

(* A connection ends: its slot is dead.                                     *)
RecvEnd ==
  /\ rpc = "pass" /\ watched > 0
  /\ watched' = watched - 1 /\ dead' = dead + 1
  /\ UNCHANGED <<unborn, backlog, fresh, tasks, progexit, wake_recv, wake_accept, apc, rpc>>

(* A connection leaves the table with a command for the pool: the receive   *)
(* loop waits, holding the lock, while the queue is full.                   *)
RecvCommand ==
  /\ rpc = "pass" /\ watched > 0
  /\ watched' = watched - 1 /\ dead' = dead + 1
  /\ rpc' = "dispatch"
  /\ UNCHANGED <<unborn, backlog, fresh, tasks, progexit, wake_recv, wake_accept, apc>>

RecvDispatch ==
  /\ rpc = "dispatch" /\ tasks < max_queue
  /\ tasks' = tasks + 1
  /\ rpc' = "pass"
  /\ UNCHANGED <<unborn, backlog, watched, fresh, dead, progexit, wake_recv, wake_accept, apc>>

(* A client sends SHUTDOWN.                                                 *)
RecvShutdown ==
  /\ CanStop /\ rpc = "pass" /\ watched > 0
  /\ watched' = watched - 1 /\ dead' = dead + 1
  /\ progexit' = TRUE
  /\ UNCHANGED <<unborn, backlog, fresh, tasks, wake_recv, wake_accept, apc, rpc>>

RecvCheck ==
  /\ rpc = "pass"
  /\ rpc' = IF progexit THEN "exit" ELSE "top"
  /\ UNCHANGED <<unborn, backlog, watched, fresh, dead, tasks, progexit, wake_recv, wake_accept, apc>>

(* A reload fails: the loop is left, and the connections stay open.         *)
RecvReloadFails ==
  /\ CanStop /\ rpc = "pass" /\ ~progexit
  /\ rpc' = "leave"
  /\ UNCHANGED <<unborn, backlog, watched, fresh, dead, tasks, progexit, wake_recv, wake_accept, apc>>

(* progexit: the remaining connections are closed.                          *)
RecvExit ==
  /\ rpc = "exit"
  /\ dead' = dead + watched + fresh /\ watched' = 0 /\ fresh' = 0
  /\ rpc' = "leave"
  /\ UNCHANGED <<unborn, backlog, tasks, progexit, wake_recv, wake_accept, apc>>

(* Mutant: the accept loop is not woken. *)
RecvLeaveSilent ==
  /\ rpc = "leave"
  /\ progexit' = TRUE
  /\ rpc' = "destroy"
  /\ UNCHANGED <<unborn, backlog, watched, fresh, dead, tasks, wake_recv, wake_accept, apc>>

(* After the loop the accept loop is woken.                                 *)
RecvLeave ==
  /\ rpc = "leave"
  /\ progexit' = TRUE
  /\ wake_accept' = TRUE
  /\ rpc' = "destroy"
  /\ UNCHANGED <<unborn, backlog, watched, fresh, dead, tasks, wake_recv, apc>>

(* thrmgr_destroy                                                           *)
RecvDestroy ==
  /\ rpc = "destroy" /\ tasks = 0
  /\ rpc' = "join"
  /\ UNCHANGED <<unborn, backlog, watched, fresh, dead, tasks, progexit, wake_recv, wake_accept, apc>>

(* pthread_join(accept_th)                                                  *)
RecvJoin ==
  /\ rpc = "join" /\ apc = "ended"
  /\ rpc' = "ended"
  /\ UNCHANGED <<unborn, backlog, watched, fresh, dead, tasks, progexit, wake_recv, wake_accept, apc>>

RecvLoop ==
  \/ RecvTop \/ RecvWoken \/ RecvTimeout \/ RecvDispatch \/ RecvCheck
  \/ RecvExit \/ RecvLeave \/ RecvDestroy \/ RecvJoin
-----------------------------------------------------------------------------
Next ==
  /\ \/ Connect \/ Sigterm \/ TaskEnds \/ TaskOOM
     \/ AcceptLoop \/ AcceptFatal \/ AcceptFails \/ AddFails
     \/ RecvLoop \/ RecvReady \/ RecvEnd \/ RecvCommand \/ RecvShutdown
     \/ RecvFatal \/ RecvReloadFails
  /\ UNCHANGED selfcheck

Spec == Init /\ [][Next]_vars

(* Both loops and the workers run; the accept loop gets the table's lock at *)
(* some time when the receive loop waits in poll.  Nothing is assumed of    *)
(* the clients: an active session keeps its slot as long as it likes, since *)
(* its time limit is renewed with every command and chunk.                  *)
FairSpec ==
  /\ Spec
  /\ WF_state(AcceptLoop) /\ SF_state(AcceptLimit) /\ SF_state(AcceptAdd)
  /\ WF_state(RecvLoop)
  /\ WF_state(TaskEnds)
-----------------------------------------------------------------------------
(* "don't accept unlimited number of connections, or we'll run out of file  *)
(* descriptors": the table never holds more than max_queue + 1 entries,     *)
(* counting the pipe and the connection between accept and fds_add.         *)
TableBounded ==
  nfds + (IF apc = "add" THEN 1 ELSE 0) <= max_queue + 1

(* The accept loop is asleep only while the table is full, or the receive   *)
(* loop has yet to pass the place where it signals cond_nfds.               *)
NoLostWakeup ==
  apc = "asleep" => nfds > max_queue \/ rpc # "poll"

(* Connections that are not dead, with the pipe.                            *)
alive == 1 + watched + fresh

(* If the table does not stay full of living connections and accept() does  *)
(* not go on failing, a waiting client is accepted: a slot that was freed   *)
(* while the accept loop slept is not missed, however briefly there is room *)
(* and however often the table was full before.  And whatever the other     *)
(* connections do, one that was added while the receive loop is in poll is  *)
(* not forgotten: the pipe makes poll start again with it.                  *)
Served ==
  /\ []<>(alive <= max_queue) /\ <>[](apc # "failed") =>
       (backlog > 0 ~> (backlog = 0 \/ progexit))
  /\ fresh > 0 ~> (fresh = 0 \/ progexit)

(* The receive loop will look at progexit: a worker that sets it wakes      *)
(* nobody (server-th.c:100), which the timer of the self-check makes up for.*)
Told == selfcheck \/ wake_recv \/ apc = "closing" \/ rpc \in {"pass", "dispatch", "exit", "leave"}

(* Once progexit is set and the receive loop will look at it, the daemon    *)
(* ends, with one exception: nobody signals cond_nfds once the receive loop *)
(* has left, so when the accept loop fell asleep on a full table the        *)
(* receive loop joins it for ever (server-th.c:374).                        *)
ExitCompletes == progexit /\ Told ~> (rpc = "ended" \/ (rpc = "join" /\ apc = "asleep"))
=============================================================================
