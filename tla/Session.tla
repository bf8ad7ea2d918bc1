------------------------------ MODULE Session -------------------------------
(* The connections of clamd: who owns a socket, from accept to close.       *)
(*                                                                          *)
(* Three kinds of threads use the descriptor of a client.  The accept       *)
(* thread (server-th.c, acceptloop_th) obtains it and adds it to the table  *)
(* of monitored descriptors.  The receive thread (recvloop_th,              *)
(* parse_dispatch_cmd, handle_stream, session.c) reads commands, answers    *)
(* the short ones and dispatches the others to the pool.  The workers       *)
(* (scanner_thread, command) answer on the same descriptor.  No lock        *)
(* guards it: inside IDSESSION a job group counts who may still use it and  *)
(* the last one closes it, outside the thread that answers closes it.  The  *)
(* kernel gives the number of a closed descriptor to the next connection.   *)
(*                                                                          *)
(* Abstracted: the bytes of commands (a command is one of the classes       *)
(* below), the pool (any dispatched job may run; ThreadPool models the      *)
(* order), the contents of a stream, the clock (a monitored descriptor may  *)
(* time out at any time), passing of descriptors with FILDES, and the file  *)
(* jobs of MULTISCAN, which answer on the socket of the job that waits for  *)
(* them (scanner.c:153) and are no jobs of their own here.                  *)
EXTENDS Naturals, FiniteSets, FiniteSetsExt

CONSTANTS
  Conns,       \* client connections over the life of the daemon
  Fds,         \* socket descriptor numbers, a finite set of naturals
  Settings,    \* the environments considered, see env
  MaxCommands, \* bound on the commands of one connection
  None

Commands == {"SCAN", "PING", "INSTREAM", "IDSESSION", "END", "SHUTDOWN", "UNKNOWN"}

Accepted == {"SCAN", "PING", "INSTREAM", "END"}

ASSUME SessionAssumption ==
  /\ Fds \subseteq Nat /\ IsFiniteSet(Fds) /\ IsFiniteSet(Conns)
  /\ \A e \in Settings : e.outside \subseteq Commands /\ e.inside \subseteq Commands
  /\ MaxCommands \in Nat
  /\ None \notin Conns

(* env, fixed: the commands that clients send outside and inside IDSESSION, *)
(* and which of these occur: "pipelined", clients send more after a command *)
(* that ends the connection; "nomemory", dispatch_command fails; "sigterm". *)
VARIABLES
  env,
  open,      \* the kernel's table: which connection a descriptor refers to
  gone,      \* clients that closed their end
  left,      \* commands a client may still send
  buf,       \* the table of monitored descriptors (struct fd_buf)
  grp,       \* the job group of a connection's session
  jobs,      \* dispatched commands (client_conn_t)
  tmp,       \* number of temporary files of a connection's streams on disk
  progexit,
  apc,       \* the accept thread: state and the descriptor it holds
  rpc,       \* the receive thread's place
  ready,     \* descriptors that poll reported and that are not handled yet
  cur        \* the connection being handled, with parse_dispatch_cmd's locals

vars == <<env, open, gone, left, buf, grp, jobs, tmp, progexit, apc, rpc, ready, cur>>

NoGroup == [state |-> "none", jobs |-> 0, force_exit |-> FALSE]

Idle == [state |-> "idle", fd |-> None]

Init ==
  /\ env \in Settings
  /\ open = [d \in Fds |-> None]
  /\ gone = {}
  /\ left = [c \in Conns |-> MaxCommands + 1]
  /\ buf = [d \in Fds |-> None]
  /\ grp = [c \in Conns |-> NoGroup]
  /\ jobs = {}
  /\ tmp = [c \in Conns |-> 0]
  /\ progexit = FALSE
  /\ apc = Idle
  /\ rpc = "poll"
  /\ ready = {}
  /\ cur = None

Monitored == {d \in Fds : buf[d] # None}

Close(d) == open' = [open EXCEPT ![d] = None]
-----------------------------------------------------------------------------
(* Clients.                                                                 *)

Hangup(c) ==
  /\ c \in {open[d] : d \in Fds}
  /\ c \notin gone
  /\ gone' = gone \cup {c}
  /\ UNCHANGED <<open, left, buf, grp, jobs, tmp, progexit, apc, rpc, ready, cur>>

Sigterm ==
  /\ "sigterm" \in env.faults /\ ~progexit
  /\ progexit' = TRUE
  /\ UNCHANGED <<open, gone, left, buf, grp, jobs, tmp, apc, rpc, ready, cur>>
-----------------------------------------------------------------------------
(* The accept thread.                                                       *)

CheckExit ==
  /\ apc.state = "idle"
  /\ apc' = [apc EXCEPT !.state = IF progexit THEN "stopped" ELSE "accept"]
  /\ UNCHANGED <<open, gone, left, buf, grp, jobs, tmp, progexit, rpc, ready, cur>>

(* left[c] = MaxCommands + 1: the client has not connected yet.             *)
Accept(c) ==
  LET free == {d \in Fds : open[d] = None} IN
  /\ apc.state = "accept"
  /\ left[c] = MaxCommands + 1
  /\ free # {}
  /\ open' = [open EXCEPT ![Min(free)] = c]
  /\ left' = [left EXCEPT ![c] = MaxCommands]
  /\ apc' = [state |-> "add", fd |-> Min(free)]
  /\ UNCHANGED <<gone, buf, grp, jobs, tmp, progexit, rpc, ready, cur>>

Entry(c) == [conn |-> c, mode |-> "COMMAND", group |-> FALSE, id |-> 0, dump |-> FALSE]

(* fds_add under the lock the receive thread holds except in poll; an       *)
(* entry for the same number is cleared.                                    *)
Add ==
  /\ apc.state = "add"
  /\ rpc \in {"poll", "exit", "done"}
  /\ buf' = [buf EXCEPT ![apc.fd] = Entry(open[apc.fd])]
  /\ apc' = Idle
  /\ UNCHANGED <<open, gone, left, grp, jobs, tmp, progexit, rpc, ready, cur>>
-----------------------------------------------------------------------------
(* The job groups of thrmgr.c.  A group is named after its connection.      *)

LastOne(c, group) == group => grp[c].jobs = 1

(* Mutant: the count is not lowered for the session itself. *)
GroupFinishedKept(c, group, force) ==
  grp' = IF ~group THEN grp
         ELSE [grp EXCEPT ![c] =
                 [state |-> IF @.jobs = 1 THEN "freed" ELSE @.state,
                  jobs |-> IF @.jobs = 1 THEN 0 ELSE @.jobs,
                  force_exit |-> @.force_exit \/ force]]

GroupFinished(c, group, force) ==
  grp' = IF ~group THEN grp
         ELSE [grp EXCEPT ![c] =
                 [state |-> IF @.jobs = 1 THEN "freed" ELSE @.state,
                  jobs |-> IF @.jobs = 0 THEN 0 ELSE @.jobs - 1,
                  force_exit |-> @.force_exit \/ force]]

NeedTerminate(c, group) == progexit \/ (group /\ grp[c].force_exit)
-----------------------------------------------------------------------------
(* The receive thread.                                                      *)

(* fds_poll_recv: a descriptor is ready when its client sent something or   *)
(* left, or when its time is over.  A signal or the accept thread's pipe    *)
(* wakes poll with nothing ready; a client that left is always reported.    *)
Poll ==
  /\ rpc = "poll"
  /\ \E r \in SUBSET Monitored :
       /\ r # {} \/ progexit
       /\ \A d \in Monitored : buf[d].conn \in gone => d \in r
       /\ ready' = r
  /\ rpc' = "pass"
  /\ UNCHANGED <<open, gone, left, buf, grp, jobs, tmp, progexit, apc, cur>>

Local(d, error) ==
  [fd |-> d, conn |-> buf[d].conn, mode |-> buf[d].mode, group |-> buf[d].group,
   id |-> buf[d].id, dump |-> buf[d].dump, live |-> TRUE, rc |-> "dispatched", error |-> error]

(* The client left, or did not send in time.                                *)
ReadError(d) ==
  /\ rpc = "pass" /\ d \in ready
  /\ ready' = ready \ {d}
  /\ cur' = Local(d, "error")
  /\ rpc' = "error"
  /\ UNCHANGED <<open, gone, left, buf, grp, jobs, tmp, progexit, apc>>

NewData(d) ==
  /\ rpc = "pass" /\ d \in ready
  /\ left[buf[d].conn] > 0 \/ buf[d].mode = "STREAM"
  /\ ready' = ready \ {d}
  /\ cur' = Local(d, "none")
  /\ rpc' = IF buf[d].mode = "STREAM" THEN "stream" ELSE "command"
  /\ UNCHANGED <<open, gone, left, buf, grp, jobs, tmp, progexit, apc>>

(* Part of a command: nothing happens yet.                                  *)
PartialData(d) ==
  /\ rpc = "pass" /\ d \in ready
  /\ ready' = ready \ {d}
  /\ UNCHANGED <<open, gone, left, buf, grp, jobs, tmp, progexit, apc, rpc, cur>>

Spend(c) == left' = [left EXCEPT ![c] = @ - 1]

Job ==
  [conn |-> cur.conn, sd |-> cur.fd, group |-> cur.group, id |-> cur.id,
   dump |-> cur.dump, pc |-> "queued"]

GroupDispatch ==
  /\ jobs' = jobs \cup {Job}
  /\ grp' = IF cur.group THEN [grp EXCEPT ![cur.conn].jobs = @ + 1] ELSE grp

Executed(rc) ==
  /\ cur' = [cur EXCEPT !.rc = rc]
  /\ UNCHANGED <<jobs, grp, tmp, progexit>>

(* A command that is not accepted inside IDSESSION.                         *)
InvalidInSession ==
  /\ cur' = [cur EXCEPT !.rc = "completed", !.group = FALSE]
  /\ UNCHANGED <<jobs, grp, tmp, progexit>>

DispatchCommand ==
  \/ /\ GroupDispatch
     /\ cur' = [cur EXCEPT !.rc = "dispatched", !.dump = FALSE]
     /\ UNCHANGED <<tmp, progexit>>
  \/ /\ "nomemory" \in env.faults
     /\ cur' = [cur EXCEPT !.rc = "failed", !.dump = FALSE]
     /\ UNCHANGED <<jobs, grp, tmp, progexit>>

(* execute_or_dispatch_command; dispatched is its return value 0, completed *)
(* 1 and failed a negative one.                                             *)
Execute(cmd) ==
  IF cur.group /\ cmd \notin Accepted THEN InvalidInSession
  ELSE CASE cmd = "SCAN" -> DispatchCommand
         [] cmd = "PING" -> Executed(IF cur.group THEN "dispatched" ELSE "completed")
         [] cmd = "INSTREAM" ->
              /\ cur' = [cur EXCEPT !.rc = "dispatched", !.mode = "STREAM", !.dump = TRUE]
              /\ tmp' = [tmp EXCEPT ![cur.conn] = @ + 1]
              /\ UNCHANGED <<jobs, grp, progexit>>
         [] cmd = "IDSESSION" ->
              /\ grp' = [grp EXCEPT ![cur.conn] = [NoGroup EXCEPT !.state = "live", !.jobs = 1]]
              /\ cur' = [cur EXCEPT !.rc = "dispatched", !.group = TRUE]
              /\ UNCHANGED <<jobs, tmp, progexit>>
         [] cmd = "SHUTDOWN" ->
              /\ progexit' = TRUE
              /\ cur' = [cur EXCEPT !.rc = "completed"]
              /\ UNCHANGED <<jobs, grp, tmp>>
         [] OTHER -> Executed("completed")

Command ==
  /\ rpc = "command"
  /\ \E cmd \in IF cur.group THEN env.inside ELSE env.outside : Execute(cmd)
  /\ Spend(cur.conn)
  /\ rpc' = "after"
  /\ UNCHANGED <<open, gone, buf, apc, ready>>

(* What parse_dispatch_cmd and the error path leave in the table.           *)
Store(x) ==
  buf' = [buf EXCEPT ![x.fd] =
            IF x.live
            THEN [conn |-> x.conn, mode |-> x.mode, group |-> x.group, id |-> x.id, dump |-> x.dump]
            ELSE None]

(* More commands may be in the buffer, sent with the last one.              *)
More(x) == left[x.conn] > 0 /\ (x.live \/ "pipelined" \in env.faults)

(* The group of the connection or the daemon has to terminate.  The file of *)
(* a stream that was just opened is not in the table yet: it is closed as   *)
(* "unclaimed", answered as an error and never removed.                     *)
AfterTerminate ==
  LET x == [cur EXCEPT !.error = "timeout", !.dump = FALSE]
  IN  /\ rpc = "after"
      /\ NeedTerminate(cur.conn, cur.group)
      /\ cur' = x
      /\ Store(x)
      /\ rpc' = IF cur.dump THEN "reply" ELSE "error"
      /\ UNCHANGED <<open, gone, left, grp, jobs, tmp, progexit, apc, ready>>

(* The command was the last: the socket is closed if nobody uses it.        *)
AfterLast ==
  LET x == [cur EXCEPT !.live = FALSE, !.group = FALSE,
                       !.error = IF cur.rc = "failed" THEN "error" ELSE @,
                       !.id = @ + 1]
  IN  /\ rpc = "after"
      /\ ~NeedTerminate(cur.conn, cur.group)
      /\ cur.rc # "dispatched" /\ LastOne(cur.conn, cur.group)
      /\ GroupFinished(cur.conn, cur.group, FALSE)
      /\ Close(cur.fd)
      /\ cur' = x
      /\ Store(x)
      /\ \/ More(x) /\ rpc' = "command"
         \/ rpc' = IF x.error = "none" THEN "pass" ELSE "error"
      /\ UNCHANGED <<gone, left, jobs, tmp, progexit, apc, ready>>

(* The command was the last, and a worker will close the socket.            *)
AfterWaitReply ==
  LET x == [cur EXCEPT !.live = FALSE, !.mode = "WAITREPLY",
                       !.error = IF cur.rc = "failed" THEN "error" ELSE @]
  IN  /\ rpc = "after"
      /\ ~NeedTerminate(cur.conn, cur.group)
      /\ cur.rc # "dispatched" \/ ~cur.group
      /\ cur.rc = "dispatched" \/ ~LastOne(cur.conn, cur.group)
      /\ cur.mode # "STREAM"
      /\ GroupFinished(cur.conn, cur.group /\ cur.rc # "dispatched", FALSE)
      /\ cur' = x
      /\ Store(x)
      /\ \/ x.error = "none" /\ rpc' = "pass"
         \/ (x.error = "error" \/ More(x)) /\ rpc' = "reply"
      /\ UNCHANGED <<open, gone, left, jobs, tmp, progexit, apc, ready>>

(* The connection stays open for commands or the chunks of a stream.        *)
AfterContinue ==
  LET x == [cur EXCEPT !.id = IF cur.mode = "STREAM" THEN @ ELSE @ + 1]
  IN  /\ rpc = "after"
      /\ ~NeedTerminate(cur.conn, cur.group)
      /\ cur.rc = "dispatched" /\ (cur.group \/ cur.mode = "STREAM")
      /\ cur' = x
      /\ Store(x)
      /\ \/ rpc' = "pass"
         \/ x.mode = "STREAM" /\ rpc' = "stream"
         \/ x.mode # "STREAM" /\ More(x) /\ rpc' = "command"
      /\ UNCHANGED <<open, gone, left, grp, jobs, tmp, progexit, apc, ready>>

(* A chunk beyond StreamMaxLength, or the dump file cannot be written.      *)
StreamError ==
  /\ rpc = "stream"
  /\ cur' = [cur EXCEPT !.error = "error"]
  /\ rpc' = "error"
  /\ UNCHANGED <<open, gone, left, buf, grp, jobs, tmp, progexit, apc, ready>>

(* A chunk; the rest comes later.                                           *)
StreamChunk ==
  /\ rpc = "stream"
  /\ rpc' = "pass"
  /\ UNCHANGED <<open, gone, left, buf, grp, jobs, tmp, progexit, apc, ready, cur>>

(* The last chunk: the stream is dispatched to a worker.                    *)
StreamEnd ==
  LET done == [cur EXCEPT !.dump = FALSE, !.live = cur.group, !.id = @ + 1,
                          !.mode = IF cur.group THEN "COMMAND" ELSE "WAITREPLY"]
  IN  /\ rpc = "stream"
      /\ \/ /\ GroupDispatch
            /\ cur' = done
            /\ Store(done)
            /\ rpc' \in IF More(done) /\ done.live THEN {"pass", "command"} ELSE {"pass"}
         \/ /\ "nomemory" \in env.faults
            /\ cur' = [done EXCEPT !.error = "error", !.id = cur.id]
            /\ Store(done)
            /\ rpc' = "error"
            /\ UNCHANGED <<jobs, grp>>
      /\ UNCHANGED <<open, gone, left, tmp, progexit, apc, ready>>

(* "Error processing command." is sent.                                     *)
ReplyError ==
  /\ rpc = "reply"
  /\ cur' = [cur EXCEPT !.error = "error"]
  /\ rpc' = "error"
  /\ UNCHANGED <<open, gone, left, buf, grp, jobs, tmp, progexit, apc, ready>>

(* Mutant: the socket is closed although jobs of the session are active. *)
ErrorPathCloses ==
  /\ rpc = "error"
  /\ GroupFinished(cur.conn, cur.group, TRUE)
  /\ IF cur.live THEN Close(cur.fd) ELSE UNCHANGED open
  /\ tmp' = [tmp EXCEPT ![cur.conn] = IF cur.dump THEN @ - 1 ELSE @]
  /\ Store([cur EXCEPT !.live = FALSE])
  /\ cur' = None
  /\ rpc' = "pass"
  /\ UNCHANGED <<gone, left, jobs, progexit, apc, ready>>

ErrorPath ==
  /\ rpc = "error"
  /\ GroupFinished(cur.conn, cur.group, TRUE)
  /\ IF LastOne(cur.conn, cur.group) /\ cur.live THEN Close(cur.fd) ELSE UNCHANGED open
  /\ tmp' = [tmp EXCEPT ![cur.conn] = IF cur.dump THEN @ - 1 ELSE @]
  /\ Store([cur EXCEPT !.live = FALSE])
  /\ cur' = None
  /\ rpc' = "pass"
  /\ UNCHANGED <<gone, left, jobs, progexit, apc, ready>>

(* All ready descriptors are handled.                                       *)
EndPass ==
  /\ rpc = "pass" /\ ready = {}
  /\ rpc' = IF progexit THEN "exit" ELSE "poll"
  /\ cur' = None
  /\ UNCHANGED <<open, gone, left, buf, grp, jobs, tmp, progexit, apc, ready>>

(* progexit: what nobody uses is closed, the rest is left to the workers.   *)
ExitLoop ==
  LET unused == {d \in Monitored : LastOne(buf[d].conn, buf[d].group)} IN
  /\ rpc = "exit"
  /\ open' = [d \in Fds |-> IF d \in unused THEN None ELSE open[d]]
  /\ buf' = [d \in Fds |-> IF d \in unused THEN None ELSE buf[d]]
  /\ grp' = [c \in Conns |->
               IF \E d \in Monitored : buf[d].conn = c /\ buf[d].group
               THEN [state |-> IF grp[c].jobs = 1 THEN "freed" ELSE grp[c].state,
                     jobs |-> grp[c].jobs - 1, force_exit |-> TRUE]
               ELSE grp[c]]
  /\ rpc' = "done"
  /\ UNCHANGED <<gone, left, jobs, tmp, progexit, apc, ready, cur>>
-----------------------------------------------------------------------------
(* The workers.                                                             *)

Advance(j, pc) == jobs' = (jobs \ {j}) \cup {[j EXCEPT !.pc = pc]}

(* command(): a job whose group has to terminate does nothing.              *)
JobTerminated(j) ==
  /\ j.pc = "queued" /\ NeedTerminate(j.conn, j.group)
  /\ Advance(j, "finish")
  /\ UNCHANGED <<open, gone, left, buf, grp, tmp, progexit, apc, rpc, ready, cur>>

JobStart(j) ==
  /\ j.pc = "queued" /\ ~NeedTerminate(j.conn, j.group)
  /\ Advance(j, "reply")
  /\ UNCHANGED <<open, gone, left, buf, grp, tmp, progexit, apc, rpc, ready, cur>>

(* The scan ends and is answered.  A client that does not read, or left,    *)
(* makes the whole group terminate.                                         *)
JobReply(j) ==
  /\ j.pc = "reply"
  /\ jobs' = (jobs \ {j}) \cup {[j EXCEPT !.pc = "finish", !.dump = FALSE]}
  /\ tmp' = [tmp EXCEPT ![j.conn] = IF j.dump THEN @ - 1 ELSE @]
  /\ \E timeout \in BOOLEAN :
       grp' = IF timeout /\ j.group THEN [grp EXCEPT ![j.conn].force_exit = TRUE] ELSE grp
  /\ UNCHANGED <<open, gone, left, buf, progexit, apc, rpc, ready, cur>>


JobFinish(j) ==
  /\ j.pc = "finish"
  /\ GroupFinished(j.conn, j.group, FALSE)
  /\ IF LastOne(j.conn, j.group) THEN Advance(j, "close") ELSE jobs' = jobs \ {j}
  /\ UNCHANGED <<open, gone, left, buf, tmp, progexit, apc, rpc, ready, cur>>

JobClose(j) ==
  /\ j.pc = "close"
  /\ Close(j.sd)
  /\ jobs' = jobs \ {j}
  /\ UNCHANGED <<gone, left, buf, grp, tmp, progexit, apc, rpc, ready, cur>>
-----------------------------------------------------------------------------
AcceptThread == CheckExit \/ Add \/ \E c \in Conns : Accept(c)

Parse == Command \/ AfterTerminate \/ AfterLast \/ AfterWaitReply \/ AfterContinue

Stream == StreamError \/ StreamChunk \/ StreamEnd

Pass == EndPass \/ \E d \in Fds : ReadError(d) \/ NewData(d) \/ PartialData(d)

ReceiveThread == Poll \/ Pass \/ Parse \/ Stream \/ ReplyError \/ ErrorPath \/ ExitLoop

Worker(j) == JobTerminated(j) \/ JobStart(j) \/ JobReply(j) \/ JobFinish(j) \/ JobClose(j)

Next ==
  /\ \/ AcceptThread \/ ReceiveThread \/ Sigterm
     \/ \E j \in jobs : Worker(j)
     \/ \E c \in Conns : Hangup(c)
  /\ UNCHANGED env

Spec == Init /\ [][Next]_vars
-----------------------------------------------------------------------------
(* Clients that send what IDSESSION accepts (session.c:509) and nothing     *)
(* behind the command that ends their connection (server-th.c:528), and no  *)
(* single command dispatched while progexit is set (server-th.c:518).  In   *)
(* each of the excepted cases the code closes a socket that a job uses, and *)
(* so it does when a dispatch fails inside IDSESSION: the reference of the  *)
(* session is dropped twice (server-th.c:524 and 1225), and the first of    *)
(* two jobs to finish closes the socket while the other replies.            *)
Orderly ==
  /\ env.inside \subseteq Accepted
  /\ "pipelined" \notin env.faults
  /\ "nomemory" \in env.faults => "IDSESSION" \notin env.outside
  /\ "sigterm" \in env.faults => "SCAN" \notin env.outside

Modes == {"COMMAND", "STREAM", "WAITREPLY"}

TypeOK ==
  /\ open \in [Fds -> Conns \cup {None}]
  /\ gone \subseteq Conns
  /\ left \in [Conns -> 0..(MaxCommands + 1)]
  /\ \A d \in Monitored : buf[d].conn \in Conns /\ buf[d].mode \in {"COMMAND", "STREAM"}
  /\ \A c \in Conns : grp[c].state \in {"none", "live", "freed"} /\ grp[c].jobs \in Nat
  /\ \A j \in jobs : j.conn \in Conns /\ j.sd \in Fds /\ j.pc \in {"queued", "reply", "finish", "close"}
  /\ tmp \in [Conns -> Nat]
  /\ progexit \in BOOLEAN
  /\ apc.state \in {"idle", "accept", "add", "stopped"}
  /\ rpc \in {"poll", "pass", "command", "after", "stream", "reply", "error", "exit", "done"}
  /\ ready \subseteq Monitored
  /\ rpc \in {"command", "after", "stream", "reply", "error"} => cur.conn \in Conns /\ cur.mode \in Modes

(* The socket a worker answers on, and closes when it is the last, is its   *)
(* own client's until the worker is through with it: the receive thread     *)
(* does not close it "if there are no more active jobs" by mistake, and     *)
(* the kernel has not given the number to another client.                   *)
JobOwnsSocket ==
  Orderly => \A j \in jobs : (j.group /\ j.pc = "finish") \/ open[j.sd] = j.conn

(* The receive thread executes a command, stores a chunk or sends an error  *)
(* only while the descriptor is that of the client it read from.  After a   *)
(* failed dispatch it may not be (server-th.c:1212).                        *)
ReceiverOwnsSocket ==
  Orderly /\ "nomemory" \notin env.faults /\ rpc \in {"command", "stream", "reply"} =>
    open[cur.fd] = cur.conn

(* fds_poll_recv polls descriptors that nobody else closes: "Never close a  *)
(* file descriptor that is being monitored by poll()/select() from another  *)
(* thread".  Hence "FD mismatch" "should never happen".                     *)
MonitoredNotClosed ==
  \A d \in Monitored :
    Orderly /\ rpc # "done" /\ ~(cur # None /\ cur.fd = d) => open[d] = buf[d].conn

(* Whoever works on a descriptor works on that of its own client: workers,  *)
(* the receive thread and the table that is polled.                         *)
SocketOwned == TypeOK /\ JobOwnsSocket /\ ReceiverOwnsSocket /\ MonitoredNotClosed


Refs(c) == {j \in jobs : j.conn = c /\ j.group /\ j.pc # "close"}

SessionRef(c) ==
  IF cur # None /\ cur.conn = c
  THEN cur.group /\ (cur.mode # "WAITREPLY" \/ rpc = "after")
  ELSE rpc # "done" /\ \E d \in Monitored : buf[d].conn = c /\ buf[d].group

(* A session's group counts the jobs that will still call group_finished,   *)
(* and the session itself; it is freed when nobody refers to it any more.   *)
(* A failed dispatch drops the session's reference twice                    *)
(* (server-th.c:1224).                                                      *)
GroupCounts ==
  Orderly /\ "nomemory" \notin env.faults => \A c \in Conns :
    /\ grp[c].jobs = Cardinality(Refs(c)) + IF SessionRef(c) THEN 1 ELSE 0
    /\ grp[c].state = "freed" => grp[c].jobs = 0

(* Every temporary file of a stream has a thread that will remove it: the   *)
(* receive thread on an error, or the job that scans it.  The code leaves   *)
(* one behind when the job cannot be made, is terminated before it starts   *)
(* (session.c:197), or when the session has to terminate as INSTREAM comes  *)
(* (server-th.c:583).                                                       *)
TempFilesOwned ==
  \A c \in Conns :
    tmp[c] = Cardinality({j \in jobs : j.conn = c /\ j.dump})
             + (IF \/ cur # None /\ cur.conn = c /\ cur.dump
                   \/ \E d \in Monitored :
                         buf[d].conn = c /\ buf[d].dump /\ ~(cur # None /\ cur.fd = d)
                THEN 1 ELSE 0)
=============================================================================
