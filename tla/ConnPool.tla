------------------------------ MODULE ConnPool ------------------------------
(* The pool of clamd servers of clamav-milter (connpool.c): a monitor        *)
(* thread that pings the servers, the milter threads that ask for a          *)
(* connection, and the shutdown that joins the monitor.  None of them takes  *)
(* a lock: the monitor waits on a mutex of its own, so a signal sent while   *)
(* it probes is lost.  Time counts in minutes, the period of the monitor,    *)
(* and only while it waits: how long a probe takes is not modelled, only     *)
(* that it ends.  A hung server holds it up for ReadTimeout, which may be    *)
(* longer than a minute; a ReadTimeout of 0, with which nc_recv gives up     *)
(* before it waits, is not modelled.                                         *)
EXTENDS Naturals, FiniteSets

CONSTANTS
  Entries,      \* number of ClamdSocket lines (cp->entries)
  Local,        \* entries whose address is one of this host
  LocalCpe,     \* the first unix socket (cp->local_cpe), 0 for none
  Requests,     \* milter threads
  DeadAge,      \* minutes after which a dead entry is polled again
  AliveAge      \* minutes after which any entry is polled again

Slots == 1..Entries

ASSUME PoolAssumption ==
  /\ Entries \in Nat \ {0} /\ DeadAge \in Nat /\ AliveAge \in Nat
  /\ Local \subseteq Slots /\ LocalCpe \in Local \cup {0}

VARIABLES
  server,       \* what each server does: "up", "hung" (connects, no PONG), "down"
  dead, age,    \* per entry: cpe->dead, minutes since last_poll
  alive,        \* cp->alive
  mon, slot, ndead,     \* monitor: place, entry looked at, dead ones counted
  req, start, i, cpe,   \* cpool_get_rand of each milter thread
  quitting, main,       \* cpool_free
  cand,         \* history: entries a request could have been given throughout
  none          \* history: every entry was dead when this probe began

vars == <<server, dead, age, alive, mon, slot, ndead, req, start, i, cpe, quitting, main, cand, none>>
monitor == <<age, alive, mon, slot, ndead, none>>
request == <<req, start, i, cpe>>
ending == <<quitting, main>>

(* cpool_init, cpool_addunix and cpool_addtcp: all entries start dead, never *)
(* polled.                                                                   *)
Init ==
  /\ server \in [Slots -> {"up", "hung", "down"}]
  /\ dead = [e \in Slots |-> TRUE]
  /\ age = [e \in Slots |-> AliveAge + 1]
  /\ alive = 0
  /\ mon = "test" /\ slot = 0 /\ ndead = 0
  /\ req = [r \in Requests |-> "idle"]
  /\ start = [r \in Requests |-> 0] /\ i = [r \in Requests |-> 0]
  /\ cpe = [r \in Requests |-> 0]
  /\ quitting = FALSE /\ main = "run"
  /\ cand = [r \in Requests |-> {}] /\ none = TRUE

(* A request keeps as candidates the entries that stay usable.               *)
Watch == cand' = [r \in Requests |-> {e \in cand[r] : ~dead'[e] /\ server'[e] # "down"}]

ServerChanges(e) ==
  /\ \E s \in {"up", "hung", "down"} \ {server[e]} : server' = [server EXCEPT ![e] = s]
  /\ UNCHANGED <<dead, monitor, request, ending>> /\ Watch
-----------------------------------------------------------------------------
(* The monitor: cpool_mon and cpool_probe.                                   *)

(* Mutant: only dead entries are probed. *)
ToProbeDeadOnly(e) == dead[e] /\ (age[e] > DeadAge \/ alive = 0)

ToProbe(e) == \/ dead[e] /\ (age[e] > DeadAge \/ alive = 0)
              \/ age[e] > AliveAge

MonTest ==
  /\ mon = "test"
  /\ IF quitting THEN mon' = "ended" /\ UNCHANGED <<slot, ndead, none>>
     ELSE mon' = "probe" /\ slot' = 1 /\ ndead' = 0 /\ none' = (\A e \in Slots : dead[e])
  /\ UNCHANGED <<server, dead, age, alive, request, ending, cand>>

(* Mutant: the mark from before the probe is counted. *)
CountBefore(d) ==
  LET n == ndead + (IF dead[slot] THEN 1 ELSE 0) IN
  IF slot < Entries
  THEN slot' = slot + 1 /\ ndead' = n /\ mon' = "probe" /\ UNCHANGED alive
  ELSE alive' = Entries - n /\ slot' = 0 /\ ndead' = 0 /\ mon' = "wait"

(* dead += cpe->dead; cpe++; and after the last entry cp->alive.             *)
Count(d) ==
  LET n == ndead + (IF d THEN 1 ELSE 0) IN
  IF slot < Entries
  THEN slot' = slot + 1 /\ ndead' = n /\ mon' = "probe" /\ UNCHANGED alive
  ELSE alive' = Entries - n /\ slot' = 0 /\ ndead' = 0 /\ mon' = "wait"

Skip ==
  /\ mon = "probe" /\ ~ToProbe(slot) /\ Count(dead[slot])
  /\ UNCHANGED <<server, dead, age, none, request, ending, cand>>

Poll ==
  /\ mon = "probe" /\ ToProbe(slot)
  /\ mon' = "ping" /\ age' = [age EXCEPT ![slot] = 0]
  /\ UNCHANGED <<server, dead, alive, slot, ndead, none, request, ending, cand>>

(* nc_ping_entry: connected, PING sent and PONG received.                    *)
Ping ==
  /\ mon = "ping"
  /\ dead' = [dead EXCEPT ![slot] = server[slot] # "up"]
  /\ Count(server[slot] # "up")
  /\ UNCHANGED <<server, age, none, request, ending>> /\ Watch

(* Mutant: the wait has no timeout. *)
MinuteNoTimeout ==
  /\ mon = "wait"
  /\ age' = [e \in Slots |-> IF age[e] > AliveAge THEN age[e] ELSE age[e] + 1]
  /\ UNCHANGED <<server, dead, alive, mon, slot, ndead, none, request, ending, cand>>

(* pthread_cond_timedwait gives up after 60 seconds.                         *)
Minute ==
  /\ mon = "wait" /\ mon' = "test"
  /\ age' = [e \in Slots |-> IF age[e] > AliveAge THEN age[e] ELSE age[e] + 1]
  /\ UNCHANGED <<server, dead, alive, slot, ndead, none, request, ending, cand>>

(* pthread_cond_signal(&mon_cond): only a monitor that waits hears it.       *)
Signal == mon' = IF mon = "wait" THEN "test" ELSE mon
-----------------------------------------------------------------------------
(* cpool_get_rand, and nc_connect_rand that calls it.                        *)
Begin(r) ==
  /\ main = "run" /\ req[r] = "idle" /\ alive > 0
  /\ \E s \in Slots : start' = [start EXCEPT ![r] = s]
  /\ req' = [req EXCEPT ![r] = "look"] /\ i' = [i EXCEPT ![r] = 0]
  /\ cand' = [cand EXCEPT ![r] = {e \in Slots : ~dead[e] /\ server[e] # "down"}]
  /\ UNCHANGED <<server, dead, monitor, cpe, ending>>

NoneAlive(r) ==
  /\ main = "run" /\ req[r] = "idle" /\ alive = 0 /\ Signal
  /\ UNCHANGED <<server, dead, age, alive, slot, ndead, none, request, ending, cand>>

Entry(r) == 1 + ((start[r] - 1 + i[r]) % Entries)

(* Mutant: break for continue. *)
LookBreak(r) ==
  /\ req[r] = "look" /\ i[r] < Entries
  /\ LET e == Entry(r) IN
     IF dead[e]
     THEN i' = [i EXCEPT ![r] = Entries] /\ UNCHANGED <<req, cpe, cand>>
     ELSE /\ cpe' = [cpe EXCEPT ![r] = e] /\ req' = [req EXCEPT ![r] = "connect"]
          /\ UNCHANGED <<i, cand>>
  /\ UNCHANGED <<server, dead, monitor, start, ending>>

(* The local socket takes the place of any entry of this host, which then    *)
(* has had its turn.                                                         *)
Look(r) ==
  /\ req[r] = "look" /\ i[r] < Entries
  /\ LET e == Entry(r)
         instead == e \in Local /\ LocalCpe # 0 /\ ~dead[LocalCpe]
         c == IF instead THEN LocalCpe ELSE e
     IN IF dead[e]
        THEN i' = [i EXCEPT ![r] = i[r] + 1] /\ UNCHANGED <<req, cpe, cand>>
        ELSE /\ cpe' = [cpe EXCEPT ![r] = c] /\ req' = [req EXCEPT ![r] = "connect"]
             /\ cand' = [cand EXCEPT ![r] = IF instead THEN cand[r] \ {e} ELSE cand[r]]
             /\ UNCHANGED i
  /\ UNCHANGED <<server, dead, monitor, start, ending>>

(* nc_connect_entry; the answer is known before dead is written.  What       *)
(* nc_connect_rand does next may still fail, without a mark on the entry.    *)
Connect(r) ==
  /\ req[r] = "connect"
  /\ req' = [req EXCEPT ![r] = IF server[cpe[r]] = "down" THEN "mark" ELSE "given"]
  /\ UNCHANGED <<server, dead, monitor, start, i, cpe, ending, cand>>

Mark(r) ==
  /\ req[r] = "mark"
  /\ dead' = [dead EXCEPT ![cpe[r]] = TRUE]
  /\ i' = [i EXCEPT ![r] = i[r] + 1] /\ req' = [req EXCEPT ![r] = "look"]
  /\ UNCHANGED <<server, monitor, start, cpe, ending>> /\ Watch

GiveUp(r) ==
  /\ req[r] = "look" /\ i[r] >= Entries
  /\ Signal /\ req' = [req EXCEPT ![r] = "refused"]
  /\ UNCHANGED <<server, dead, age, alive, slot, ndead, none, start, i, cpe, ending, cand>>

Leave(r) ==
  /\ req[r] \in {"given", "refused"}
  /\ req' = [req EXCEPT ![r] = "idle"] /\ start' = [start EXCEPT ![r] = 0]
  /\ i' = [i EXCEPT ![r] = 0] /\ cpe' = [cpe EXCEPT ![r] = 0]
  /\ cand' = [cand EXCEPT ![r] = {}]
  /\ UNCHANGED <<server, dead, monitor, ending>>
-----------------------------------------------------------------------------
(* cpool_free, once smfi_main has returned and its threads are gone.         *)
Quit ==
  /\ main = "run" /\ \A r \in Requests : req[r] = "idle"
  /\ quitting' = TRUE /\ main' = "join" /\ Signal
  /\ UNCHANGED <<server, dead, age, alive, slot, ndead, none, request, cand>>

Join ==
  /\ main = "join" /\ mon = "ended" /\ main' = "freed"
  /\ UNCHANGED <<server, dead, monitor, request, quitting, cand>>

Monitor == MonTest \/ Skip \/ Poll \/ Ping
Step(r) == Look(r) \/ Connect(r) \/ Mark(r) \/ GiveUp(r) \/ Leave(r)

Next ==
  \/ Monitor \/ Minute \/ Quit \/ Join
  \/ \E e \in Slots : ServerChanges(e)
  \/ \E r \in Requests : Begin(r) \/ NoneAlive(r) \/ Step(r)

Spec == Init /\ [][Next]_vars

(* The threads run, and a minute ends.  Nothing is assumed of the servers,   *)
(* of the milter threads or of the wish to stop.                             *)
FairSpec == Spec /\ WF_vars(Monitor) /\ WF_vars(Minute) /\ WF_vars(Join)
                 /\ \A r \in Requests : WF_vars(Step(r))
-----------------------------------------------------------------------------
(* cp->alive may overstate the servers that are not dead, since              *)
(* cpool_get_rand kills entries behind the monitor's back, but between       *)
(* probes it never understates them: no request is turned away at            *)
(* connpool.c:269 while a live server is known.                              *)
AliveNotUnderstated ==
  mon \in {"test", "wait"} => Cardinality({e \in Slots : ~dead[e]}) <= alive

(* Fail-over: a request that found cp->alive set is refused only if no       *)
(* entry stayed both marked alive and reachable while it looked, except      *)
(* entries whose turn was spent on the local socket.                         *)
FailOver == \A r \in Requests : req[r] = "refused" => cand[r] = {}

(* The marks follow the servers: one that is up for good is offered for      *)
(* good, however many refusals and lost signals came before; one that stops  *)
(* answering for good is taken out of the pool, also when no message arrives *)
(* to try it.                                                                *)
Tracked ==
  \A e \in Slots :
    /\ <>[](server[e] = "up" /\ ~quitting) => <>[](~dead[e])
    /\ <>[](server[e] = "down" /\ ~quitting) => <>[](dead[e])

(* cpool_free returns, although the signal it sends is lost when the         *)
(* monitor is probing.                                                       *)
ShutdownEnds == quitting ~> main = "freed"

(* connpool.c:149: an alive entry is probed again when its last check is     *)
(* more than 15 minutes old, so a probe leaves none older.                   *)
ProbedEveryQuarter == \A e \in Slots : mon = "wait" /\ ~dead[e] => age[e] <= 15

(* connpool.c:150: a dead entry is probed when no clamd is available: a      *)
(* probe that begins with every entry dead checks them all.                  *)
ProbedWhenNone == mon = "wait" /\ none => \A e \in Slots : age[e] = 0
=============================================================================
