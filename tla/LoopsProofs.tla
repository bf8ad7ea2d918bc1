---------------------------- MODULE LoopsProofs -----------------------------
(* The limit on the table of connections and the use of cond_nfds, for any  *)
(* number of clients and any max_queue.                                     *)
EXTENDS ServerLoops, TLAPS

Counts ==
  /\ watched \in Nat /\ fresh \in Nat /\ dead \in Nat
  /\ progexit \in BOOLEAN

(* Between its test of the limit and fds_add the accept loop relies on the  *)
(* table not growing: it is the only thread that adds.  With progexit set   *)
(* it passes the test with a full table, but then it does not accept.       *)
Room ==
  /\ nfds <= max_queue + 1
  /\ apc = "ready" => nfds <= max_queue \/ progexit
  /\ apc \in {"accept", "add"} => nfds <= max_queue

LoopsInv == Counts /\ Room /\ NoLostWakeup

(* Steps that change neither the table nor either loop's place.             *)
LEMMA OtherSteps ==
  ASSUME LoopsAssumption, LoopsInv, UNCHANGED <<watched, fresh, dead, apc, rpc>>,
         progexit' \in BOOLEAN, progexit => progexit'
  PROVE  LoopsInv'
BY DEF LoopsAssumption, LoopsInv, Counts, Room, NoLostWakeup, nfds

(* Clients, signals and workers.                                            *)
LEMMA EnvironmentKeeps ==
  ASSUME LoopsAssumption, LoopsInv, Connect \/ Sigterm \/ TaskEnds \/ TaskOOM
  PROVE  LoopsInv'
<1>1. UNCHANGED <<watched, fresh, dead, apc, rpc>>
  BY DEF Connect, Sigterm, TaskEnds, TaskOOM
<1>2. progexit' \in BOOLEAN /\ (progexit => progexit')
  BY Zenon DEF Connect, Sigterm, TaskEnds, TaskOOM, LoopsInv, Counts
<1> QED BY <1>1, <1>2, OtherSteps

(* The accept loop.                                                         *)
LEMMA AcceptKeeps ==
  ASSUME LoopsAssumption, LoopsInv, AcceptLoop \/ AcceptFatal \/ AcceptFails \/ AddFails
  PROVE  LoopsInv'
<1> USE DEF LoopsInv, Counts, Room, NoLostWakeup, nfds
<1>1. CASE AcceptPoll
  BY <1>1 DEF AcceptPoll
<1>2. CASE AcceptFatal
  BY <1>2 DEF AcceptFatal
<1>3. CASE AcceptLimit
  <2>1. UNCHANGED <<watched, fresh, dead, progexit, rpc>>
    BY <1>3 DEF AcceptLimit
  <2>2. CASE nfds > max_queue /\ ~progexit
    <3>1. apc' = "asleep"
      BY <1>3, <2>2 DEF AcceptLimit
    <3> QED BY <2>1, <2>2, <3>1
  <2>3. CASE nfds <= max_queue \/ progexit
    <3>1. apc' = "ready"
      BY <1>3, <2>3 DEF AcceptLimit, LoopsAssumption
    <3> QED BY <2>1, <2>3, <3>1
  <2>4. nfds \in Nat
    OBVIOUS
  <2> QED BY <2>2, <2>3, <2>4 DEF LoopsAssumption
<1>4. CASE AcceptReady
  BY <1>4 DEF AcceptReady
<1>5. CASE Accept
  BY <1>5 DEF Accept
<1>6. CASE AcceptAdd
  BY <1>6 DEF AcceptAdd, LoopsAssumption
<1>7. CASE AcceptNotify
  BY <1>7 DEF AcceptNotify
<1>8. CASE AcceptCheck
  BY <1>8 DEF AcceptCheck
<1>9. CASE AcceptClose
  BY <1>9 DEF AcceptClose
<1>10. CASE AcceptFails
  BY <1>10 DEF AcceptFails
<1>11. CASE AddFails
  BY <1>11 DEF AddFails
<1> QED BY <1>1, <1>2, <1>3, <1>4, <1>5, <1>6, <1>7, <1>8, <1>9, <1>10, <1>11 DEF AcceptLoop

(* The receive loop never lets the table grow, and before it enters poll it *)
(* wakes the accept loop if there is room.                                  *)
LEMMA RecvKeeps ==
  ASSUME LoopsAssumption, LoopsInv,
         \/ RecvLoop \/ RecvReady \/ RecvEnd \/ RecvCommand \/ RecvShutdown
         \/ RecvFatal \/ RecvReloadFails
  PROVE  LoopsInv'
<1> USE DEF LoopsInv, Counts, Room, NoLostWakeup, nfds
<1>1. CASE RecvTop
  <2>1. /\ dead' = 0 /\ watched' = watched + fresh /\ fresh' = 0
        /\ progexit' = progexit /\ rpc' = "poll"
    BY <1>1 DEF RecvTop
  <2>2. nfds' = nfds - dead /\ nfds' <= nfds
    BY <2>1
  <2>3. CASE apc = "asleep" /\ nfds - dead <= max_queue
    <3>1. apc' = "limit"
      BY <1>1, <2>3 DEF RecvTop
    <3> QED BY <2>1, <2>2, <3>1 DEF LoopsAssumption
  <2>4. CASE ~(apc = "asleep" /\ nfds - dead <= max_queue)
    <3>1. apc' = apc
      BY <1>1, <2>4 DEF RecvTop
    <3>2. apc = "asleep" => nfds - dead > max_queue
      BY <2>4 DEF LoopsAssumption
    <3> QED BY <2>1, <2>2, <3>1, <3>2 DEF LoopsAssumption
  <2> QED BY <2>3, <2>4
<1>2. CASE RecvWoken
  BY <1>2 DEF RecvWoken
<1>3. CASE RecvTimeout
  BY <1>3 DEF RecvTimeout
<1>4. CASE RecvReady
  BY <1>4 DEF RecvReady
<1>5. CASE RecvEnd
  BY <1>5 DEF RecvEnd
<1>6. CASE RecvCommand
  BY <1>6 DEF RecvCommand
<1>7. CASE RecvDispatch
  BY <1>7 DEF RecvDispatch
<1>8. CASE RecvShutdown
  BY <1>8 DEF RecvShutdown
<1>9. CASE RecvCheck
  BY <1>9 DEF RecvCheck
<1>10. CASE RecvExit
  BY <1>10 DEF RecvExit
<1>11. CASE RecvDestroy
  BY <1>11 DEF RecvDestroy
<1>12. CASE RecvJoin
  BY <1>12 DEF RecvJoin
<1>13. CASE RecvLeave
  BY <1>13 DEF RecvLeave
<1>14. CASE RecvFatal
  BY <1>14 DEF RecvFatal
<1>15. CASE RecvReloadFails
  BY <1>15 DEF RecvReloadFails
<1> QED BY <1>1, <1>2, <1>3, <1>4, <1>5, <1>6, <1>7, <1>8, <1>9, <1>10, <1>11, <1>12, <1>13, <1>14, <1>15
        DEF RecvLoop

(* LoopsInv is inductive.                                                   *)
LEMMA LoopsInductive == Spec => []LoopsInv
<1>1. Init => LoopsInv
  <2> SUFFICES ASSUME Init PROVE LoopsInv
    OBVIOUS
  <2>1. watched = 0 /\ fresh = 0 /\ dead = 0 /\ apc = "poll" /\ rpc = "top"
    BY DEF Init
  <2>2. progexit \in BOOLEAN
    BY Zenon DEF Init
  <2>3. max_queue \in Nat /\ max_queue # 0
    BY LoopsAssumption DEF LoopsAssumption
  <2>4. nfds = 1
    BY <2>1 DEF nfds
  <2>5. Counts
    BY <2>1, <2>2 DEF Counts
  <2>6. Room
    BY <2>1, <2>3, <2>4 DEF Room
  <2>7. NoLostWakeup
    BY <2>1 DEF NoLostWakeup
  <2> QED BY <2>5, <2>6, <2>7 DEF LoopsInv
<1>2. LoopsInv /\ [Next]_vars => LoopsInv'
  <2> SUFFICES ASSUME LoopsInv, [Next]_vars PROVE LoopsInv'
    OBVIOUS
  <2>1. CASE UNCHANGED vars
    BY <2>1 DEF vars, state, LoopsInv, Counts, Room, NoLostWakeup, nfds
  <2> QED BY <2>1, LoopsAssumption, EnvironmentKeeps, AcceptKeeps, RecvKeeps DEF Next
<1> QED BY <1>1, <1>2, PTL DEF Spec

(* TableBounded for every number of clients and every max_queue: accepting  *)
(* stops at the limit although the accept loop tests it long before it adds *)
(* the connection, and without a lock in between.                           *)
THEOREM TableNeverOverfull == Spec => []TableBounded
<1>1. LoopsInv => TableBounded
  BY LoopsAssumption DEF LoopsAssumption, LoopsInv, Counts, Room, TableBounded, nfds
<1> QED BY <1>1, LoopsInductive, PTL

(* NoLostWakeup for every number of clients and every max_queue: no signal  *)
(* of cond_nfds is missed, so the accept loop sleeps only with a full table *)
(* while the receive loop is in poll.                                       *)
THEOREM WakeupNeverLost == Spec => []NoLostWakeup
<1>1. LoopsInv => NoLostWakeup
  BY DEF LoopsInv
<1> QED BY <1>1, LoopsInductive, PTL
=============================================================================
