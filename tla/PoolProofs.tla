----------------------------- MODULE PoolProofs -----------------------------
(* cp->alive never understates the pool, for every number of servers and of *)
(* milter threads.                                                          *)
EXTENDS ConnPool, FiniteSetTheorems, TLAPS

DeadBelow(d, n) == {e \in Slots : e < n /\ d[e]}
Usable(d) == {e \in Slots : ~d[e]}

(* While the monitor probes, the dead entries it has counted are still dead: *)
(* the entries behind it can only be killed, not revived.                    *)
PoolInv ==
  /\ dead \in [Slots -> BOOLEAN]
  /\ ndead \in Nat /\ alive \in Int
  /\ mon \in {"probe", "ping"} => slot \in Slots /\ ndead <= Cardinality(DeadBelow(dead, slot))
  /\ AliveNotUnderstated

LEMMA SlotsFinite == IsFiniteSet(Slots) /\ Cardinality(Slots) = Entries
BY PoolAssumption, FS_Interval DEF Slots

(* Counts of entries are numbers.                                           *)
LEMMA Counts ==
  ASSUME NEW d \in [Slots -> BOOLEAN], NEW n
  PROVE  /\ IsFiniteSet(DeadBelow(d, n)) /\ Cardinality(DeadBelow(d, n)) \in Nat
         /\ IsFiniteSet(Usable(d)) /\ Cardinality(Usable(d)) \in Nat
<1>1. DeadBelow(d, n) \in SUBSET Slots /\ Usable(d) \in SUBSET Slots
  BY DEF DeadBelow, Usable
<1> QED
  BY <1>1, SlotsFinite, FS_Subset, FS_CardinalityType

(* The entry at n adds one to the count when it is dead.                    *)
LEMMA CountNext ==
  ASSUME NEW d \in [Slots -> BOOLEAN], NEW n \in Slots
  PROVE  Cardinality(DeadBelow(d, n + 1)) = Cardinality(DeadBelow(d, n)) + (IF d[n] THEN 1 ELSE 0)
<1>0. n \in Nat /\ Slots \subseteq Nat
  BY PoolAssumption DEF Slots
<1>a. \A e \in Slots : e < n + 1 <=> (e < n \/ e = n)
  BY <1>0
<1>b. ~(n < n)
  BY <1>0
<1>1. CASE d[n]
  <2>1. DeadBelow(d, n + 1) = DeadBelow(d, n) \cup {n} /\ n \notin DeadBelow(d, n)
    BY <1>a, <1>b, <1>1, Zenon DEF DeadBelow
  <2> QED
    BY <1>1, <2>1, Counts, FS_AddElement
<1>2. CASE ~d[n]
  <2>1. DeadBelow(d, n + 1) = DeadBelow(d, n)
    BY <1>a, <1>2, Zenon DEF DeadBelow
  <2> QED
    BY <1>2, <2>1, Counts
<1> QED
  BY <1>1, <1>2

(* The entries that are not dead are the others.                            *)
LEMMA UsableCount ==
  ASSUME NEW d \in [Slots -> BOOLEAN]
  PROVE  Cardinality(Usable(d)) = Entries - Cardinality(DeadBelow(d, Entries + 1))
<1>1. Usable(d) = Slots \ DeadBelow(d, Entries + 1)
  BY PoolAssumption DEF Usable, DeadBelow, Slots
<1>2. Slots \cap DeadBelow(d, Entries + 1) = DeadBelow(d, Entries + 1)
  BY DEF DeadBelow
<1>3. Cardinality(Slots \ DeadBelow(d, Entries + 1))
        = Cardinality(Slots) - Cardinality(Slots \cap DeadBelow(d, Entries + 1))
  BY SlotsFinite, FS_Difference, Zenon
<1> QED
  BY <1>1, <1>2, <1>3, SlotsFinite, Zenon

(* Killing entries adds to the count and takes from the usable ones.        *)
LEMMA Killing ==
  ASSUME NEW d \in [Slots -> BOOLEAN], NEW f \in [Slots -> BOOLEAN],
         \A e \in Slots : d[e] => f[e], NEW n
  PROVE  /\ Cardinality(DeadBelow(d, n)) <= Cardinality(DeadBelow(f, n))
         /\ Cardinality(Usable(f)) <= Cardinality(Usable(d))
<1>1. DeadBelow(d, n) \in SUBSET DeadBelow(f, n) /\ Usable(f) \in SUBSET Usable(d)
  BY DEF DeadBelow, Usable
<1> QED
  BY <1>1, Counts, FS_Subset

(* Count, with f the state of the entries after the ping.                   *)
LEMMA CountKeeps ==
  ASSUME NEW f \in [Slots -> BOOLEAN], dead' = f, slot \in Slots, ndead \in Nat, alive \in Int,
         ndead <= Cardinality(DeadBelow(f, slot)), Count(f[slot])
  PROVE  PoolInv'
<1> DEFINE n == ndead + (IF f[slot] THEN 1 ELSE 0)
<1>0. slot \in Nat /\ Entries \in Nat /\ slot <= Entries /\ slot >= 1
  BY PoolAssumption DEF Slots
<1>1. n \in Nat /\ n <= Cardinality(DeadBelow(f, slot + 1))
  BY CountNext, Counts
<1>2. CASE slot < Entries
  <2>1. slot' = slot + 1 /\ ndead' = n /\ mon' = "probe" /\ alive' = alive
    BY <1>2 DEF Count
  <2>2. slot' \in Slots
    BY <1>0, <1>2, <2>1 DEF Slots
  <2> QED
    BY <1>1, <2>1, <2>2 DEF PoolInv, AliveNotUnderstated
<1>3. CASE ~(slot < Entries)
  <2>1. alive' = Entries - n /\ ndead' = 0 /\ mon' = "wait"
    BY <1>3 DEF Count
  <2>2. slot = Entries
    BY <1>0, <1>3
  <2>3. Cardinality(Usable(f)) <= Entries - n
    BY <1>0, <1>1, <2>2, UsableCount, Counts
  <2>4. AliveNotUnderstated'
    BY <2>1, <2>3 DEF AliveNotUnderstated, Usable
  <2> QED
    BY <1>0, <1>1, <2>1, <2>4 DEF PoolInv
<1> QED
  BY <1>2, <1>3

LEMMA PoolInductive == Spec => []PoolInv
<1>1. Init => PoolInv
  <2> SUFFICES ASSUME Init PROVE PoolInv
    OBVIOUS
  <2>1. dead \in [Slots -> BOOLEAN] /\ Usable(dead) = {}
    BY DEF Init, Usable
  <2> QED
    BY <2>1, FS_EmptySet DEF Init, PoolInv, AliveNotUnderstated, Usable
<1>2. PoolInv /\ [Next]_vars => PoolInv'
  <2> SUFFICES ASSUME PoolInv, [Next]_vars PROVE PoolInv'
    OBVIOUS
  <2>0. /\ dead \in [Slots -> BOOLEAN] /\ ndead \in Nat /\ alive \in Int
        /\ mon \in {"probe", "ping"} => slot \in Slots /\ ndead <= Cardinality(DeadBelow(dead, slot))
        /\ AliveNotUnderstated
    BY DEF PoolInv
  <2>1. CASE MonTest
    <3>1. dead' = dead /\ alive' = alive
      BY <2>1 DEF MonTest
    <3>2. CASE quitting
      BY <2>0, <2>1, <3>1, <3>2 DEF MonTest, PoolInv, AliveNotUnderstated
    <3>3. CASE ~quitting
      <4>1. mon' = "probe" /\ slot' = 1 /\ ndead' = 0
        BY <2>1, <3>3 DEF MonTest
      <4>2. 1 \in Slots
        BY PoolAssumption DEF Slots
      <4>3. 0 <= Cardinality(DeadBelow(dead, 1))
        BY <2>0, Counts
      <4> QED
        BY <2>0, <3>1, <4>1, <4>2, <4>3 DEF PoolInv, AliveNotUnderstated
    <3> QED
      BY <3>2, <3>3
  <2>2. CASE Skip
    <3>1. mon = "probe" /\ Count(dead[slot]) /\ dead' = dead
      BY <2>2 DEF Skip
    <3> QED
      BY <2>0, <3>1, CountKeeps
  <2>3. CASE Poll
    BY <2>0, <2>3 DEF Poll, PoolInv, AliveNotUnderstated
  <2>4. CASE Ping
    <3> DEFINE f == [dead EXCEPT ![slot] = server[slot] # "up"]
    <3>1. mon = "ping" /\ slot \in Slots /\ dead' = f /\ Count(server[slot] # "up")
      BY <2>0, <2>4 DEF Ping
    <3>2. f \in [Slots -> BOOLEAN] /\ f[slot] = (server[slot] # "up")
      BY <2>0, <3>1
    <3>3. DeadBelow(f, slot) = DeadBelow(dead, slot)
      BY <2>0, <3>1, PoolAssumption DEF DeadBelow, Slots
    <3> HIDE DEF f
    <3> QED
      BY <2>0, <3>1, <3>2, <3>3, CountKeeps
  <2>5. ASSUME NEW r \in Requests, Mark(r) PROVE PoolInv'
    <3>1. /\ dead' = [dead EXCEPT ![cpe[r]] = TRUE]
          /\ mon' = mon /\ slot' = slot /\ ndead' = ndead /\ alive' = alive
      BY <2>5 DEF Mark, monitor
    <3>2. dead' \in [Slots -> BOOLEAN] /\ \A e \in Slots : dead[e] => dead'[e]
      BY <2>0, <3>1
    <3>3. /\ Cardinality(DeadBelow(dead, slot)) <= Cardinality(DeadBelow(dead', slot))
          /\ Cardinality(Usable(dead')) <= Cardinality(Usable(dead))
      BY <2>0, <3>2, Killing
    <3>4. /\ Cardinality(DeadBelow(dead, slot)) \in Nat /\ Cardinality(DeadBelow(dead', slot)) \in Nat
          /\ Cardinality(Usable(dead)) \in Nat /\ Cardinality(Usable(dead')) \in Nat
      BY <2>0, <3>2, Counts
    <3>5. mon \in {"test", "wait"} => Cardinality(Usable(dead')) <= alive
      BY <2>0, <3>3, <3>4 DEF AliveNotUnderstated, Usable
    <3>6. AliveNotUnderstated'
      BY <3>1, <3>5 DEF AliveNotUnderstated, Usable
    <3> QED
      BY <2>0, <3>1, <3>2, <3>3, <3>4, <3>6 DEF PoolInv
  <2>6. CASE UNCHANGED <<dead, alive, slot, ndead>> /\ (mon' = mon \/ (mon = "wait" /\ mon' = "test"))
    BY <2>0, <2>6 DEF PoolInv, AliveNotUnderstated
  <2>7. ASSUME NEW r \in Requests, Begin(r) \/ NoneAlive(r) \/ Look(r) \/ Connect(r) \/ GiveUp(r) \/ Leave(r)
        PROVE  PoolInv'
    BY <2>6, <2>7 DEF Begin, NoneAlive, Look, Connect, GiveUp, Leave, Signal, monitor, request
  <2>8. CASE Minute \/ Quit \/ Join
    BY <2>6, <2>8 DEF Minute, Quit, Join, Signal, monitor
  <2>9. ASSUME NEW e \in Slots, ServerChanges(e) PROVE PoolInv'
    BY <2>6, <2>9 DEF ServerChanges, monitor
  <2>10. CASE UNCHANGED vars
    BY <2>6, <2>10 DEF vars
  <2> QED
    BY <2>1, <2>2, <2>3, <2>4, <2>5, <2>7, <2>8, <2>9, <2>10 DEF Next, Monitor, Step
<1> QED
  BY <1>1, <1>2, PTL DEF Spec

(* Between probes cp->alive is at least the number of servers not marked    *)
(* dead (connpool.c:167), whatever the milter threads do meanwhile.         *)
THEOREM AliveCountSound == Spec => []AliveNotUnderstated
<1>1. PoolInv => AliveNotUnderstated
  BY DEF PoolInv
<1> QED
  BY <1>1, PoolInductive, PTL
=============================================================================
