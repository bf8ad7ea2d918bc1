------------------------------ MODULE HashTab -------------------------------
(* cli_hashtab (libclamav/hashtab.c): keys with data in a table with open    *)
(* addressing, where a deleted element leaves a mark.  An insertion is one   *)
(* step per element it looks at, so that it can be asked whether it ends.    *)
(* The hash function is chosen at the start and arbitrary.  A key may hold   *)
(* bytes after a NUL: they count in its hash, but strncpy leaves them out of *)
(* the copy that is stored and strncmp does not look at them.                *)
EXTENDS Integers, FiniteSets, SequencesExt

CONSTANTS
  Keys, Data, Absent,
  Copy,           \* Copy[k]: what strncpy makes of k, another key of its length
  HashBound,      \* the hash of a key before it is cut to the table's size
  MinCapacity,    \* nearest_power starts at 64
  MaxCapacity,    \* bound: the table is not grown beyond
  Uses            \* ways to use a table: the faults and calls that occur in it

ASSUME TabAssumption ==
  /\ Absent \notin Data \cup Keys /\ HashBound \in Nat \ {0}
  /\ Copy \in [Keys -> Keys] /\ \A k \in Keys : Copy[Copy[k]] = Copy[k]
  /\ \E n \in 1..31 : MinCapacity = 2^n
  /\ \E n \in 1..31 : MaxCapacity = 2^n
  /\ MinCapacity <= MaxCapacity
  /\ \A u \in Uses : u \subseteq {"binary", "delete", "nomemory"}

VARIABLES
  hash,         \* [Keys -> Nat], fixed
  use,          \* fixed: whether the user has keys with bytes after a NUL or
                \* deletes keys (only the bytecode maps do either), and whether
                \* an allocation may fail
  s,            \* the table: capacity, used, htable
  pc,           \* "idle", or where cli_hashtab_insert is
  key, data,    \* its arguments
  idx, tries,   \* its locals; tries is exact up to MaxCapacity + 1
  deleted       \* deleted_element, -1 for NULL

call == <<key, data, idx, tries, deleted>>
vars == <<hash, use, s, pc, call>>

Free == [state |-> "free"]
DELETED_KEY == [state |-> "deleted"]
Element(k, d) == [state |-> "used", key |-> k, data |-> d]

(* Keys without bytes after a NUL, and the keys that occur in the table.     *)
Texts == {k \in Keys : Copy[k] = k}
Given == IF "binary" \in use THEN Keys ELSE Texts

(* strncmp over the length that both have.                                   *)
IsKey(e, k) == e.state = "used" /\ e.key = Copy[k]
Maxfill(capacity) == (8 * capacity) \div 10
AtMost(n, limit) == IF n <= limit THEN n ELSE limit
-----------------------------------------------------------------------------
(* cli_hashtab_init.                                                         *)
Empty(capacity) ==
  [capacity |-> capacity, used |-> 0, htable |-> [n \in 0..(capacity - 1) |-> Free]]

(* The n-th element that is looked at, counted from 0.                       *)
Probe(t, k, n) == (hash[k] + (n * (n + 1)) \div 2) % t.capacity

(* The probes for k that come to an element which Wanted holds of, after     *)
(* none that Passed does not hold of.                                        *)
Reached(t, k, Wanted(_), Passed(_)) ==
  {n \in 0..(t.capacity - 1) :
     /\ Wanted(t.htable[Probe(t, k, n)])
     /\ \A m \in 0..(n - 1) : Passed(t.htable[Probe(t, k, m)])}

(* Mutant: a mark ends the search. *)
FindToMark(t, k) ==
  {Probe(t, k, n) : n \in Reached(t, k, LAMBDA e : IsKey(e, k),
                                        LAMBDA e : e.state = "used" /\ ~IsKey(e, k))}

(* cli_hashtab_find: the place of k, if it is found.  Marks are passed over, *)
(* a free element ends the search.                                           *)
cli_hashtab_find(t, k) ==
  {Probe(t, k, n) : n \in Reached(t, k, LAMBDA e : IsKey(e, k),
                                        LAMBDA e : e # Free /\ ~IsKey(e, k))}

(* An element moves to the first free place of the new table, by the hash of *)
(* the copy it holds.                                                        *)
Rehash(t, e) ==
  LET first == CHOOSE n \in Reached(t, e.key, LAMBDA x : x = Free, LAMBDA x : x # Free) : TRUE
  IN [t EXCEPT !.htable[Probe(t, e.key, first)] = e, !.used = @ + 1]

(* cli_hashtab_grow, when the memory is there: marks are left behind.        *)
Grown(t) ==
  FoldLeft(Rehash, Empty(2 * t.capacity),
           SelectSeq([n \in 1..t.capacity |-> t.htable[n - 1]], LAMBDA e : e.state = "used"))

(* cli_hashtab_grow with either outcome.  The insertion does not look at the *)
(* result: CL_EMEM is not negative.                                          *)
Grow ==
  \/ "nomemory" \in use /\ s' = s
  \/ s.capacity < MaxCapacity /\ s' = Grown(s)
-----------------------------------------------------------------------------
Init ==
  /\ use \in Uses
  /\ hash \in [Keys -> 0..(HashBound - 1)] /\ \A k \in Keys \ Given : hash[k] = 0
  /\ s = Empty(MinCapacity) /\ pc = "idle"
  /\ key = Absent /\ data = Absent
  /\ idx = 0 /\ tries = 1 /\ deleted = -1

(* cli_hashtab_insert up to its inner loop.                                  *)
Insert(k, d) ==
  /\ pc = "idle" /\ pc' = "look"
  /\ IF s.used > Maxfill(s.capacity) THEN Grow ELSE s' = s
  /\ key' = k /\ data' = d /\ tries' = 1 /\ deleted' = -1
  /\ idx' = hash[k] % s'.capacity
  /\ UNCHANGED <<hash, use>>

(* The locals are dead after the return.                                     *)
Return ==
  /\ pc' = "idle" /\ key' = Absent /\ data' = Absent
  /\ idx' = 0 /\ tries' = 1 /\ deleted' = -1
  /\ UNCHANGED <<hash, use>>

(* A free element: the key is not in the table.  A mark met on the way is    *)
(* used first.                                                               *)
Place ==
  /\ pc = "look" /\ s.htable[idx].state = "free"
  /\ LET n == IF deleted # -1 THEN deleted ELSE idx IN
     s' = [s EXCEPT !.htable[n] = Element(Copy[key], data), !.used = @ + 1]
  /\ Return

(* No memory for the copy of the key.                                        *)
PlaceFails ==
  /\ "nomemory" \in use /\ pc = "look" /\ s.htable[idx].state = "free"
  /\ UNCHANGED s /\ Return

(* A mark: it is remembered, and idx and tries stay as they are.             *)
MeetMark ==
  /\ pc = "look" /\ s.htable[idx] = DELETED_KEY
  /\ deleted' = idx
  /\ UNCHANGED <<hash, use, s, pc, key, data, idx, tries>>

Update ==
  /\ pc = "look" /\ IsKey(s.htable[idx], key)
  /\ s' = [s EXCEPT !.htable[idx].data = data]
  /\ Return

(* Mutant: another key's element is treated like a mark. *)
StepStuck ==
  /\ pc = "look" /\ s.htable[idx].state = "used" /\ ~IsKey(s.htable[idx], key)
  /\ deleted' = idx
  /\ UNCHANGED <<hash, use, s, pc, key, data, idx, tries>>

(* Another key's element: the next one, or out of the inner loop.            *)
Step ==
  /\ pc = "look" /\ s.htable[idx].state = "used" /\ ~IsKey(s.htable[idx], key)
  /\ idx' = (idx + tries) % s.capacity /\ tries' = AtMost(tries + 1, MaxCapacity + 1)
  /\ pc' = IF tries + 1 <= s.capacity THEN "look" ELSE "full"
  /\ UNCHANGED <<hash, use, s, key, data, deleted>>

(* The condition of the outer loop, and its next round: tries is kept.       *)
Full ==
  /\ pc = "full" /\ pc' = "look"
  /\ Grow /\ idx' = hash[key] % s'.capacity
  /\ UNCHANGED <<hash, use, key, data, tries, deleted>>

(* Mutant: no mark is left. *)
DeleteFree(k) ==
  /\ "delete" \in use /\ pc = "idle"
  /\ \E n \in cli_hashtab_find(s, k) : s' = [s EXCEPT !.htable[n] = Free]
  /\ UNCHANGED <<hash, use, pc, call>>

(* cli_hashtab_delete: used still counts the element.                        *)
Delete(k) ==
  /\ "delete" \in use /\ pc = "idle"
  /\ \E n \in cli_hashtab_find(s, k) : s' = [s EXCEPT !.htable[n] = DELETED_KEY]
  /\ UNCHANGED <<hash, use, pc, call>>

Running == Place \/ PlaceFails \/ MeetMark \/ Update \/ Step \/ Full

Next == Running \/ \E k \in Given : Delete(k) \/ \E d \in Data : Insert(k, d)

Spec == Init /\ [][Next]_vars

(* A call goes on while it has something to do.                              *)
FairSpec == Spec /\ WF_vars(Running)
-----------------------------------------------------------------------------
(* The data that cli_hashtab_find gives for a key, if any.                   *)
Found(k) == {s.htable[n].data : n \in cli_hashtab_find(s, k)}

(* What a user finds; nothing is claimed of tables whose allocations fail or *)
(* whose keys have bytes after a NUL.                                        *)
Answers == [k \in Texts |-> IF use \cap {"binary", "nomemory"} # {} THEN {} ELSE Found(k)]

(* While there is memory cli_hashtab_insert, _delete and _find together are  *)
(* a map for text keys: an insertion changes what is found for its key alone *)
(* and growing changes nothing.  Of keys with bytes after a NUL (README,     *)
(* disagreements) growing may lose one and an insertion may change two.      *)
Abstract == INSTANCE KeyMap WITH map <- Answers, Keys <- Texts
IsMap == Abstract!Spec

(* A key that is found is found after the step, or an element with its text  *)
(* was deleted.                                                              *)
Stays(k) ==
  cli_hashtab_find(s, k) # {} =>
    \/ cli_hashtab_find(s', k) # {}
    \/ \E n \in DOMAIN s.htable : IsKey(s.htable[n], k) /\ s'.htable[n] = DELETED_KEY

(* Whatever allocations fail, and whatever keys with bytes after a NUL are   *)
(* in the table, a text key that is found stays found until it is deleted.   *)
KeysStay == [][\A k \in Texts : Stays(k)]_s

(* The same for all keys (bytecode_api.h:537: a key is any bytes).  In the   *)
(* code growing moves an element by the hash of its copy (hashtab.c:261).    *)
BinaryKeysStay == [][\A k \in Given : Stays(k)]_s

(* A text key that is in the table is found (bytecode_api.h:537, map_addkey  *)
(* tells whether the key existed before).  In the code an insertion that     *)
(* grows in its outer loop keeps tries and may store a key off its probes.   *)
StoredIsFound ==
  \A n \in DOMAIN s.htable :
    s.htable[n].state = "used" /\ "binary" \notin use => Found(s.htable[n].key) # {}

(* cli_hashtab_insert returns, in a table from which nothing is deleted and  *)
(* with memory.  With a deleted element among the probes, or when a full     *)
(* table cannot grow, it may not (hashtab.c:331 and 346).                    *)
InsertEnds == pc # "idle" /\ use = {} ~> pc = "idle"
=============================================================================
