------------------------------- MODULE KeyMap -------------------------------
(* What cli_hashtab (libclamav/hashtab.c) promises its callers: a map that   *)
(* holds one datum for a key, or none.                                       *)
CONSTANTS Keys, Data

VARIABLE map

Init == map = [k \in Keys |-> {}]

(* Another datum for one key, or none. *)
Change(old, new) == \E k \in Keys, v \in {{}} \cup {{d} : d \in Data} : new = [old EXCEPT ![k] = v]

Next == \E old \in {map}, new \in {map'} : Change(old, new)

Spec == Init /\ [][Next]_map
=============================================================================
