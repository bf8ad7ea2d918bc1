---------------------------- MODULE VerdictCache ----------------------------
(***************************************************************************)
(* What the clean-file cache of libclamav promises to a scanner: a bounded *)
(* table of hashes that scanned clean, each with the recursion level from  *)
(* which the answer may be reused.  An entry may be dropped to make room,  *)
(* and an addition may be refused; an entry is never made up, and its      *)
(* level is always that of an addition.                                    *)
(***************************************************************************)
EXTENDS Integers, FiniteSets

CONSTANTS Keys,      \* hashes (digest and size)
          Levels,    \* recursion levels
          NODES      \* capacity of the table

VARIABLES table,     \* hash -> least level at which it was added
          answer     \* <<k, level>> after a look-up that found k clean at that level

cacheVars == <<table, answer>>

Init ==
  /\ table = <<>>
  /\ answer = <<>>

Known(tbl, k, level) == k \in DOMAIN tbl /\ level >= tbl[k]

Lookup(k, level) ==
  /\ answer' = IF Known(table, k, level) THEN <<k, level>> ELSE <<>>
  /\ UNCHANGED table

(* The tables an addition may lead to.  A hash already there keeps the      *)
(* smaller level; a new one may push out one other entry, or be refused.    *)
Adding(tbl, k, level) ==
  IF k \in DOMAIN tbl
  THEN {[tbl EXCEPT ![k] = IF level < @ THEN level ELSE @]}
  ELSE {tbl} \cup
       {[x \in (DOMAIN tbl \ gone) \cup {k} |-> IF x = k THEN level ELSE tbl[x]] :
          gone \in {g \in {{}} \cup {{x} : x \in DOMAIN tbl} : Cardinality(DOMAIN tbl \ g) < NODES}}

Add(k, level) ==
  /\ answer' = <<>>
  /\ table' \in Adding(table, k, level)

Next == \E k \in Keys, level \in Levels : Lookup(k, level) \/ Add(k, level)

Spec == Init /\ [][Next]_cacheVars
=============================================================================
