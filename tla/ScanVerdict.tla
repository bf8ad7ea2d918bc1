----------------------------- MODULE ScanVerdict -----------------------------
(* The answer of a scan without a cache and without limits on files and     *)
(* sizes, as the reference for ScanFile, and a record of where a scan of    *)
(* ScanFile saw less than that and did not say so.                          *)
EXTENDS ScanFile

Nothing == [virus |-> FALSE, unwanted |-> FALSE]

(* What a scan of f at recursion level r finds.  The last level does not    *)
(* ask cli_checkfp about the raw content, the reference does.               *)
RECURSIVE Finds(_, _), FindsFrom(_, _, _)
Finds(f, r) ==
  IF r > MaxRec \/ Tiny(f) THEN Nothing
  ELSE IF r = MaxRec
       THEN [virus |-> f \in Signature \ FalsePositive, unwanted |-> FALSE]
       ELSE FindsFrom(f, r, 1)

(* The same for the members of f from the i-th on, and f itself.            *)
FindsFrom(f, r, i) ==
  IF i > Len(Contains[f]) \/ (f \in Signature /\ Contains[f][i] \in Embedded \cup Late)
  THEN [virus |-> f \in Signature \ FalsePositive, unwanted |-> f \in Heuristic \ Signature]
  ELSE LET m == Finds(Contains[f][i], r + Deeper(Contains[f][i]))
           others == FindsFrom(f, r, i + 1)
       IN  IF m.virus
           THEN [virus |-> f \notin FalsePositive, unwanted |-> m.unwanted]
           ELSE [virus |-> others.virus, unwanted |-> m.unwanted \/ others.unwanted]

Clean == [f \in Files, r \in 0..MaxRec |-> Finds(f, r) = Nothing]

CleanAt(f, r) == IF config.raw THEN Tiny(f) \/ f \notin Signature ELSE Clean[f, r]
-----------------------------------------------------------------------------
(* What a clean answer rests on.  "limited": an entry of the cache that is  *)
(* good from some level on only; the scan it stands for had marked the open *)
(* maps, and its reuse does not (scanners.c:2161).  "doubtful": a member    *)
(* left out for a limit on files or sizes; a match in a member that         *)
(* cli_checkfp took back, so that the members after it were not looked at;  *)
(* or a doubtful entry of the cache.                                        *)
VARIABLES basis,   \* basis[t]: the above, for the scan and for each open file
          doubt    \* the cached files whose entry is doubtful

(* The files that stay open, and the scan, rest on "what", too.             *)
RestsOn(t, b, what) == basis' = [basis EXCEPT ![t] = [i \in DOMAIN b |-> b[i] \cup what]]

OnHit(t) == (IF table[call[t]] > 0 THEN {"limited"} ELSE {})
              \cup (IF call[t] \in doubt THEN {"doubtful"} ELSE {})

(* Entries that the step adds or lowers are doubtful or not; others stay.   *)
Stored(doubtful) ==
  doubt' = {f \in DOMAIN table' : IF f \in DOMAIN table /\ table'[f] = table[f]
                                  THEN f \in doubt
                                  ELSE doubtful}

(* A file that rests on a limited entry may only be stored for its level.   *)
Doubtful(t) ==
  LET f == Current(t).file
  IN  \/ "doubtful" \in Last(basis[t])
      \/ /\ "limited" \in Last(basis[t])
         /\ f \in DOMAIN table' /\ table'[f] < Current(t).rec + leak[t]

HInit ==
  /\ Init
  /\ basis = [t \in Threads |-> <<{}>>]
  /\ doubt = {}

HStep(t) ==
  \/ \E f \in Files : ScanDesc(t, f) /\ RestsOn(t, <<{}>>, {}) /\ UNCHANGED doubt
  \/ CacheHit(t) /\ RestsOn(t, basis[t], OnHit(t)) /\ UNCHANGED doubt
  \/ Skip(t) /\ RestsOn(t, basis[t], IF Recursion(t) > MaxRec THEN {} ELSE {"doubtful"})
             /\ UNCHANGED doubt
  \/ LeaveOut(t) /\ RestsOn(t, basis[t], {"doubtful"}) /\ UNCHANGED doubt
  \/ RawOnly(t) /\ Stored(FALSE) /\ UNCHANGED basis
  \/ Open(t) /\ RestsOn(t, Append(basis[t], {}), {}) /\ UNCHANGED doubt
  \/ MemberFound(t) /\ Stored(TRUE)
       /\ RestsOn(t, Front(basis[t]), IF Current(t).file \in FalsePositive THEN {"doubtful"} ELSE {})
  \/ Match(t) /\ RestsOn(t, Front(basis[t]), {}) /\ UNCHANGED doubt
  \/ Finish(t) /\ Stored(Doubtful(t)) /\ RestsOn(t, Front(basis[t]), {})
  \/ (ReturnTiny(t) \/ Unpack(t) \/ Normalise(t) \/ ScanDone(t)) /\ UNCHANGED <<basis, doubt>>

HNext ==
  /\ \E t \in Threads : HStep(t)
  /\ UNCHANGED config

HSpec == HInit /\ [][HNext]_<<vars, basis, doubt>>
-----------------------------------------------------------------------------
(* An entry of the cache is good wherever it will be used: a scan of that   *)
(* file at the entry's level, or any deeper one, finds nothing, although    *)
(* the entry may come from another thread, another container and another    *)
(* depth, and marks are set for all open maps, read from the map below, and *)
(* cleared by cli_scandesc.  Doubtful entries are excepted: for them the    *)
(* code does not keep this (AllEntriesGood).                                *)
CacheTransparent ==
  \A f \in DOMAIN table \ doubt : \A r \in table[f]..MaxRec : CleanAt(f, r)

(* Whatever is cached and evicted by whom, a scan that calls a file clean   *)
(* has missed nothing that a scan without a cache reports, unless this scan *)
(* or the one that made an entry it relied on left a member out, took a     *)
(* match back, or stored a file that rests on a limited entry for all       *)
(* levels.                                                                  *)
NothingMissed ==
  \A t \in Threads :
    verdict[t] = "clean" /\ "doubtful" \notin basis[t][1] => CleanAt(top[t], 0)

(* The same of every entry.  The code does not keep it: a hit passes no     *)
(* mark on, and a file left incomplete for a limit is stored all the same.  *)
AllEntriesGood ==
  \A f \in DOMAIN table : \A r \in table[f]..MaxRec : CleanAt(f, r)
=============================================================================
