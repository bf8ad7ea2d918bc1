------------------------------ MODULE ScanFile ------------------------------
(***************************************************************************)
(* cli_magic_scandesc of libclamav/scanners.c: the recursive scan of a     *)
(* file and its members by several threads that share the clean-file       *)
(* cache.  A file is its content, so it is its own hash.  The unpackers    *)
(* are abstracted to the sequence of members they hand to the next call:   *)
(* those of the first switch, then, after the raw content was matched, the *)
(* Embedded ones that cli_scanraw finds and the Late ones of the last      *)
(* switch.  maps is the array ctx->fmap, of which only the dont_cache_flag *)
(* of each map is kept.                                                    *)
(***************************************************************************)
EXTENDS Integers, Sequences, FiniteSets

CONSTANTS Threads, Files,
          Contains,       \* file -> sequence of its members
          Size,           \* file -> number of bytes
          Embedded,       \* executables found inside other files
          Late,           \* what cli_scanpe and cli_scanscript unpack
          Normalised,     \* files whose unpacker calls cli_scandesc
          Signature,      \* files whose raw content matches a signature
          FalsePositive,  \* files listed as false positives
          Heuristic,      \* files for which a check reports "possibly unwanted"
          MaxRec,         \* engine->maxreclevel, never 0 (cl_engine_set_num)
          Configs,        \* settings considered, see Config
          NODES,          \* capacity of the cache
          NoFile

(* engine->maxfiles, maxscansize and maxfilesize, 0 for no limit; whether   *)
(* cl_scandesc is called without any option (raw mode); and the files that  *)
(* it is called for.                                                        *)
Config == [maxfiles : Nat, maxscansize : Nat, maxfilesize : Nat, raw : BOOLEAN,
           submitted : SUBSET Files]

ASSUME ScanAssumption ==
  /\ Contains \in [Files -> Seq(Files)]
  /\ Size \in [Files -> Nat]
  /\ Embedded \cap Late = {}
  /\ MaxRec \in Nat \ {0}
  /\ Configs \subseteq Config
  /\ NODES \in Nat
  /\ NoFile \notin Files

VARIABLES config,        \* fixed
          table,         \* the cache, see VerdictCache
          call,          \* call[t]: file that t is about to scan, or NoFile
          ret,           \* ret[t]: what the last call of t returned
          stack,         \* stack[t]: open files, with next member and level of each
          leak,          \* leak[t]: levels that were entered and never left
          maps,          \* maps[t]: dont_cache_flag of each open map
          scannedfiles, scansize, unwanted,
          top, verdict   \* the file given to cl_scandesc and its result

counters == <<scannedfiles, scansize>>
result == <<top, verdict>>
vars == <<config, table, call, ret, stack, leak, maps, counters, unwanted, result>>

Cache == INSTANCE VerdictCache WITH Keys <- Files, Levels <- Nat, answer <- <<>>

Returns == {"none", "clean", "virus"}

Init ==
  /\ config \in Configs
  /\ table = <<>>
  /\ call = [t \in Threads |-> NoFile]
  /\ ret = [t \in Threads |-> "none"]
  /\ stack = [t \in Threads |-> <<>>]
  /\ leak = [t \in Threads |-> 0]
  /\ maps = [t \in Threads |-> <<>>]
  /\ scansize = [t \in Threads |-> 0]
  /\ scannedfiles = [t \in Threads |-> 0]
  /\ unwanted = [t \in Threads |-> FALSE]
  /\ top = [t \in Threads |-> NoFile]
  /\ verdict = [t \in Threads |-> "none"]

Last(s) == s[Len(s)]
Front(s) == SubSeq(s, 1, Len(s) - 1)

(* How far below its container a member is scanned: cli_scanembpe adds a    *)
(* level to the one of cli_scanraw.                                         *)
Deeper(f) == IF f \in Embedded THEN 2 ELSE 1

(* ctx->recursion when t enters cli_magic_scandesc                          *)
Recursion(t) == leak[t] + IF stack[t] = <<>> THEN 0 ELSE Last(stack[t]).rec + Deeper(call[t])

(* emax_reached: every map that is open is marked. *)
EmaxReached(ms) == [i \in DOMAIN ms |-> TRUE]

Return(t, r) ==
  /\ call' = [call EXCEPT ![t] = NoFile]
  /\ ret' = [ret EXCEPT ![t] = r]

(* cl_scandesc with a fresh context *)
ScanDesc(t, f) ==
  /\ call[t] = NoFile /\ ret[t] = "none" /\ stack[t] = <<>>
  /\ f \in config.submitted
  /\ call' = [call EXCEPT ![t] = f]
  /\ leak' = [leak EXCEPT ![t] = 0]
  /\ maps' = [maps EXCEPT ![t] = <<>>]
  /\ scannedfiles' = [scannedfiles EXCEPT ![t] = 0]
  /\ scansize' = [scansize EXCEPT ![t] = 0]
  /\ unwanted' = [unwanted EXCEPT ![t] = FALSE]
  /\ top' = [top EXCEPT ![t] = f]
  /\ verdict' = [verdict EXCEPT ![t] = "none"]
  /\ UNCHANGED <<table, ret, stack>>

(* cli_checklimits *)
OverLimit(t, f) ==
  \/ config.maxscansize # 0 /\ config.maxscansize - scansize[t] < Size[f]
  \/ config.maxfilesize # 0 /\ config.maxfilesize < Size[f]
  \/ config.maxfiles # 0 /\ scannedfiles[t] >= config.maxfiles

(* Files of at most five bytes are clean, and not counted.                  *)
Tiny(f) == Size[f] <= 5

ReturnTiny(t) ==
  /\ call[t] # NoFile
  /\ Recursion(t) <= MaxRec /\ Tiny(call[t])
  /\ Return(t, "clean")
  /\ UNCHANGED <<table, stack, leak, maps, counters, unwanted, result>>

(* Too deep, or a limit is reached: not scanned, reported clean.            *)
Skip(t) ==
  /\ call[t] # NoFile
  /\ Recursion(t) > MaxRec \/ (~Tiny(call[t]) /\ OverLimit(t, call[t]))
  /\ maps' = [maps EXCEPT ![t] = EmaxReached(@)]
  /\ Return(t, "clean")
  /\ UNCHANGED <<table, stack, leak, counters, unwanted, result>>

(* The file passes the limits and is counted.  Beyond its limit a counter   *)
(* need not be followed (for scansize the code does so itself).             *)
Upto(n, limit) == IF n > limit THEN limit ELSE n

Admit(t) ==
  /\ call[t] # NoFile
  /\ Recursion(t) <= MaxRec /\ ~Tiny(call[t]) /\ ~OverLimit(t, call[t])
  /\ scannedfiles' = [scannedfiles EXCEPT ![t] = Upto(@ + 1, config.maxfiles)]
  /\ scansize' = [scansize EXCEPT ![t] = Upto(@ + Size[call[t]], config.maxscansize)]
  /\ UNCHANGED <<leak, unwanted, result>>

(* cache_check: the file's own map is opened and closed again.              *)
CacheHit(t) ==
  /\ Admit(t)
  /\ Cache!Known(table, call[t], Recursion(t))
  /\ Return(t, "clean")
  /\ UNCHANGED <<table, stack, maps>>

(* cache_add: the level from which on the file is known to be clean is 0 or *)
(* the current one, as the flag of the map that ctx->fmap points to says.   *)
LevelOf(flag, r) == IF flag THEN r ELSE 0

(* Mutant: the level is forgotten. *)
CacheAddLevelZero(flag, r, susp, f) ==
  IF susp /\ r = 0 THEN {table} ELSE Cache!Adding(table, f, 0)

(* Mutant: a suspected file is cached like any other. *)
CacheAddUnwanted(flag, r, susp, f) == Cache!Adding(table, f, LevelOf(flag, r))

CacheAdd(flag, r, susp, f) ==
  IF susp /\ (LevelOf(flag, r) # 0 \/ r = 0) THEN {table} ELSE Cache!Adding(table, f, LevelOf(flag, r))

(* The last level of recursion, or raw mode: only the raw content.  In raw  *)
(* mode a clean file is cached, while its own map is still open.            *)
RawOnly(t) ==
  /\ Admit(t)
  /\ ~Cache!Known(table, call[t], Recursion(t))
  /\ Recursion(t) = MaxRec \/ config.raw
  /\ \/ /\ call[t] \in Signature
        /\ Return(t, "virus")
        /\ UNCHANGED <<table, maps>>
     \/ /\ call[t] \notin Signature /\ Recursion(t) = MaxRec
        /\ Return(t, "clean")
        /\ maps' = [maps EXCEPT ![t] = EmaxReached(@)]
        /\ UNCHANGED table
     \/ /\ call[t] \notin Signature /\ Recursion(t) # MaxRec
        /\ Return(t, "clean")
        /\ table' \in CacheAdd(FALSE, Recursion(t), unwanted[t], call[t])
        /\ UNCHANGED maps
  /\ UNCHANGED stack

Entered(f, r) == [file |-> f, next |-> 1, rec |-> r]

(* Mutant: the last level is unpacked too. *)
OpenLastLevel(t) ==
  /\ Admit(t)
  /\ ~Cache!Known(table, call[t], Recursion(t))
  /\ Recursion(t) <= MaxRec /\ ~config.raw
  /\ stack' = [stack EXCEPT ![t] = Append(@, Entered(call[t], Recursion(t) - leak[t]))]
  /\ maps' = [maps EXCEPT ![t] = Append(@, FALSE)]
  /\ call' = [call EXCEPT ![t] = NoFile]
  /\ UNCHANGED <<table, ret>>

Open(t) ==
  /\ Admit(t)
  /\ ~Cache!Known(table, call[t], Recursion(t))
  /\ Recursion(t) < MaxRec /\ ~config.raw
  /\ stack' = [stack EXCEPT ![t] = Append(@, Entered(call[t], Recursion(t) - leak[t]))]
  /\ maps' = [maps EXCEPT ![t] = Append(@, FALSE)]
  /\ call' = [call EXCEPT ![t] = NoFile]
  /\ UNCHANGED <<table, ret>>

Inside(t) == call[t] = NoFile /\ stack[t] # <<>>

Current(t) == Last(stack[t])
Members(t) == Contains[Current(t).file]
AtEnd(t) == Current(t).next > Len(Members(t))

(* The raw content of the open file matches a signature, and it is its turn *)
(* to be looked at: the members of the first switch are done.               *)
Matches(t) ==
  /\ Current(t).file \in Signature
  /\ ~AtEnd(t) => Members(t)[Current(t).next] \in Embedded \cup Late

(* The next member is unpacked, to be scanned one or two levels deeper.     *)
Unpack(t) ==
  /\ Inside(t) /\ ret[t] # "virus"
  /\ ~AtEnd(t) /\ ~Matches(t)
  /\ call' = [call EXCEPT ![t] = Members(t)[Current(t).next]]
  /\ ret' = [ret EXCEPT ![t] = "none"]
  /\ stack' = [stack EXCEPT ![t][Len(stack[t])].next = @ + 1]
  /\ UNCHANGED <<table, leak, maps, counters, unwanted, result>>

(* An unpacker that asks cli_checklimits itself leaves the member out, and  *)
(* no map is marked: its CL_EMAXSIZE or CL_EMAXFILES is taken for clean.    *)
LeaveOut(t) ==
  /\ Inside(t) /\ ret[t] # "virus"
  /\ ~AtEnd(t) /\ ~Matches(t)
  /\ OverLimit(t, Members(t)[Current(t).next])
  /\ stack' = [stack EXCEPT ![t][Len(stack[t])].next = @ + 1]
  /\ UNCHANGED <<table, call, ret, leak, maps, counters, unwanted, result>>

(* cli_scandesc scans a normalised copy under a map of its own, and then    *)
(* overwrites the flag of the file's map with that map's.                   *)
Normalise(t) ==
  /\ Inside(t) /\ ret[t] # "virus"
  /\ Current(t).file \in Normalised /\ Last(maps[t])
  /\ maps' = [maps EXCEPT ![t][Len(maps[t])] = FALSE]
  /\ UNCHANGED <<table, call, ret, stack, leak, counters, unwanted, result>>

Checkfp(f) == IF f \in FalsePositive THEN "clean" ELSE "virus"

(* cache_add is called after ctx->fmap--, so the flag is that of the map    *)
(* below the file's own, which is NULL for the outermost file.              *)
FlagBelow(ms) == Len(ms) > 1 /\ ms[Len(ms) - 1]

(* A member matched, and cli_checkfp decides.  The file is cached only if   *)
(* the match came from the last switch and is a false positive.  For an     *)
(* embedded executable cli_scanembpe returns without ctx->recursion--.      *)
MemberFound(t) ==
  LET f == Current(t).file
      m == Members(t)[Current(t).next - 1]
  IN  /\ Inside(t) /\ ret[t] = "virus"
      /\ Return(t, Checkfp(f))
      /\ stack' = [stack EXCEPT ![t] = Front(@)]
      /\ maps' = [maps EXCEPT ![t] = Front(@)]
      /\ leak' = [leak EXCEPT ![t] = @ + IF m \in Embedded THEN 1 ELSE 0]
      /\ table' \in IF m \in Late /\ f \in FalsePositive
                    THEN CacheAdd(FlagBelow(maps[t]), Current(t).rec + leak[t], unwanted[t], f)
                    ELSE {table}
      /\ UNCHANGED <<counters, unwanted, result>>

(* The file's own content matched: it is left uncached.                     *)
Match(t) ==
  /\ Inside(t) /\ ret[t] # "virus" /\ Matches(t)
  /\ Return(t, Checkfp(Current(t).file))
  /\ stack' = [stack EXCEPT ![t] = Front(@)]
  /\ maps' = [maps EXCEPT ![t] = Front(@)]
  /\ UNCHANGED <<table, leak, counters, unwanted, result>>

(* Members and content are clean: the heuristics, and the file's return.    *)
Finish(t) ==
  LET f == Current(t).file
      susp == unwanted[t] \/ f \in Heuristic
      ms == IF f \in Heuristic THEN EmaxReached(maps[t]) ELSE maps[t]
  IN  /\ Inside(t) /\ ret[t] # "virus" /\ AtEnd(t) /\ ~Matches(t)
      /\ unwanted' = [unwanted EXCEPT ![t] = susp]
      /\ stack' = [stack EXCEPT ![t] = Front(@)]
      /\ maps' = [maps EXCEPT ![t] = Front(ms)]
      /\ Return(t, "clean")
      /\ table' \in CacheAdd(FlagBelow(ms), Current(t).rec + leak[t], susp, f)
      /\ UNCHANGED <<leak, counters, result>>

(* Back in cl_scandesc.                                                     *)
ScanDone(t) ==
  /\ call[t] = NoFile /\ stack[t] = <<>> /\ ret[t] # "none"
  /\ verdict' = [verdict EXCEPT ![t] = IF unwanted[t] THEN "virus" ELSE ret[t]]
  /\ ret' = [ret EXCEPT ![t] = "none"]
  /\ UNCHANGED <<table, call, stack, leak, maps, counters, unwanted, top>>

Step(t) ==
  \/ ReturnTiny(t) \/ Skip(t) \/ CacheHit(t) \/ RawOnly(t) \/ Open(t)
  \/ Unpack(t) \/ LeaveOut(t) \/ Normalise(t) \/ MemberFound(t) \/ Match(t) \/ Finish(t)
  \/ ScanDone(t)

Next ==
  /\ \E t \in Threads : Step(t) \/ \E f \in Files : ScanDesc(t, f)
  /\ UNCHANGED config

Spec == Init /\ [][Next]_vars
-----------------------------------------------------------------------------
Frame == [file : Files, next : Nat \ {0}, rec : 0..MaxRec]

(* cl_scandesc allocates maxreclevel + 2 slots for ctx->fmap, the first of  *)
(* which stays NULL.  Every return closes the map it opened, and with the   *)
(* one that cache_check and the raw scan open above those of the stack, no  *)
(* slot after the last is used.                                             *)
FmapInBounds ==
  \A t \in Threads : Len(maps[t]) = Len(stack[t]) /\ Len(stack[t]) <= MaxRec
=============================================================================
