----------------------------- MODULE ScanProofs -----------------------------
(* The array of maps of a scan is never overrun, for any nesting of files,  *)
(* any recursion limit and any number of threads.                           *)
EXTENDS ScanFile, TLAPS

(* A stack of open files s with its maps ms: the i-th file is at recursion  *)
(* level i - 1 or deeper (a member may skip a level), and only files above  *)
(* the last level are open.                                                 *)
Good(s, ms) ==
  /\ s \in Seq(Frame)
  /\ ms \in Seq(BOOLEAN)
  /\ Len(ms) = Len(s)
  /\ \A i \in 1..Len(s) : i <= s[i].rec + 1 /\ s[i].rec < MaxRec

ScanInv ==
  /\ leak \in [Threads -> Nat]
  /\ call \in [Threads -> Files \cup {NoFile}]
  /\ stack \in [Threads -> Seq(Frame)]
  /\ maps \in [Threads -> Seq(BOOLEAN)]
  /\ \A t \in Threads : Good(stack[t], maps[t])

(* The level of the topmost file bounds the height of the stack.            *)
LEMMA TopLevel ==
  ASSUME ScanAssumption, NEW s, NEW ms, Good(s, ms), s # <<>>
  PROVE  /\ Len(s) \in Nat \ {0}
         /\ Last(s) \in Frame
         /\ Last(s).rec \in Nat
         /\ Len(s) <= Last(s).rec + 1
         /\ Last(s).rec < MaxRec
<1>1. s \in Seq(Frame)
  BY DEF Good
<1>2. Len(s) \in Nat \ {0}
  BY <1>1
<1>3. Len(s) \in 1..Len(s)
  BY <1>2
<1>4. Last(s) \in Frame
  BY <1>1, <1>3 DEF Last
<1>5. Last(s).rec \in 0..MaxRec
  BY <1>4 DEF Frame
<1>6. Len(s) <= Last(s).rec + 1 /\ Last(s).rec < MaxRec
  BY <1>3 DEF Good, Last
<1> QED BY <1>2, <1>4, <1>5, <1>6 DEF ScanAssumption

(* The invariant implies the bound.                                         *)
LEMMA GoodBound == ASSUME ScanAssumption, ScanInv PROVE FmapInBounds
<1> SUFFICES ASSUME NEW t \in Threads
             PROVE  Len(maps[t]) = Len(stack[t]) /\ Len(stack[t]) <= MaxRec
  BY DEF FmapInBounds
<1>1. Good(stack[t], maps[t])
  BY DEF ScanInv
<1>2. Len(maps[t]) = Len(stack[t])
  BY <1>1 DEF Good
<1>3. CASE stack[t] = <<>>
  <2>1. Len(stack[t]) = 0
    BY <1>3
  <2> QED BY <1>2, <2>1 DEF ScanAssumption
<1>4. CASE stack[t] # <<>>
  <2>1. /\ Len(stack[t]) \in Nat /\ Last(stack[t]).rec \in Nat
        /\ Len(stack[t]) <= Last(stack[t]).rec + 1 /\ Last(stack[t]).rec < MaxRec
    BY <1>1, <1>4, TopLevel
  <2> QED BY <1>2, <2>1 DEF ScanAssumption
<1> QED BY <1>3, <1>4

(* A file may be opened at a level that is at least the height of the stack.*)
LEMMA PushGood ==
  ASSUME ScanAssumption, NEW s, NEW ms, Good(s, ms),
         NEW f \in Files, NEW r \in Nat, r < MaxRec, Len(s) <= r
  PROVE  Good(Append(s, Entered(f, r)), Append(ms, FALSE))
<1> DEFINE e == Entered(f, r)
           u == Append(s, e)
           ums == Append(ms, FALSE)
<1>1. s \in Seq(Frame) /\ ms \in Seq(BOOLEAN) /\ Len(ms) = Len(s)
  BY DEF Good
<1>2. e \in Frame
  BY DEF Frame, Entered, ScanAssumption
<1>3. u \in Seq(Frame) /\ ums \in Seq(BOOLEAN)
  BY <1>1, <1>2
<1>4. Len(u) = Len(s) + 1 /\ Len(ums) = Len(ms) + 1
  BY <1>1, <1>2
<1>5. ASSUME NEW i \in 1..Len(u)
      PROVE  i <= u[i].rec + 1 /\ u[i].rec < MaxRec
  <2>1. CASE i \in 1..Len(s)
    <3>1. u[i] = s[i]
      BY <1>1, <1>2, <2>1
    <3> QED BY <3>1, <2>1 DEF Good
  <2>2. CASE i = Len(s) + 1
    <3>1. u[i] = e
      BY <1>1, <1>2, <2>2
    <3>2. u[i].rec = r
      BY <3>1 DEF Entered
    <3>3. Len(s) \in Nat
      BY <1>1
    <3> QED BY <3>2, <3>3, <2>2
  <2>3. Len(s) \in Nat
    BY <1>1
  <2> QED BY <2>1, <2>2, <2>3, <1>4
<1> QED BY <1>1, <1>3, <1>4, <1>5 DEF Good

(* The topmost file may be closed, whatever happened to the flags.          *)
LEMMA PopGood ==
  ASSUME NEW s, NEW ms, Good(s, ms), s # <<>>,
         NEW m2 \in Seq(BOOLEAN), Len(m2) = Len(ms)
  PROVE  Good(Front(s), Front(m2))
<1>1. s \in Seq(Frame) /\ Len(ms) = Len(s)
  BY DEF Good
<1>2. Len(s) \in Nat \ {0}
  BY <1>1
<1>3. Len(m2) = Len(s)
  BY <1>1
<1>4. /\ Front(s) \in Seq(Frame) /\ Len(Front(s)) = Len(s) - 1
      /\ \A i \in 1..(Len(s) - 1) : Front(s)[i] = s[i]
  BY <1>1, <1>2 DEF Front
<1>5. Front(m2) \in Seq(BOOLEAN) /\ Len(Front(m2)) = Len(m2) - 1
  BY <1>2, <1>3 DEF Front
<1>6. \A i \in 1..Len(Front(s)) : i \in 1..Len(s) /\ Front(s)[i] = s[i]
  BY <1>2, <1>4
<1> QED BY <1>3, <1>4, <1>5, <1>6 DEF Good

(* A function on 1..n is a sequence of length n.                            *)
LEMMA ArrayIsSeq ==
  ASSUME NEW S, NEW n \in Nat, NEW u \in [1..n -> S]
  PROVE  u \in Seq(S) /\ Len(u) = n
OBVIOUS

(* Advancing to the next member changes neither height nor levels.          *)
LEMMA AdvanceGood ==
  ASSUME NEW s, NEW ms, Good(s, ms), s # <<>>
  PROVE  Good([s EXCEPT ![Len(s)].next = @ + 1], ms)
<1> DEFINE u == [s EXCEPT ![Len(s)].next = @ + 1]
<1>1. s \in Seq(Frame)
  BY DEF Good
<1>2. Len(s) \in Nat \ {0} /\ DOMAIN s = 1..Len(s)
  BY <1>1
<1>3. \A i \in 1..Len(s) : s[i] \in Frame
  BY <1>1
<1>4. \A x \in Frame : [x EXCEPT !.next = x.next + 1] \in Frame
                       /\ [x EXCEPT !.next = x.next + 1].rec = x.rec
  BY DEF Frame
<1>6. \A i \in 1..Len(s) : u[i] = IF i = Len(s) THEN [s[i] EXCEPT !.next = s[i].next + 1] ELSE s[i]
  BY <1>2
<1>7. \A i \in 1..Len(s) : u[i] \in Frame /\ u[i].rec = s[i].rec
  BY <1>3, <1>4, <1>6
<1>8. u = [i \in 1..Len(s) |-> u[i]]
  BY <1>2
<1>9. u \in [1..Len(s) -> Frame]
  BY <1>7, <1>8
<1>10. u \in Seq(Frame) /\ Len(u) = Len(s)
  <2> HIDE DEF u
  <2> QED BY <1>2, <1>9, ArrayIsSeq
<1> QED BY <1>7, <1>10 DEF Good

(* Marking the open maps keeps their number.                                *)
LEMMA MarkGood ==
  ASSUME NEW ms \in Seq(BOOLEAN)
  PROVE  EmaxReached(ms) \in Seq(BOOLEAN) /\ Len(EmaxReached(ms)) = Len(ms)
<1>1. Len(ms) \in Nat /\ DOMAIN ms = 1..Len(ms)
  OBVIOUS
<1>2. EmaxReached(ms) \in [1..Len(ms) -> BOOLEAN]
  BY <1>1 DEF EmaxReached
<1>3. DOMAIN EmaxReached(ms) = 1..Len(ms)
  BY <1>1 DEF EmaxReached
<1> QED BY <1>1, <1>2, <1>3

(* Clearing the mark of the topmost map does, too.                          *)
LEMMA ClearGood ==
  ASSUME NEW ms \in Seq(BOOLEAN)
  PROVE  LET u == [ms EXCEPT ![Len(ms)] = FALSE] IN u \in Seq(BOOLEAN) /\ Len(u) = Len(ms)
<1> DEFINE u == [ms EXCEPT ![Len(ms)] = FALSE]
<1>1. Len(ms) \in Nat /\ ms \in [1..Len(ms) -> BOOLEAN]
  OBVIOUS
<1>2. u \in [1..Len(ms) -> BOOLEAN]
  BY <1>1
<1>3. u \in Seq(BOOLEAN) /\ Len(u) = Len(ms)
  <2> HIDE DEF u
  <2> QED BY <1>1, <1>2, ArrayIsSeq
<1> QED BY <1>3

(* A step of one thread that leaves its own stack good keeps the invariant. *)
LEMMA OneThread ==
  ASSUME ScanInv, NEW t \in Threads, NEW c \in Files \cup {NoFile}, NEW s, NEW ms,
         Good(s, ms),
         leak' \in [Threads -> Nat],
         call' = [call EXCEPT ![t] = c],
         stack' = [stack EXCEPT ![t] = s],
         maps' = [maps EXCEPT ![t] = ms]
  PROVE  ScanInv'
<1>1. s \in Seq(Frame) /\ ms \in Seq(BOOLEAN)
  BY DEF Good
<1>2. call' \in [Threads -> Files \cup {NoFile}]
  BY DEF ScanInv
<1>3. stack' \in [Threads -> Seq(Frame)]
  BY <1>1 DEF ScanInv
<1>4. maps' \in [Threads -> Seq(BOOLEAN)]
  BY <1>1 DEF ScanInv
<1>5. ASSUME NEW u \in Threads PROVE Good(stack'[u], maps'[u])
  <2>1. CASE u = t
    <3>1. stack'[u] = s /\ maps'[u] = ms
      BY <2>1 DEF ScanInv
    <3> QED BY <3>1
  <2>2. CASE u # t
    <3>1. stack'[u] = stack[u] /\ maps'[u] = maps[u]
      BY <2>2 DEF ScanInv
    <3> QED BY <3>1 DEF ScanInv
  <2> QED BY <2>1, <2>2
<1>6. \A u \in Threads : Good(stack[u], maps[u])'
  BY <1>5 DEF Good
<1> QED BY <1>2, <1>3, <1>4, <1>6 DEF ScanInv

(* Nothing is open initially.                                               *)
LEMMA InitScan == ASSUME Init PROVE ScanInv
<1>1. <<>> \in Seq(Frame) /\ <<>> \in Seq(BOOLEAN) /\ Len(<<>>) = 0
  OBVIOUS
<1>2. Good(<<>>, <<>>)
  BY <1>1 DEF Good
<1>3. /\ call = [t \in Threads |-> NoFile]
      /\ stack = [t \in Threads |-> <<>>]
      /\ maps = [t \in Threads |-> <<>>]
      /\ leak = [t \in Threads |-> 0]
  BY DEF Init
<1> QED BY <1>1, <1>2, <1>3 DEF ScanInv

(* What every action starts from.                                           *)
LEMMA Before ==
  ASSUME ScanAssumption, ScanInv, NEW t \in Threads
  PROVE  /\ Good(stack[t], maps[t])
         /\ stack = [stack EXCEPT ![t] = stack[t]]
         /\ maps = [maps EXCEPT ![t] = maps[t]]
         /\ call = [call EXCEPT ![t] = call[t]]
         /\ maps[t] \in Seq(BOOLEAN)
         /\ Len(maps[t]) = Len(stack[t])
         /\ Good(stack[t], EmaxReached(maps[t]))
<1>1. Good(stack[t], maps[t])
  BY DEF ScanInv
<1>2. maps[t] \in Seq(BOOLEAN) /\ Len(maps[t]) = Len(stack[t])
  BY <1>1 DEF Good
<1>3. Good(stack[t], EmaxReached(maps[t]))
  BY <1>1, <1>2, MarkGood DEF Good
<1>4. stack = [stack EXCEPT ![t] = stack[t]]
  BY DEF ScanInv
<1>5. maps = [maps EXCEPT ![t] = maps[t]]
  BY DEF ScanInv
<1>6. call = [call EXCEPT ![t] = call[t]]
  BY DEF ScanInv
<1> QED BY <1>1, <1>2, <1>3, <1>4, <1>5, <1>6

(* cl_scandesc starts with no map open.                                     *)
LEMMA ScanDescKeeps ==
  ASSUME ScanAssumption, ScanInv, NEW t \in Threads, NEW f \in Files, ScanDesc(t, f)
  PROVE  ScanInv'
<1>1. stack[t] = <<>>
  BY DEF ScanDesc
<1>2. Good(stack[t], maps[t]) /\ stack = [stack EXCEPT ![t] = stack[t]]
  BY Before
<1>3. Good(stack[t], <<>>)
  BY <1>1, <1>2 DEF Good
<1>4. /\ call' = [call EXCEPT ![t] = f]
      /\ stack' = [stack EXCEPT ![t] = stack[t]]
      /\ maps' = [maps EXCEPT ![t] = <<>>]
  BY <1>2 DEF ScanDesc
<1>5. leak' \in [Threads -> Nat]
  BY DEF ScanDesc, ScanInv
<1> QED BY <1>3, <1>4, <1>5, OneThread

(* Returns that open nothing.                                               *)
LEMMA ReturnKeeps ==
  ASSUME ScanAssumption, ScanInv, NEW t \in Threads,
         ReturnTiny(t) \/ Skip(t) \/ CacheHit(t) \/ RawOnly(t)
  PROVE  ScanInv'
<1>1. /\ Good(stack[t], maps[t]) /\ Good(stack[t], EmaxReached(maps[t]))
      /\ stack = [stack EXCEPT ![t] = stack[t]]
      /\ maps = [maps EXCEPT ![t] = maps[t]]
  BY Before
<1>2. call' = [call EXCEPT ![t] = NoFile]
  BY DEF ReturnTiny, Skip, CacheHit, RawOnly, Return
<1>3. stack' = [stack EXCEPT ![t] = stack[t]]
  BY <1>1 DEF ReturnTiny, Skip, CacheHit, RawOnly
<1>4. leak' \in [Threads -> Nat]
  BY DEF ReturnTiny, Skip, CacheHit, RawOnly, Admit, ScanInv
<1>5. CASE maps' = [maps EXCEPT ![t] = EmaxReached(maps[t])]
  BY <1>1, <1>2, <1>3, <1>4, <1>5, OneThread
<1>6. CASE maps' = maps
  <2>1. maps' = [maps EXCEPT ![t] = maps[t]]
    BY <1>1, <1>6
  <2> QED BY <1>1, <1>2, <1>3, <1>4, <2>1, OneThread
<1>7. maps' = [maps EXCEPT ![t] = EmaxReached(maps[t])] \/ maps' = maps
  BY DEF ReturnTiny, Skip, CacheHit, RawOnly
<1> QED BY <1>5, <1>6, <1>7

(* The level at which a file is entered is at least the stack's height,     *)
(* also without the levels that were entered and never left.                *)
LEMMA EntryLevel ==
  ASSUME ScanAssumption, ScanInv, NEW t \in Threads
  PROVE  /\ Recursion(t) \in Nat /\ leak[t] \in Nat
         /\ Recursion(t) - leak[t] \in Nat
         /\ Len(stack[t]) <= Recursion(t) - leak[t]
<1>1. Good(stack[t], maps[t])
  BY Before
<1>2. leak[t] \in Nat
  BY DEF ScanInv
<1>3. CASE stack[t] = <<>>
  <2>1. Len(stack[t]) = 0
    BY <1>3
  <2>2. Recursion(t) = leak[t] + 0
    BY <1>3 DEF Recursion
  <2> QED BY <1>2, <2>1, <2>2
<1>4. CASE stack[t] # <<>>
  <2>1. /\ Len(stack[t]) \in Nat /\ Last(stack[t]).rec \in Nat
        /\ Len(stack[t]) <= Last(stack[t]).rec + 1
    BY <1>1, <1>4, TopLevel
  <2>2. Recursion(t) = leak[t] + (Last(stack[t]).rec + Deeper(call[t]))
    BY <1>4 DEF Recursion
  <2>3. Deeper(call[t]) \in {1, 2}
    BY DEF Deeper
  <2> QED BY <1>2, <2>1, <2>2, <2>3
<1> QED BY <1>3, <1>4

(* Opening a file above the last level.                                     *)
LEMMA OpenKeeps ==
  ASSUME ScanAssumption, ScanInv, NEW t \in Threads, Open(t)
  PROVE  ScanInv'
<1> DEFINE r == Recursion(t) - leak[t]
<1>1. call[t] \in Files
  BY DEF Open, Admit, ScanInv
<1>2. r \in Nat /\ r < MaxRec /\ Len(stack[t]) <= r
  <2>1. Recursion(t) < MaxRec
    BY DEF Open
  <2> QED BY <2>1, EntryLevel DEF ScanAssumption
<1>3. Good(stack[t], maps[t])
  BY Before
<1>4. Good(Append(stack[t], Entered(call[t], r)), Append(maps[t], FALSE))
  <2> HIDE DEF r
  <2> QED BY <1>1, <1>2, <1>3, PushGood
<1>5. /\ call' = [call EXCEPT ![t] = NoFile]
      /\ stack' = [stack EXCEPT ![t] = Append(stack[t], Entered(call[t], r))]
      /\ maps' = [maps EXCEPT ![t] = Append(maps[t], FALSE)]
  BY DEF Open
<1>6. leak' \in [Threads -> Nat]
  BY DEF Open, Admit, ScanInv
<1> QED BY <1>4, <1>5, <1>6, OneThread

(* Unpacking or leaving out a member keeps the stack's height and levels.   *)
LEMMA UnpackKeeps ==
  ASSUME ScanAssumption, ScanInv, NEW t \in Threads, Unpack(t) \/ LeaveOut(t)
  PROVE  ScanInv'
<1>1. /\ Good(stack[t], maps[t]) /\ maps = [maps EXCEPT ![t] = maps[t]]
      /\ call = [call EXCEPT ![t] = call[t]] /\ stack[t] # <<>>
  BY Before DEF Unpack, LeaveOut, Inside
<1>2. Last(stack[t]) \in Frame
  BY <1>1, TopLevel
<1>3. Current(t).file \in Files /\ Current(t).next \in Nat \ {0}
  BY <1>2 DEF Current, Frame
<1>4. Members(t) \in Seq(Files)
  BY <1>3 DEF ScanAssumption, Members
<1>5. Current(t).next <= Len(Members(t))
  BY <1>3, <1>4 DEF Unpack, LeaveOut, AtEnd
<1>6. Members(t)[Current(t).next] \in Files
  BY <1>3, <1>4, <1>5
<1>7. Good([stack[t] EXCEPT ![Len(stack[t])].next = @ + 1], maps[t])
  BY <1>1, AdvanceGood
<1>8. stack' = [stack EXCEPT ![t] = [stack[t] EXCEPT ![Len(stack[t])].next = @ + 1]]
  BY DEF Unpack, LeaveOut
<1>9. maps' = [maps EXCEPT ![t] = maps[t]] /\ leak' \in [Threads -> Nat]
  BY <1>1 DEF Unpack, LeaveOut, ScanInv
<1>10. CASE Unpack(t)
  <2>1. call' = [call EXCEPT ![t] = Members(t)[Current(t).next]]
    BY <1>10 DEF Unpack
  <2> QED BY <1>6, <1>7, <1>8, <1>9, <2>1, OneThread
<1>11. CASE LeaveOut(t)
  <2>1. call' = [call EXCEPT ![t] = call[t]] /\ call[t] \in Files \cup {NoFile}
    BY <1>1, <1>11 DEF LeaveOut, ScanInv
  <2> QED BY <1>7, <1>8, <1>9, <2>1, OneThread
<1> QED BY <1>10, <1>11

(* cli_scandesc changes the mark of the topmost map only.                   *)
LEMMA NormaliseKeeps ==
  ASSUME ScanAssumption, ScanInv, NEW t \in Threads, Normalise(t)
  PROVE  ScanInv'
<1> DEFINE u == [maps[t] EXCEPT ![Len(maps[t])] = FALSE]
<1>1. /\ Good(stack[t], maps[t]) /\ maps[t] \in Seq(BOOLEAN)
      /\ stack = [stack EXCEPT ![t] = stack[t]]
      /\ call = [call EXCEPT ![t] = call[t]]
  BY Before
<1>2. u \in Seq(BOOLEAN) /\ Len(u) = Len(maps[t])
  BY <1>1, ClearGood
<1>3. Good(stack[t], u)
  <2> HIDE DEF u
  <2> QED BY <1>1, <1>2 DEF Good
<1>4. /\ call' = [call EXCEPT ![t] = call[t]] /\ call[t] \in Files \cup {NoFile}
      /\ stack' = [stack EXCEPT ![t] = stack[t]]
      /\ leak' \in [Threads -> Nat]
  BY <1>1 DEF Normalise, ScanInv
<1>5. maps' = [maps EXCEPT ![t] = u]
  BY DEF Normalise
<1> QED BY <1>3, <1>4, <1>5, OneThread

(* A match, in a member or in the file, and the end of a file close one map.*)
LEMMA CloseKeeps ==
  ASSUME ScanAssumption, ScanInv, NEW t \in Threads,
         MemberFound(t) \/ Match(t) \/ Finish(t)
  PROVE  ScanInv'
<1>1. /\ Good(stack[t], maps[t]) /\ stack[t] # <<>>
      /\ maps[t] \in Seq(BOOLEAN)
  BY Before DEF MemberFound, Match, Finish, Inside
<1>2. EmaxReached(maps[t]) \in Seq(BOOLEAN) /\ Len(EmaxReached(maps[t])) = Len(maps[t])
  BY <1>1, MarkGood
<1>3. Good(Front(stack[t]), Front(maps[t]))
  BY <1>1, PopGood
<1>4. Good(Front(stack[t]), Front(EmaxReached(maps[t])))
  BY <1>1, <1>2, PopGood
<1>5. call' = [call EXCEPT ![t] = NoFile]
  BY DEF MemberFound, Match, Finish, Return
<1>6. stack' = [stack EXCEPT ![t] = Front(stack[t])]
  BY DEF MemberFound, Match, Finish
<1>7. \/ maps' = [maps EXCEPT ![t] = Front(maps[t])]
      \/ maps' = [maps EXCEPT ![t] = Front(EmaxReached(maps[t]))]
  <2>1. CASE MemberFound(t)
    BY <2>1 DEF MemberFound
  <2>2. CASE Match(t)
    BY <2>2 DEF Match
  <2>3. CASE Finish(t)
    <3>1. CASE Current(t).file \in Heuristic
      BY <2>3, <3>1 DEF Finish
    <3>2. CASE Current(t).file \notin Heuristic
      BY <2>3, <3>2 DEF Finish
    <3> QED BY <3>1, <3>2
  <2> QED BY <2>1, <2>2, <2>3
<1>8. leak' \in [Threads -> Nat]
  <2>1. CASE MemberFound(t)
    <3> DEFINE d == IF Members(t)[Current(t).next - 1] \in Embedded THEN 1 ELSE 0
    <3>1. leak' = [leak EXCEPT ![t] = @ + d]
      BY <2>1 DEF MemberFound
    <3>2. d \in Nat
      OBVIOUS
    <3> HIDE DEF d
    <3> QED BY <3>1, <3>2 DEF ScanInv
  <2>2. CASE Match(t) \/ Finish(t)
    BY <2>2 DEF Match, Finish, ScanInv
  <2> QED BY <2>1, <2>2
<1> QED BY <1>3, <1>4, <1>5, <1>6, <1>7, <1>8, OneThread

(* The invariant is inductive.                                              *)
LEMMA StepKeeps ==
  ASSUME ScanAssumption, ScanInv, [Next]_vars PROVE ScanInv'
<1>1. CASE UNCHANGED vars
  BY <1>1 DEF ScanInv, Good, vars
<1>2. ASSUME NEW t \in Threads, ScanDone(t) PROVE ScanInv'
  BY <1>2 DEF ScanDone, ScanInv, Good
<1>3. ASSUME NEW t \in Threads, Step(t) PROVE ScanInv'
  BY <1>2, <1>3, ReturnKeeps, OpenKeeps, UnpackKeeps, NormaliseKeeps, CloseKeeps DEF Step
<1>4. ASSUME NEW t \in Threads, NEW f \in Files, ScanDesc(t, f) PROVE ScanInv'
  BY <1>4, ScanDescKeeps
<1> QED BY <1>1, <1>3, <1>4 DEF Next

(* FmapInBounds for all constants: the maxreclevel + 2 slots cl_scandesc    *)
(* allocates for ctx->fmap suffice however files are nested, with or        *)
(* without limits on files and sizes, after a level was entered and never   *)
(* left, and whatever other threads cache.                                  *)
THEOREM FmapNeverOverrun == Spec => []FmapInBounds
<1>1. Init => ScanInv
  BY InitScan
<1>2. ScanInv /\ [Next]_vars => ScanInv'
  BY ScanAssumption, StepKeeps
<1>3. ScanInv => FmapInBounds
  BY ScanAssumption, GoodBound
<1> QED BY <1>1, <1>2, <1>3, PTL DEF Spec
=============================================================================
