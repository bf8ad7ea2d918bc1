------------------------------- MODULE MirMan -------------------------------
(* The mirror manager of freshclam: the table of mirrors that mirman.c keeps *)
(* in mirrors.dat, and wwwconnect (manager.c) that consults it to choose an  *)
(* address.  A run of freshclam reads the file, makes a few transfers, each  *)
(* of which connects and then reports to the table, and writes the file.     *)
(* Time passes between runs.  Both builds are modelled: with getaddrinfo,    *)
(* which balances the load over the mirrors, and without.  updatedb sets the *)
(* levels that Throttle and CanWhitelist stand for anew for each database;   *)
(* here they stay, and each combination is an instance.                      *)
EXTENDS Naturals, Sequences, SequencesExt

CONSTANTS
  Mirrors,        \* addresses, 1..n
  Builds,         \* values of HAVE_GETADDRINFO
  IgnoreShort, IgnoreLong,  \* IGNORE_SHORT and IGNORE_LONG
  Throttle,       \* age below which an outdated program may not come back, 0: up to date
  CanWhitelist,   \* the DNS reply named a level, at most 3 above the program's (manager.c:1561)
  MaxAttempts,
  MaxTransfers,   \* bound: transfers of a run
  MaxSucc, MaxFail  \* bounds of the counters

ASSUME MirAssumption ==
  /\ Mirrors \subseteq Nat \ {0} /\ Mirrors # {}
  /\ Builds \subseteq BOOLEAN /\ CanWhitelist \in BOOLEAN
  /\ IgnoreShort \in Nat /\ IgnoreLong \in Nat /\ IgnoreShort < IgnoreLong
  /\ Throttle \in Nat /\ MaxAttempts \in Nat \ {0} /\ MaxTransfers \in Nat
  /\ MaxSucc \in Nat /\ MaxFail \in Nat /\ MaxFail >= 3

VARIABLES
  getaddrinfo,  \* HAVE_GETADDRINFO of this build, fixed
  file, torn,   \* mirrors.dat: whole records, and whether it ends in a part of one
  mirtab, dangling,     \* mdat->mirtab, and whether it is a freed pointer
  pc, kind, tries, left,    \* place in the run, transfer, attempts, transfers left
  host,         \* the address to keep using (ip[]), 0 for none
  list, rp,     \* answer of the resolver, and position in it
  loadbal, loadbal_rp, minsucc, minfail, ips, ignored, addr,
  currip,       \* the address that mirman_update will be told
  peer,         \* history: the address that is connected
  refused, tried    \* history: addresses mirman_check refused, and tried

loop == <<list, rp, loadbal, loadbal_rp, minsucc, minfail, ips, ignored, addr, refused, tried>>
store == <<file, torn>>
table == <<mirtab, dangling>>
job == <<kind, tries, left, host>>
vars == <<getaddrinfo, store, table, pc, job, loop, currip, peer>>

Infinity == MaxSucc + MaxFail + 1    \* 0xffffffff

Init ==
  /\ getaddrinfo \in Builds
  /\ file = <<>> /\ torn = FALSE /\ mirtab = <<>> /\ dangling = FALSE
  /\ pc = "start" /\ kind = "none" /\ tries = 0 /\ left = 0 /\ host = 0
  /\ list = <<>> /\ rp = 0 /\ loadbal = FALSE /\ loadbal_rp = 0
  /\ minsucc = Infinity /\ minfail = Infinity /\ ips = 0 /\ ignored = 0 /\ addr = 0
  /\ currip = 0 /\ peer = 0 /\ refused = {} /\ tried = {}
-----------------------------------------------------------------------------
(* mirman.c.  A record is fresh (atime 0) once it was updated in this run;   *)
(* otherwise its age is the time since atime.                                *)
Record(m) == SelectInSeq(mirtab, LAMBDA x : x.ip = m)
AtMost(n, b) == IF n > b THEN b ELSE n

(* mirman_check: 0 to use the mirror, 1 and 2 to leave it.                   *)
mirman_check(m) ==
  IF Record(m) = 0 THEN 0
  ELSE LET x == mirtab[Record(m)] IN
       CASE x.fresh /\ x.ignore = 0 -> 0
         [] ~x.fresh /\ x.age < Throttle -> 2
         [] x.ignore = 0 -> 0
         [] x.fresh -> 1
         [] x.age > IgnoreLong -> 0
         [] x.ignore = 2 /\ x.age > IgnoreShort -> 0
         [] OTHER -> 1

(* ... which also clears the mark of a mirror ignored long enough ago.       *)
Checked(m) ==
  LET n == Record(m) IN
  IF n # 0 /\ mirman_check(m) = 0 /\ ~mirtab[n].fresh /\ mirtab[n].age > IgnoreLong
  THEN [mirtab EXCEPT ![n].ignore = 0] ELSE mirtab

(* Mutant: off by one. *)
IgnoredTwoFailures(x, broken) ==
  CASE broken = 2 -> 2 [] x.fail < 2 -> 0 [] OTHER -> broken

(* The ignore flag of a known mirror, its failures already counted.          *)
Ignored(x, broken) ==
  CASE broken = 2 -> 2 [] x.fail < 3 -> 0 [] OTHER -> broken

Counted(x, broken) ==
  IF broken = 0 THEN [x EXCEPT !.succ = AtMost(@ + 1, MaxSucc)]
  ELSE [x EXCEPT !.fail = AtMost(@ + 1, MaxFail)]

(* mirman_update.                                                            *)
mirman_update(t, m, broken) ==
  LET n == SelectInSeq(t, LAMBDA x : x.ip = m)
      new == [ip |-> m, age |-> 0, fresh |-> TRUE, succ |-> 0, fail |-> 0, ignore |-> IF broken = 2 THEN 2 ELSE 0]
      x == Counted(t[n], broken)
  IN IF n = 0 THEN Append(t, Counted(new, broken))
     ELSE [t EXCEPT ![n] = [x EXCEPT !.fresh = TRUE, !.age = 0, !.ignore = Ignored(x, broken)]]

mirman_whitelist(t, mode) ==
  [n \in DOMAIN t |-> IF mode = 1 \/ t[n].ignore = 2 THEN [t[n] EXCEPT !.ignore = 0] ELSE t[n]]

(* mirman_read, at the start of downloadmanager.  A file with part of a      *)
(* record is removed; mirman_free then leaves the pointer in place.  The     *)
(* caller does not look at the result.                                       *)
Read ==
  /\ pc = "start" /\ pc' = "idle" /\ left' = MaxTransfers
  /\ IF torn
     THEN /\ file' = <<>> /\ torn' = FALSE
          /\ mirtab' = <<>> /\ dangling' = (file # <<>>)
     ELSE mirtab' = file /\ dangling' = FALSE /\ UNCHANGED store
  /\ host' = 0 /\ UNCHANGED <<kind, tries, loop, currip, peer>>

(* Between runs.                                                             *)
Wait ==
  /\ pc = "start"
  /\ \E n \in DOMAIN file : file[n].age <= IgnoreLong
  /\ file' = [n \in DOMAIN file |-> [file[n] EXCEPT !.age = AtMost(@ + 1, IgnoreLong + 1)]]
  /\ UNCHANGED <<torn, table, pc, job, loop, currip, peer>>
-----------------------------------------------------------------------------
(* The resolver may rotate its answer.                                       *)
Answers(h) ==
  IF h # 0 THEN {<<h>>}
  ELSE LET a == SetToSortSeq(Mirrors, <) IN
       {[n \in DOMAIN a |-> a[1 + ((n + r) % Len(a))]] : r \in DOMAIN a}

(* remote_cvdhead, getfile: wwwconnect is called.                            *)
Call(k, h) ==
  /\ pc' = "connect" /\ kind' = k
  /\ list' \in Answers(h) /\ rp' = 1
  /\ loadbal' = getaddrinfo /\ loadbal_rp' = 0
  /\ minsucc' = Infinity /\ minfail' = Infinity /\ ips' = 0 /\ ignored' = 0 /\ addr' = 0
  /\ refused' = {} /\ tried' = {}

Transfer ==
  /\ pc = "idle" /\ left > 0 /\ left' = left - 1 /\ tries' = 1
  /\ \E k \in {"head", "patch", "cvd"} : Call(k, host)
  /\ UNCHANGED <<store, table, host, currip, peer>>

(* Mutant: the loop ends with the first failure. *)
TryOnce(n, a) ==
  /\ tried' = tried \cup {list[n]}
  /\ \/ /\ pc' = "connected" /\ peer' = list[n] /\ currip' = a
        /\ UNCHANGED <<rp, loadbal>>
     \/ /\ loadbal' = FALSE /\ rp' = Len(list) + 1
        /\ UNCHANGED <<pc, peer, currip>>

(* connect() to position n of the list while addr names address a.           *)
Try(n, a) ==
  /\ tried' = tried \cup {list[n]}
  /\ \/ /\ pc' = "connected" /\ peer' = list[n] /\ currip' = a
        /\ UNCHANGED <<rp, loadbal>>
     \/ /\ IF loadbal THEN loadbal' = FALSE /\ rp' = 2 ELSE rp' = rp + 1 /\ UNCHANGED loadbal
        /\ UNCHANGED <<pc, peer, currip>>

(* One address: the body of the loop over the list.                          *)
Balance ==
  LET m == list[rp]
      ok == mirman_check(m) = 0
      known == Record(m) # 0
      x == mirtab[Record(m)]
      better == known /\ x.succ < minsucc /\ x.fail <= minfail
      choice == IF ok /\ (~known \/ better) THEN rp ELSE loadbal_rp
  IN /\ loadbal
     /\ loadbal_rp' = choice
     /\ minsucc' = IF ok /\ better THEN x.succ ELSE minsucc
     /\ minfail' = IF ok /\ better THEN x.fail ELSE minfail
     /\ IF (~ok \/ known) /\ rp < Len(list)
        THEN rp' = rp + 1 /\ UNCHANGED <<pc, peer, currip, loadbal, tried>>
        ELSE IF choice = 0
        THEN loadbal' = FALSE /\ rp' = 2 /\ UNCHANGED <<pc, peer, currip, tried>>
        ELSE Try(choice, m)

InOrder ==
  /\ ~loadbal
  /\ IF mirman_check(list[rp]) # 0 \/ loadbal_rp = rp
     THEN rp' = rp + 1 /\ UNCHANGED <<pc, peer, currip, loadbal, tried>>
     ELSE Try(rp, list[rp])
  /\ UNCHANGED <<loadbal_rp, minsucc, minfail>>

(* Mutant: an ignored address is not counted. *)
LookForgetsIps ==
  /\ pc = "connect" /\ rp <= Len(list)
  /\ addr' = list[rp] /\ mirtab' = Checked(list[rp])
  /\ IF mirman_check(list[rp]) # 0
     THEN ignored' = ignored + 1 /\ refused' = refused \cup {list[rp]} /\ UNCHANGED ips
     ELSE ips' = ips + 1 /\ UNCHANGED <<ignored, refused>>
  /\ Balance \/ InOrder
  /\ UNCHANGED <<store, dangling, job, list>>

Look ==
  /\ pc = "connect" /\ rp <= Len(list)
  /\ ips' = ips + 1 /\ addr' = list[rp] /\ mirtab' = Checked(list[rp])
  /\ IF mirman_check(list[rp]) # 0
     THEN ignored' = ignored + 1 /\ refused' = refused \cup {list[rp]}
     ELSE UNCHANGED <<ignored, refused>>
  /\ Balance \/ InOrder
  /\ UNCHANGED <<store, dangling, job, list>>

(* No address is left: the failure of wwwconnect.                            *)
AllIgnored == CanWhitelist /\ ips # 0 /\ ips = ignored

NoConnection ==
  /\ pc = "connect" /\ rp > Len(list) /\ pc' = "retry"
  /\ mirtab' = IF AllIgnored THEN mirman_whitelist(mirtab, 1) ELSE mirtab
  /\ UNCHANGED <<store, dangling, job, loop, currip, peer>>
-----------------------------------------------------------------------------
(* How a transfer ends: what is reported, and where the caller goes on.      *)
Outcomes ==
  {<<<<>>, "retry">>, <<<<1>>, "retry">>, <<<<2>>, "retry">>, <<<<>>, "broken">>, <<<<0>>, "idle">>}
    \cup (IF kind = "cvd" THEN {<<<<0>>, "broken">>, <<<<0, 2>>, "broken">>} ELSE {})

(* The first report after a broken file reallocates the freed table, which   *)
(* may end the process.                                                      *)
Answer ==
  /\ pc = "connected"
  /\ \E o \in Outcomes :
       /\ pc' = o[2]
       /\ mirtab' = FoldLeft(LAMBDA t, b : mirman_update(t, currip, b), mirtab, o[1])
       /\ dangling' = (dangling /\ o[1] = <<>>)
  /\ host' = IF host = 0 THEN peer ELSE host
  /\ UNCHANGED <<store, kind, tries, left, loop, currip, peer>>

(* updatedb: a patch is tried again elsewhere, and then the whole file.      *)
Again ==
  /\ pc = "retry" /\ kind = "patch" /\ tries < MaxAttempts
  /\ host' = 0 /\ tries' = tries + 1 /\ Call("patch", 0)
  /\ UNCHANGED <<store, table, left, currip, peer>>

WholeFile ==
  /\ kind = "patch"
  /\ pc = "broken" \/ (pc = "retry" /\ tries = MaxAttempts)
  /\ host' = IF pc = "retry" THEN 0 ELSE host
  /\ mirtab' = mirman_whitelist(mirtab, 2) /\ Call("cvd", host')
  /\ UNCHANGED <<store, dangling, tries, left, currip, peer>>

(* Databases are done, or one failed: mirman_write.                          *)
Ends == pc = "idle" \/ (pc \in {"retry", "broken"} /\ kind # "patch")

Exit ==
  /\ pc' = "start" /\ mirtab' = <<>> /\ dangling' = FALSE
  /\ kind' = "none" /\ tries' = 0 /\ left' = 0 /\ host' = 0
  /\ list' = <<>> /\ rp' = 0 /\ loadbal' = FALSE /\ loadbal_rp' = 0
  /\ minsucc' = Infinity /\ minfail' = Infinity /\ ips' = 0 /\ ignored' = 0 /\ addr' = 0
  /\ currip' = 0 /\ peer' = 0 /\ refused' = {} /\ tried' = {}

Stamped == [n \in DOMAIN mirtab |-> [mirtab[n] EXCEPT !.fresh = FALSE]]

Write ==
  /\ Ends /\ Exit
  /\ IF mirtab = <<>> THEN UNCHANGED store
     ELSE file' = Stamped /\ torn' = FALSE

(* The process ends in a run, or while it writes: O_TRUNC comes first.       *)
Crash ==
  /\ pc # "start" /\ Exit
  /\ \/ UNCHANGED store
     \/ /\ Ends /\ mirtab # <<>>
        /\ \E n \in 0..(Len(mirtab) - 1) : file' = SubSeq(Stamped, 1, n)
        /\ torn' \in BOOLEAN

Next ==
  /\ \/ Read \/ Wait \/ Transfer \/ Look \/ NoConnection \/ Answer
     \/ Again \/ WholeFile \/ Write \/ Crash
  /\ UNCHANGED getaddrinfo

Spec == Init /\ [][Next]_vars
-----------------------------------------------------------------------------
Records == ToSet(file) \cup ToSet(mirtab)

TypeOK ==
  /\ \A x \in Records : x.ip \in Mirrors /\ x.ignore \in 0..2 /\ x.succ <= MaxSucc /\ x.fail <= MaxFail
  /\ rp \in 0..(Len(list) + 1) /\ loadbal_rp \in 0..Len(list)
  /\ pc \in {"start", "idle", "connect", "connected", "retry", "broken"}

(* Over any number of runs, crashes and whitelistings, a mirror with fewer   *)
(* than three failures is never marked as a permanent failure                *)
(* (mirman.c:181), and the table and the file hold one record for each       *)
(* mirror: a second, unmarked one would hide the mark from mirman_check.     *)
TableSound ==
  /\ TypeOK
  /\ \A x \in Records : x.ignore = 1 => x.fail >= 3
  /\ \A t \in {file, mirtab} : \A m, n \in DOMAIN t : t[m].ip = t[n].ip => m = n

(* wwwconnect connects to no mirror that mirman_check refused in this call,  *)
(* and gives up only after it tried every address that was not refused, the  *)
(* first of the list excepted when the load is balanced.                     *)
TriesWhatItMay ==
  /\ tried \cap refused = {}
  /\ pc = "connect" /\ rp > Len(list) =>
       ToSet(IF getaddrinfo THEN Tail(list) ELSE list) \subseteq tried \cup refused

(* The count that decides on whitelisting all mirrors (manager.c:392) is     *)
(* right although addresses are counted twice: it says that all were refused *)
(* exactly when they all were.                                               *)
AllIgnoredExact ==
  pc = "connect" /\ rp > Len(list) /\ CanWhitelist => (AllIgnored <=> ToSet(list) \subseteq refused)

(* mirman.h:27: what a transfer reports is counted for the address it was    *)
(* made from.  With getaddrinfo the code reports the last address it looked  *)
(* at (manager.c:326).                                                       *)
CreditsRightMirror == pc = "connected" => currip = peer
=============================================================================
