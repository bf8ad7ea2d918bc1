---------------------------- MODULE MCScanFile ----------------------------
(* Instances of ScanFile for TLC. *)
EXTENDS ScanVerdict, TLC

CONSTANTS t1, t2, crate, box, zip, deep, hit, disk, tar, doc,
          post, mail, fp, note, setup, pe, exe, stub, tiny

(* A match lies four levels below crate and disk, one deeper than MaxRec.   *)
(* A scan of crate or disk stops above it, one of tar or zip finds it; both *)
(* meet zip at level 2.  setup and exe are listed as false positives and    *)
(* have members that match, found in the raw scan and in the last switch.   *)
Nested ==
  (crate :> <<box, mail>>) @@ (box :> <<zip>>) @@ (zip :> <<deep>>) @@ (deep :> <<hit>>) @@ (hit :> <<>>)
    @@ (disk :> <<tar>>) @@ (tar :> <<zip>>)
    @@ (mail :> <<fp, note>>) @@ (fp :> <<>>) @@ (note :> <<>>) @@ (post :> <<exe, mail>>)
    @@ (setup :> <<pe>>) @@ (pe :> <<>>) @@ (exe :> <<stub>>) @@ (stub :> <<>>)
    @@ (doc :> <<tiny, setup, zip>>) @@ (tiny :> <<>>)

Sizes == [f \in DOMAIN Nested |-> IF f = tiny THEN 5 ELSE IF f = deep THEN 20 ELSE 10]

Unlimited(fs) ==
  [maxfiles |-> 0, maxscansize |-> 0, maxfilesize |-> 0, raw |-> FALSE, submitted |-> fs]

AllConfigs ==
  {Unlimited({crate, disk, tar, zip}), Unlimited({post, mail, exe, note}), Unlimited({doc, setup, tar}),
   [Unlimited({disk, tar, zip}) EXCEPT !.maxfiles = 2],
   [Unlimited({disk, tar, zip}) EXCEPT !.maxscansize = 30],
   [Unlimited({disk, tar, zip}) EXCEPT !.maxfilesize = 15],
   [Unlimited({hit, fp, doc, tiny}) EXCEPT !.raw = TRUE]}

(* Two of them, for AllEntriesGood.                                         *)
HitConfig == {Unlimited({crate, disk})}
LimitConfig == {[Unlimited({tar, zip}) EXCEPT !.maxfiles = 2]}

ThreadSymmetry == Permutations({t1, t2})
=============================================================================
