----------------------------- MODULE MCThreadPool -----------------------------
(* Small instances of ThreadPool.                                          *)
EXTENDS ThreadPool, TLC

CONSTANTS w1, w2, main, s1, s2, b1, m1, m2, f1, f2, f3, nojob

OneMulti == m1 :> {f1, f2}
TwoMulti == m1 :> {f1, f2} @@ m2 :> {f3}
=============================================================================
