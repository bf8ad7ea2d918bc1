----------------------------- MODULE MCSession ------------------------------
(* Session for TLC.                                                         *)
EXTENDS Session, TLC

Setting(outside, inside, faults) == [outside |-> outside, inside |-> inside, faults |-> faults]

(* Clients that keep to the protocol; streams inside IDSESSION; the end of  *)
(* the daemon; commands that IDSESSION does not accept; no memory outside   *)
(* and inside IDSESSION; clients that send more behind their last command,  *)
(* outside and inside IDSESSION.                                            *)
AllSettings ==
  {Setting({"SCAN", "PING", "INSTREAM", "IDSESSION", "UNKNOWN"}, {"SCAN", "PING", "END"}, {}),
   Setting({"IDSESSION"}, {"INSTREAM", "END"}, {}),
   Setting({"IDSESSION", "SHUTDOWN"}, {"SCAN", "END"}, {"sigterm"}),
   Setting({"IDSESSION"}, {"SCAN", "UNKNOWN"}, {}),
   Setting({"SCAN", "INSTREAM"}, {}, {"nomemory"}),
   Setting({"IDSESSION"}, {"SCAN"}, {"nomemory"}),
   Setting({"SCAN"}, {}, {"pipelined"}),
   Setting({"IDSESSION"}, {"PING", "END"}, {"pipelined"})}

ConnSymmetry == Permutations(Conns)
=============================================================================
