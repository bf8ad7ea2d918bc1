---------------------------- MODULE MCSplayCache ----------------------------
(* Instances of SplayCache for TLC. *)
EXTENDS SplayCache
=============================================================================
