----------------------------- MODULE MCHashTab ------------------------------
(* HashTab for TLC: a table of the signature loader, a bytecode map with     *)
(* text keys, one with other keys, and tables whose allocations fail.        *)
EXTENDS HashTab, TLC

CONSTANTS k1, k2, k3, b3

(* b3 is k3 with other bytes after its NUL. *)
CopyOf == (k1 :> k1) @@ (k2 :> k2) @@ (k3 :> k3) @@ (b3 :> k3)

AllUses == {{}, {"delete"}, {"delete", "nomemory"}, {"binary"}}
=============================================================================
