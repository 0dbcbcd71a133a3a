--------------------------- MODULE MCCompileCache ---------------------------
(***************************************************************************)
(* Two threads, three keys, four entries.  e1, e2 and e3 do not fit         *)
(* together, so that put has to choose what to evict; e4 is filed under    *)
(* the same key as e1 (replacement) and is larger than the whole budget    *)
(* (everything is evicted and it is cached alone).                         *)
(***************************************************************************)
EXTENDS CompileCache

CONSTANTS k1, k2, k3, e1, e2, e3, e4, t1, t2

MCEntryKey == (e1 :> k1) @@ (e2 :> k2) @@ (e3 :> k3) @@ (e4 :> k1)
MCEntrySize == (e1 :> 1) @@ (e2 :> 2) @@ (e3 :> 1) @@ (e4 :> 4)
=============================================================================
