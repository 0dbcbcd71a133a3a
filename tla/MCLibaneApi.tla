---------------------------- MODULE MCLibaneApi -----------------------------
(***************************************************************************)
(* Entries of size one in a cache that holds MaxBytes of them, so that a   *)
(* second program evicts the first.  e1 and e2 are entries of kc, e3 and   *)
(* e4 of km.  kx has a shape the MIL builder refuses.                      *)
(***************************************************************************)
EXTENDS LibaneApi, TLC

CONSTANTS kc, km, kx, e1, e2, e3, e4, t1, t2

MCEntryKey == [e \in Entry |-> IF e \in {e1, e2} THEN kc ELSE km]
MCRequests == {<<kc>>, <<kc, kx>>, <<kx, kc>>}
OneRequest == {<<kc>>}
\* The threads do the same things, and so do the entries of kc.
Symmetry == Permutations(Thread) \cup Permutations({e1, e2})
MCEntrySize == [e \in Entry |-> 1]
=============================================================================
