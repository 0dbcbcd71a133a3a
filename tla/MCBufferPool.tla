---------------------------- MODULE MCBufferPool ----------------------------
(***************************************************************************)
(* Two threads, four addresses, two sizes.  A tensor of layout `small` is  *)
(* padded to 2 or fits 1; `big` needs 2, so that raw and tensor requests   *)
(* of the same byte size recycle each other's buffers.                     *)
(***************************************************************************)
EXTENDS BufferPool, TLC

CONSTANTS b1, b2, b3, b4, small, big, d1, d2, r1, r2, t1, t2

MCLayoutBytes == (small :> 1) @@ (big :> 2)
MCF == [v \in Value |-> IF v = d1 THEN r1 ELSE IF v = d2 THEN r2 ELSE Junk]
MCRequests ==
    {[d |-> d1, lay |-> NoLayout, n |-> 2, m |-> 2],
     [d |-> d2, lay |-> big, n |-> 1, m |-> 1],
     [d |-> d1, lay |-> small, n |-> 2, m |-> 1]}
Symmetry == Permutations({b1, b2, b3, b4}) \cup Permutations({t1, t2})
=============================================================================
