-------------------------- MODULE MCGraphExecutor ---------------------------
(***************************************************************************)
(* Graphs of up to three nodes on one or two inputs, executed up to twice:  *)
(* calls of one and two inputs, and calls the validator refuses.            *)
(***************************************************************************)
EXTENDS GraphExecutor

OpCall(op, arity, weights) == [op |-> op, arity |-> arity, weights |-> weights, factor |-> 0]

Tiles == {[c |-> 2, s |-> 16]}
AnyCalls ==
    {OpCall("MATMUL", 1, "exact"), OpCall("SUB", 2, "none"), OpCall("CAST", 1, "none"),
     OpCall("PIXEL_SHUFFLE", 1, "exact"), OpCall("RELU", 0, "none")}
=============================================================================
