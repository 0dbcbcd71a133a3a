--------------------------- MODULE RoutingBackend ---------------------------
(***************************************************************************)
(* GraphCompiler::compile with its RoutingBackend                          *)
(* (src/graph/graph_compiler.cpp), from a validated graph on: fusion, the  *)
(* choice of the surface size, and every group through EspressoBackend or  *)
(* MilBackend.  HwxBackend, the first in the router, gets the activations  *)
(* and, until it has a binary to patch, hands them to MilBackend; its warm *)
(* path is module HwxBackend.  What happens to the compiled groups is      *)
(* module GraphExecutor.                                                   *)
(***************************************************************************)
EXTENDS EspressoBackend, IoAlloc, HalfFloat

CONSTANT Graphs     \* the graphs to compile: tensors, nodes, inputs, outputs, and
                    \* the pattern of a weight (half)

\* What a caller can have built with the calls of AneGraph.
ASSUME GraphsAssumption ==
    \A g \in Graphs :
        /\ g.tensors \in Seq([shape : Shape, producer : Nat])
        /\ g.nodes \in Seq(Node)
        /\ g.inputs \in Seq(Nat) /\ g.outputs \in Seq(Nat)
        /\ g.half \in Halves

vars == <<planVars, milVars, espressoVars, allocVars, half>>

\* A graph built through the interface that the validator has accepted.
Init ==
    /\ \E g \in Graphs :
         /\ tensors = g.tensors /\ nodes = g.nodes /\ inputs = g.inputs /\ outputs = g.outputs
         /\ half = g.half
    /\ WellFormed
    /\ CheckStructure /\ CheckEdges /\ CheckReachability /\ CheckWeights /\ CheckBinaryShapes
    /\ stage = "fuse"
    /\ ValidatorInit /\ FuseInit /\ MilInit /\ EspressoInit /\ AllocInit

\* The first backend that owns the group gets it.
Route ==
    /\ stage = "compile" /\ settled /\ gi <= Len(groups)
    /\ IF EspressoOwns(Current)
         THEN EspressoStep
         ELSE MilStep /\ UNCHANGED espressoVars
    /\ UNCHANGED allocVars

CompileEnd ==
    /\ stage = "compile" /\ settled /\ gi > Len(groups)
    /\ stage' = "ready"
    /\ UNCHANGED <<milVars, espressoVars, allocVars>>

Done == stage \in {"ready", "rejected", "threw"} /\ UNCHANGED vars

Next ==
    \/ Fuse /\ UNCHANGED <<milVars, espressoVars, allocVars, half>>
    \/ /\ \/ AllocStep /\ UNCHANGED <<milVars, espressoVars>>
          \/ Route
          \/ CompileEnd
       /\ UNCHANGED <<graphVars, errors, topoVars, fuseVars, half>>
    \/ Done

Spec == Init /\ [][Next]_vars
=============================================================================
