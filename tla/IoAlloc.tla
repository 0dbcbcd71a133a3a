------------------------------ MODULE IoAlloc -------------------------------
(***************************************************************************)
(* GraphCompiler::compile (src/graph/graph_compiler.cpp) chooses one size  *)
(* for all the surfaces of a graph: it starts at the largest tensor and    *)
(* adds 64 bytes until the channel stride of every graph input and output  *)
(* is a multiple of 64, at most 40960 times.                               *)
(***************************************************************************)
EXTENDS FusionRules

CONSTANTS
    Lane,       \* 64, the stride's alignment
    MinAlloc,   \* 49152, the smallest surface
    MaxIter     \* 40960

ASSUME AllocAssumption == Lane \in Nat \ {0} /\ MinAlloc \in Nat /\ MaxIter \in Nat \ {0}

VARIABLES
    target,     \* target, 0 before the search
    iter,       \* turns of the loop that have failed
    settled     \* the loop has ended and io_alloc_bytes_ = target

allocVars == <<target, iter, settled>>

Bytes(sh) == sh.c * sh.s * 2
RoundUp(x, k) == ((x + k - 1) \div k) * k

Suits(t, x) ==
    LET stride == t \div ShapeOf(x).c IN stride >= ShapeOf(x).s * 2 /\ stride % Lane = 0

SuitsAll(t) == \A x \in ToSet(inputs) \cup ToSet(outputs) : Suits(t, x)

AllocInit == target = 0 /\ iter = 0 /\ settled = FALSE

Start == RoundUp(Max({MinAlloc} \cup {Bytes(ShapeOf(x)) : x \in TensorId}), Lane)

AllocBegin ==
    /\ stage = "compile" /\ target = 0
    /\ target' = Start
    /\ UNCHANGED <<iter, settled>>

\* Mutant of AllocTurn: the outputs are not looked at.
AllocTurnInputsOnly ==
    /\ stage = "compile" /\ target # 0 /\ ~settled
    /\ IF iter < MaxIter /\ ~(\A x \in ToSet(inputs) : Suits(target, x))
         THEN target' = target + Lane /\ iter' = iter + 1 /\ UNCHANGED settled
         ELSE settled' = TRUE /\ UNCHANGED <<target, iter>>

\* One turn of the loop.  The last turn also adds to target, and what it
\* leaves there is not looked at again.
AllocTurn ==
    /\ stage = "compile" /\ target # 0 /\ ~settled
    /\ IF iter < MaxIter /\ ~SuitsAll(target)
         THEN target' = target + Lane /\ iter' = iter + 1 /\ UNCHANGED settled
         ELSE settled' = TRUE /\ UNCHANGED <<target, iter>>

AllocStep == (AllocBegin \/ AllocTurn) /\ UNCHANGED stage

\* The size chosen holds every tensor of the graph, the ones between groups
\* included, although only inputs and outputs were looked at; it suits those,
\* and no smaller candidate did, unless none of the MaxIter candidates suits.
AllocRight ==
    settled =>
        /\ \A x \in TensorId : target >= Bytes(ShapeOf(x))
        /\ LET tried == {Start + k * Lane : k \in 0..(MaxIter - 1)}
               good == {t \in tried : SuitsAll(t)} IN
           target = IF good = {} THEN Start + MaxIter * Lane ELSE Min(good)
=============================================================================
