--------------------------- MODULE GraphValidator ---------------------------
(***************************************************************************)
(* libane::graph::GraphValidator::validate                                 *)
(* (src/graph/graph_validator.cpp), the first thing                        *)
(* GraphCompiler::build_plan does with a graph.                            *)
(*                                                                         *)
(* check_topo is Kahn's algorithm, one step per node taken off its queue;  *)
(* the other checks are single passes and each is an operator.  `errors`   *)
(* holds the names of the checks that reported something: how many         *)
(* messages a check reports, and their words, are left out.                *)
(***************************************************************************)
EXTENDS AneGraph, SequencesExt

VARIABLES
    errors,     \* ValidationResult::errors
    in_degree,  \* check_topo: predecessors of each node still to process
    queue,      \* check_topo: q
    done        \* check_topo: the nodes taken off q, in that order

topoVars == <<in_degree, queue, done>>

-----------------------------------------------------------------------------
CheckStructure == inputs # <<>> /\ outputs # <<>>

\* The tensors defined when the check comes to node i.
DefinedBefore(i) ==
    ToSet(inputs) \cup {nodes[k].output : k \in 1..(i - 1)}

CheckEdges ==
    /\ \A i \in NodeId : \A j \in DOMAIN nodes[i].inputs :
         nodes[i].inputs[j] \in DefinedBefore(i)
    /\ \A k \in DOMAIN outputs : outputs[k] \in DefinedBefore(Len(nodes) + 1)

\* reachable, after the pass over the first i nodes.
Reachable ==
    LET R[i \in 0..Len(nodes)] ==
          IF i = 0 THEN ToSet(inputs)
          ELSE IF \A j \in DOMAIN nodes[i].inputs : nodes[i].inputs[j] \in R[i - 1]
            THEN R[i - 1] \cup {nodes[i].output} ELSE R[i - 1]
    IN R[Len(nodes)]

CheckReachability == \A k \in DOMAIN outputs : outputs[k] \in Reachable

\* The ops check_weights treats alike: no weights and so many inputs.
UnaryOps ==
    {"GELU", "SOFTMAX", "AVG_POOL", "MAX_POOL", "NEG", "SINH", "COSH", "TAN", "ASIN", "ACOS",
     "SILU", "SQRT", "LOG", "RSQRT", "TRANSPOSE", "CAST", "RELU", "TANH", "SIGMOID",
     "HARDSWISH", "LEAKY_RELU", "ELU"}
BinaryOps ==
    {"ADD", "MUL", "MOD", "SUB", "REAL_DIV", "LOGICAL_AND", "LOGICAL_OR", "LOGICAL_XOR"}
ReduceOps == {"REDUCE_PROD", "REDUCE_SUM", "REDUCE_MEAN", "REDUCE_MAX"}
ScatterOps == {"SCATTER", "SCATTER_ND", "SCATTER_ALONG_AXIS"}
NormOps == {"RMSNORM", "LAYER_NORM", "LAYERNORM"}

\* check_weights finds nothing wrong with a node n of one of these ops.
LinearOK(n) ==
    n.op \in {"MATMUL"} \cup NormOps /\ Len(n.inputs) = 1 /\ n.weights = "exact"

UnaryOK(n) == n.op \in UnaryOps /\ Len(n.inputs) = 1 /\ n.weights = "none"

\* A factor of 0 is reported, and then the channels are divided by it.
TableOK(n) ==
    /\ Len(n.inputs) = 1 /\ n.weights = "exact"
    /\ \/ n.op = "PIXEL_SHUFFLE" /\ n.factor > 0 /\ ShapeOf(n.inputs[1]).c % n.factor = 0
       \/ n.op = "PWL_ACTIVATION" /\ n.factor >= 2

MaskOK(n) ==
    /\ \/ n.op \in ScatterOps /\ Len(n.inputs) = 2 /\ n.weights = "exact"
       \/ n.op = "GATHER" /\ Len(n.inputs) = 1 /\ n.weights = "exact"
       \/ n.op = "GATHER" /\ Len(n.inputs) = 2 /\ n.weights = "none"
    /\ \A j \in DOMAIN n.inputs : ShapeOf(n.inputs[j]) = ShapeOf(n.output)

BinaryOK(n) ==
    /\ n.weights = "none"
    /\ \/ n.op \in BinaryOps /\ Len(n.inputs) = 2
       \/ /\ n.op = "SELECT" /\ Len(n.inputs) = 3
          /\ \A j \in 1..3 : ShapeOf(n.inputs[j]) = ShapeOf(n.output)

ConcatOK(n) ==
    /\ n.op = "CONCAT" /\ Len(n.inputs) = 2 /\ n.weights = "none"
    /\ LET a == ShapeOf(n.inputs[1])  b == ShapeOf(n.inputs[2])  out == ShapeOf(n.output) IN
       a.s = b.s /\ out.s = a.s /\ out.c = a.c + b.c

ReshapingOK(n) ==
    /\ Len(n.inputs) = 1 /\ n.weights = "none"
    /\ LET in == ShapeOf(n.inputs[1])  out == ShapeOf(n.output) IN
       \/ n.op = "RESHAPE" /\ in.c * in.s = out.c * out.s
       \/ n.op = "SLICE_BY_INDEX" /\ out.c <= in.c /\ out.s <= in.s
       \/ n.op \in ReduceOps /\ out.c = 1 /\ out.s = in.s

NodeOK(n) ==
    \/ LinearOK(n) \/ UnaryOK(n) \/ TableOK(n) \/ MaskOK(n)
    \/ BinaryOK(n) \/ ConcatOK(n) \/ ReshapingOK(n)

CheckWeights == \A i \in NodeId : NodeOK(nodes[i])

CheckBinaryShapes ==
    \A i \in NodeId : nodes[i].op \in {"ADD", "MUL", "SUB", "REAL_DIV"} =>
        \A j \in DOMAIN nodes[i].inputs : ShapeOf(nodes[i].inputs[j]) = ShapeOf(nodes[i].inputs[1])

Report(check, ok) == IF ok THEN {} ELSE {check}

-----------------------------------------------------------------------------
(* check_topo                                                               *)

\* The nodes whose output node i reads: pred_seen, each counted once however
\* often it is read.
Predecessors(i) ==
    {k \in NodeId : \E j \in DOMAIN nodes[i].inputs : nodes[i].inputs[j] = nodes[k].output}

\* Mutant of InDegree: a predecessor is counted once per input that reads it
\* (no pred_seen).
InDegreePerInput(i) ==
    Cardinality({j \in DOMAIN nodes[i].inputs :
                   \E k \in NodeId : nodes[i].inputs[j] = nodes[k].output})

InDegree(i) == Cardinality(Predecessors(i))

\* A set of node ids in the order of a loop over the nodes: the k-th of them
\* has k - 1 below it.
InOrder(S) ==
    [k \in 1..Cardinality(S) |-> CHOOSE x \in S : Cardinality({y \in S : y < x}) = k - 1]

ValidatorInit ==
    /\ errors = {} /\ in_degree = <<>> /\ queue = <<>> /\ done = <<>>

\* libane_graph_compile enters validate: the checks before check_topo, and
\* its queue of the nodes with no predecessor.
ValidateBegin ==
    /\ stage = "build"
    /\ IF CheckStructure
         THEN /\ stage' = "topo"
              /\ errors' = Report("edges", CheckEdges)
              /\ in_degree' = [i \in NodeId |-> InDegree(i)]
              /\ queue' = InOrder({i \in NodeId : InDegree(i) = 0})
         ELSE /\ stage' = "rejected"
              /\ errors' = {"structure"}
              /\ UNCHANGED <<in_degree, queue>>
    /\ done' = <<>>
    /\ UNCHANGED graphVars

\* One turn of Kahn's loop.
TopoStep ==
    /\ stage = "topo" /\ queue # <<>>
    /\ LET succ == {i \in NodeId : Head(queue) \in Predecessors(i)} IN
       /\ in_degree' = [i \in NodeId |-> IF i \in succ THEN in_degree[i] - 1 ELSE in_degree[i]]
       /\ queue' = Tail(queue) \o InOrder({i \in succ : in_degree[i] = 1})
    /\ done' = Append(done, Head(queue))
    /\ UNCHANGED <<graphVars, errors, stage>>

\* The queue is empty: check_topo gives its verdict, the remaining checks run
\* and validate returns.  build_plan throws on errors, and compile turns that
\* into nullptr.
ValidateEnd ==
    /\ stage = "topo" /\ queue = <<>>
    /\ errors' = errors \cup Report("topo", Len(done) = Len(nodes))
                        \cup Report("reachability", CheckReachability)
                        \cup Report("weights", CheckWeights)
                        \cup Report("binary", CheckBinaryShapes)
    /\ stage' = IF errors' = {} THEN "fuse" ELSE "rejected"
    /\ UNCHANGED <<graphVars, topoVars>>

Validate == ValidateBegin \/ TopoStep \/ ValidateEnd

-----------------------------------------------------------------------------
ValidatorTypeOK ==
    /\ errors \subseteq {"structure", "edges", "topo", "reachability", "weights", "binary"}
    /\ in_degree \in Seq(Nat)
    /\ queue \in Seq(NodeId)
    /\ done \in Seq(NodeId)

\* Kahn's loop (check_topo) takes every node at most once and after all the
\* nodes it reads from, a node waiting in the queue exactly when all of those
\* have been taken.  And a graph built through the interface is never refused
\* for its edges: with add_op checking its ids, check_edges, check_topo and
\* check_reachability (which count occurrences, orders and producers each in
\* its own way) report nothing, whatever else is wrong with the graph.
KahnRight ==
    /\ stage = "topo" =>
         LET order == done \o queue IN
         /\ IsInjective(order)
         /\ \A i \in NodeId :
              i \in ToSet(order) <=> Predecessors(i) \subseteq ToSet(done)
         /\ \A p \in DOMAIN order : \A k \in Predecessors(order[p]) :
              \E q \in 1..(p - 1) : order[q] = k
    /\ errors \cap {"edges", "topo", "reachability"} = {}
=============================================================================
