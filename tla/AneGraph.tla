------------------------------ MODULE AneGraph ------------------------------
(***************************************************************************)
(* libane::graph::AneGraph (src/graph/ane_graph.cpp): the graph a caller   *)
(* builds with libane_graph_add_input, libane_graph_add_op and             *)
(* libane_graph_mark_output before compiling it.                           *)
(*                                                                         *)
(* A tensor's id is its position in tensors_, a node's its position in     *)
(* nodes_; both count from 1 here, and 0 stands for kInvalidNodeId.  A     *)
(* call with a tensor id out of range, or with a shape that breaks the ANE *)
(* constraints, throws before it changes anything and is left out.         *)
(***************************************************************************)
EXTENDS Integers, Sequences, FiniteSets

CONSTANTS
    Shape,      \* the shapes that pass TensorShape::validate
    Call,       \* the add_op calls: an op, how many inputs, which weights, and
                \* the number some weights encode
    MaxInputs,  \* bound: graph inputs
    MaxNodes,   \* bound: nodes
    MaxOutputs  \* bound: marked outputs

\* libane_op_t
Op ==
    {"MATMUL", "CONV2D", "LAYER_NORM", "GELU", "SOFTMAX", "ADD", "MUL", "TRANSPOSE", "CAST",
     "SILU", "RMSNORM", "LAYERNORM", "AVG_POOL", "MAX_POOL", "LOGICAL_AND", "LOGICAL_OR",
     "LOGICAL_XOR", "REDUCE_PROD", "SCATTER", "GATHER", "SCATTER_ND", "SCATTER_ALONG_AXIS",
     "NEG", "MOD", "SINH", "COSH", "TAN", "ASIN", "ACOS", "RESHAPE", "CONCAT",
     "SLICE_BY_INDEX", "REDUCE_SUM", "REDUCE_MEAN", "REDUCE_MAX", "SUB", "REAL_DIV", "SQRT",
     "LOG", "RSQRT", "SELECT", "RELU", "TANH", "SIGMOID", "HARDSWISH", "LEAKY_RELU", "ELU",
     "PIXEL_SHUFFLE", "PWL_ACTIVATION"}

\* The size of a node's weights: none, what the op and the shapes call for, or
\* anything else.
Weights == {"none", "exact", "wrong"}

ASSUME GraphAssumption ==
    /\ Shape \subseteq [c : Nat \ {0}, s : Nat \ {0}]
    /\ Call \subseteq [op : Op, arity : Nat, weights : Weights, factor : Int]
    /\ MaxInputs \in Nat /\ MaxNodes \in Nat /\ MaxOutputs \in Nat

VARIABLES
    tensors,    \* tensors_: the shape and the producer of each
    nodes,      \* nodes_: op, inputs, output, weights; factor is the number in
                \* them: PIXEL_SHUFFLE's upscale_factor, PWL_ACTIVATION's
                \* count of samples
    inputs,     \* graph_inputs_
    outputs,    \* graph_outputs_
    stage       \* what the caller does with the graph: "build", and later
                \* the stages of libane_graph_compile

graphVars == <<tensors, nodes, inputs, outputs>>

TensorId == 1..Len(tensors)
NodeId == 1..Len(nodes)
ShapeOf(x) == tensors[x].shape

\* weight_file is "w<node id>.bin" when the node has weights; the node id
\* stands for it.
WeightFile(i) == IF nodes[i].weights = "none" THEN 0 ELSE i

-----------------------------------------------------------------------------
GraphInit ==
    /\ tensors = <<>> /\ nodes = <<>> /\ inputs = <<>> /\ outputs = <<>>
    /\ stage = "build"

AddInput(s) ==
    /\ stage = "build" /\ Len(inputs) < MaxInputs
    /\ tensors' = Append(tensors, [shape |-> s, producer |-> 0])
    /\ inputs' = Append(inputs, Len(tensors) + 1)
    /\ UNCHANGED <<nodes, outputs, stage>>

\* Mutant of AddOp: the node id is taken before the node is appended.
AddOpStaleProducer(c, ins, s) ==
    /\ stage = "build" /\ Len(nodes) < MaxNodes
    /\ tensors' = Append(tensors, [shape |-> s, producer |-> Len(nodes)])
    /\ nodes' = Append(nodes, [op |-> c.op, inputs |-> ins,
                               output |-> Len(tensors) + 1,
                               weights |-> c.weights, factor |-> c.factor])
    /\ UNCHANGED <<inputs, outputs, stage>>

AddOp(c, ins, s) ==
    /\ stage = "build" /\ Len(nodes) < MaxNodes
    /\ tensors' = Append(tensors, [shape |-> s, producer |-> Len(nodes) + 1])
    /\ nodes' = Append(nodes, [op |-> c.op, inputs |-> ins,
                               output |-> Len(tensors) + 1,
                               weights |-> c.weights, factor |-> c.factor])
    /\ UNCHANGED <<inputs, outputs, stage>>

MarkOutput(x) ==
    /\ stage = "build" /\ Len(outputs) < MaxOutputs
    /\ outputs' = Append(outputs, x)
    /\ UNCHANGED <<tensors, nodes, inputs, stage>>

Build ==
    \/ \E s \in Shape : AddInput(s)
    \/ \E c \in Call : \E ins \in [1..c.arity -> TensorId], s \in Shape : AddOp(c, ins, s)
    \/ \E x \in TensorId : MarkOutput(x)

-----------------------------------------------------------------------------
Node == [op : Op, inputs : Seq(Nat), output : Nat, weights : Weights, factor : Int]

GraphTypeOK ==
    /\ tensors \in Seq([shape : Shape, producer : Nat])
    /\ nodes \in Seq(Node)
    /\ inputs \in Seq(Nat)
    /\ outputs \in Seq(Nat)

\* A graph built through the interface is acyclic and closed: a node reads
\* only tensors that were there before its own output, and every tensor is a
\* graph input or the output of the node it names as its producer.
WellFormed ==
    /\ \A i \in NodeId :
         /\ nodes[i].output \in TensorId
         /\ tensors[nodes[i].output].producer = i
         /\ \A j \in 1..Len(nodes[i].inputs) : nodes[i].inputs[j] \in 1..(nodes[i].output - 1)
    /\ \A i, k \in NodeId : i < k => nodes[i].output < nodes[k].output
    /\ \A x \in TensorId :
         \/ tensors[x].producer = 0 /\ \E k \in 1..Len(inputs) : inputs[k] = x
         \/ tensors[x].producer \in NodeId /\ nodes[tensors[x].producer].output = x
    /\ \A k \in 1..Len(inputs) : inputs[k] \in TensorId /\ tensors[inputs[k]].producer = 0
    /\ \A k \in 1..Len(outputs) : outputs[k] \in TensorId
=============================================================================
