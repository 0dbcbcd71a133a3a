------------------------- MODULE FusionRulesProofs --------------------------
(***************************************************************************)
(* Proofs about the planner (PlanSpec), for every number of inputs, nodes  *)
(* and outputs and every set of calls: the graph stays closed and acyclic, *)
(* Kahn's loop accepts it, and compute_groups partitions its nodes into    *)
(* groups that hide no tensor anybody else reads and that find all their   *)
(* inputs.  The facts about building and validating a graph come first;    *)
(* the theorems about the executor and the backends rest on all of them.   *)
(* After the theorems come the lemmas about MIL programs: what running a   *)
(* body settles, and what each emitter's fragment defines, reads, names    *)
(* and declares.  RoutingBackendProofs puts them together.                 *)
(***************************************************************************)
EXTENDS FusionRules, MilFragment, TLAPS, FiniteSetTheorems, SequenceTheorems, WellFoundedInduction

-----------------------------------------------------------------------------
(* Numbers and sequences                                                    *)

\* A set of naturals that is not empty has a least element.
LEMMA Least ==
    ASSUME NEW Z \in SUBSET Nat, Z # {}
    PROVE  \E m \in Z : \A k \in Z : m <= k
<1>1. PICK m \in Z : \A k \in Z : ~(<<k, m>> \in OpToRel(<, Nat))
  BY NatLessThanWellFounded, WFMin
<1>2. \A k \in Z : ~(k < m)
  BY <1>1 DEF OpToRel
<1> QED BY <1>2

\* The set of the elements of a sequence.
LEMMA ToSetIs ==
    ASSUME NEW S, NEW s \in Seq(S)
    PROVE  /\ ToSet(s) \subseteq S
           /\ \A x : x \in ToSet(s) <=> \E i \in 1 .. Len(s) : s[i] = x
BY DEF ToSet

\* The rank of an element tells it from the others, and every rank up to the
\* number of elements is taken.
LEMMA Ranks ==
    ASSUME NEW n \in Nat, NEW S \in SUBSET (1 .. n)
    PROVE  /\ Cardinality(S) \in Nat
           /\ \A x \in S : Cardinality({y \in S : y < x}) \in 0 .. (Cardinality(S) - 1)
           /\ \A x, z \in S :
                Cardinality({y \in S : y < x}) = Cardinality({y \in S : y < z}) => x = z
           /\ \A k \in 0 .. (Cardinality(S) - 1) :
                \E x \in S : Cardinality({y \in S : y < x}) = k
<1> DEFINE c == Cardinality(S)
           below(x) == {y \in S : y < x}
           rank == [x \in S |-> Cardinality(below(x))]
<1>1. IsFiniteSet(S) /\ c \in Nat
  <2>1. IsFiniteSet(1 .. n)
    BY FS_Interval
  <2> QED BY <2>1, FS_Subset, FS_CardinalityType
<1>2. \A x \in S : IsFiniteSet(below(x)) /\ Cardinality(below(x)) \in Nat
  <2>1. \A x \in S : below(x) \in SUBSET S
    OBVIOUS
  <2> HIDE DEF below
  <2> QED BY <1>1, <2>1, FS_Subset, FS_CardinalityType
<1>3. ASSUME NEW x \in S PROVE Cardinality(below(x)) < c
  <2>1. below(x) \in SUBSET (S \ {x})
    OBVIOUS
  <2>2. IsFiniteSet(S \ {x}) /\ Cardinality(S \ {x}) = c - 1
    BY <1>1, FS_RemoveElement
  <2>3. Cardinality(below(x)) <= Cardinality(S \ {x})
    <3> HIDE DEF below
    <3> QED BY <2>1, <2>2, FS_Subset
  <2> HIDE DEF below
  <2> QED BY <1>1, <1>2, <2>2, <2>3
<1>4. ASSUME NEW x \in S, NEW z \in S, x < z
      PROVE  Cardinality(below(x)) < Cardinality(below(z))
  <2>1. below(x) \in SUBSET (below(z) \ {x}) /\ x \in below(z)
    <3>1. x \in Int /\ z \in Int
      OBVIOUS
    <3>2. \A y \in S : y < x => y \in Int /\ y < z /\ y # x
      BY <1>4, <3>1
    <3> QED BY <1>4, <3>2
  <2> HIDE DEF below
  <2>2. /\ IsFiniteSet(below(z) \ {x})
        /\ Cardinality(below(z) \ {x}) = Cardinality(below(z)) - 1
    BY <1>2, <2>1, FS_RemoveElement
  <2>3. Cardinality(below(x)) <= Cardinality(below(z) \ {x})
    BY <2>1, <2>2, FS_Subset
  <2> QED BY <1>2, <2>2, <2>3
<1>5. \A x, z \in S : Cardinality(below(x)) = Cardinality(below(z)) => x = z
  <2> SUFFICES ASSUME NEW x \in S, NEW z \in S, Cardinality(below(x)) = Cardinality(below(z)), x # z
               PROVE  FALSE
    OBVIOUS
  <2>1. x < z \/ z < x
    OBVIOUS
  <2> HIDE DEF below
  <2> QED BY <1>2, <1>4, <2>1
<1> HIDE DEF below
<1>6. \A x \in S : Cardinality(below(x)) \in 0 .. (c - 1)
  BY <1>1, <1>2, <1>3
<1>7. rank \in Injection(S, 0 .. (c - 1))
  BY <1>5, <1>6 DEF Injection, IsInjective
<1>8. IsFiniteSet(0 .. (c - 1)) /\ Cardinality(0 .. (c - 1)) = c
  BY <1>1, FS_Interval, SMTT(30)
<1>9. rank \in Surjection(S, 0 .. (c - 1))
  <2> HIDE DEF rank
  <2> QED BY <1>7, <1>8, FS_Injection
<1>10. \A k \in 0 .. (c - 1) : \E x \in S : Cardinality(below(x)) = k
  BY <1>9 DEF Surjection
<1> QED BY <1>1, <1>5, <1>6, <1>10 DEF below

\* InOrder lists a set of node ids, each once.
LEMMA InOrderRight ==
    ASSUME NEW n \in Nat, NEW S \in SUBSET (1 .. n)
    PROVE  /\ InOrder(S) \in Seq(S)
           /\ Len(InOrder(S)) = Cardinality(S)
           /\ \A p, q \in 1 .. Len(InOrder(S)) : InOrder(S)[p] = InOrder(S)[q] => p = q
           /\ \A x \in S : \E p \in 1 .. Len(InOrder(S)) : InOrder(S)[p] = x
<1> DEFINE c == Cardinality(S)
           rank(x) == Cardinality({y \in S : y < x})
           s == InOrder(S)
<1>1. /\ c \in Nat
      /\ \A x \in S : rank(x) \in 0 .. (c - 1)
      /\ \A x, z \in S : rank(x) = rank(z) => x = z
      /\ \A k \in 0 .. (c - 1) : \E x \in S : rank(x) = k
  BY Ranks
<1>2. s = [k \in 1 .. c |-> CHOOSE x \in S : rank(x) = k - 1]
  BY DEF InOrder
<1> HIDE DEF s, rank, c
<1>3. \A k \in 1 .. c : s[k] \in S /\ rank(s[k]) = k - 1
  <2> TAKE k \in 1 .. c
  <2>1. k - 1 \in 0 .. (c - 1)
    BY <1>1
  <2>2. \E x \in S : rank(x) = k - 1
    BY <1>1, <2>1
  <2>3. s[k] = CHOOSE x \in S : rank(x) = k - 1
    BY <1>2
  <2> QED BY <2>2, <2>3
<1>4. s \in [1 .. c -> S]
  BY <1>2, <1>3
<1>5. s \in Seq(S) /\ Len(s) = c
  BY <1>1, <1>4
<1>6. \A p, q \in 1 .. c : s[p] = s[q] => p = q
  <2> TAKE p, q \in 1 .. c
  <2>1. s[p] = s[q] => p - 1 = q - 1
    BY <1>3
  <2> QED BY <1>1, <2>1
<1>7. \A x \in S : \E p \in 1 .. c : s[p] = x
  <2> TAKE x \in S
  <2>1. rank(x) + 1 \in 1 .. c /\ (rank(x) + 1) - 1 = rank(x)
    BY <1>1
  <2>2. rank(s[rank(x) + 1]) = rank(x) /\ s[rank(x) + 1] \in S
    BY <1>3, <2>1
  <2>3. s[rank(x) + 1] = x
    BY <1>1, <2>2
  <2> QED BY <2>1, <2>3
<1> QED BY <1>5, <1>6, <1>7 DEF s, c
-----------------------------------------------------------------------------
(* The graph                                                                *)

GraphInv == GraphTypeOK /\ WellFormed

TensorRec == [shape : Shape, producer : Nat]

\* The lists of a graph, as functions.
LEMMA Lists ==
    ASSUME GraphInv
    PROVE  /\ Len(tensors) \in Nat /\ DOMAIN tensors = 1 .. Len(tensors)
           /\ Len(nodes) \in Nat /\ DOMAIN nodes = 1 .. Len(nodes)
           /\ Len(inputs) \in Nat /\ DOMAIN inputs = 1 .. Len(inputs)
           /\ Len(outputs) \in Nat /\ DOMAIN outputs = 1 .. Len(outputs)
           /\ \A x \in TensorId : tensors[x] \in TensorRec
           /\ \A i \in NodeId :
                /\ nodes[i] \in Node
                /\ nodes[i].inputs \in Seq(Nat)
                /\ Len(nodes[i].inputs) \in Nat
                /\ DOMAIN nodes[i].inputs = 1 .. Len(nodes[i].inputs)
                /\ nodes[i].output \in Nat
<1>1. /\ tensors \in Seq(TensorRec)
      /\ nodes \in Seq(Node)
      /\ inputs \in Seq(Nat)
      /\ outputs \in Seq(Nat)
  BY DEF GraphInv, GraphTypeOK, TensorRec
<1>2. /\ Len(tensors) \in Nat /\ DOMAIN tensors = 1 .. Len(tensors)
      /\ \A x \in TensorId : tensors[x] \in TensorRec
  BY <1>1 DEF TensorId
<1>3. /\ Len(nodes) \in Nat /\ DOMAIN nodes = 1 .. Len(nodes)
      /\ \A i \in NodeId : nodes[i] \in Node
  BY <1>1 DEF NodeId
<1>4. \A i \in NodeId : nodes[i].inputs \in Seq(Nat) /\ nodes[i].output \in Nat
  BY <1>3 DEF Node
<1> QED BY <1>1, <1>2, <1>3, <1>4

\* libane_graph_add_input keeps the graph closed and acyclic.
LEMMA AddInputKeeps ==
    ASSUME GraphInv, NEW s \in Shape, AddInput(s)
    PROVE  GraphInv'
<1>1. /\ tensors' = Append(tensors, [shape |-> s, producer |-> 0])
      /\ inputs' = Append(inputs, Len(tensors) + 1)
      /\ nodes' = nodes /\ outputs' = outputs
  BY DEF AddInput
<1>2. /\ tensors \in Seq(TensorRec) /\ nodes \in Seq(Node)
      /\ inputs \in Seq(Nat) /\ outputs \in Seq(Nat)
  BY DEF GraphInv, GraphTypeOK, TensorRec
<1>3. [shape |-> s, producer |-> 0] \in TensorRec
  BY DEF TensorRec
<1>4. /\ tensors' \in Seq(TensorRec)
      /\ Len(tensors') = Len(tensors) + 1
      /\ \A x \in 1 .. Len(tensors) : tensors'[x] = tensors[x]
      /\ tensors'[Len(tensors) + 1] = [shape |-> s, producer |-> 0]
  BY <1>1, <1>2, <1>3, AppendProperties
<1>5. /\ inputs' \in Seq(Nat)
      /\ Len(inputs') = Len(inputs) + 1
      /\ \A k \in 1 .. Len(inputs) : inputs'[k] = inputs[k]
      /\ inputs'[Len(inputs) + 1] = Len(tensors) + 1
  BY <1>1, <1>2, AppendProperties
<1>6. Len(tensors) \in Nat /\ Len(inputs) \in Nat /\ Len(nodes) \in Nat /\ Len(outputs) \in Nat
  BY <1>2
<1>7. GraphTypeOK'
  BY <1>1, <1>2, <1>4, <1>5 DEF GraphTypeOK, TensorRec
<1>8. WellFormed'
  <2>1. \A i \in NodeId' :
          /\ nodes'[i].output \in TensorId'
          /\ tensors'[nodes'[i].output].producer = i
          /\ \A j \in 1 .. Len(nodes'[i].inputs) : nodes'[i].inputs[j] \in 1 .. (nodes'[i].output - 1)
    BY <1>1, <1>4, <1>6 DEF GraphInv, WellFormed, NodeId, TensorId
  <2>2. \A i, k \in NodeId' : i < k => nodes'[i].output < nodes'[k].output
    BY <1>1 DEF GraphInv, WellFormed, NodeId
  <2>3. ASSUME NEW x \in TensorId'
        PROVE  \/ tensors'[x].producer = 0 /\ \E k \in 1 .. Len(inputs') : inputs'[k] = x
               \/ tensors'[x].producer \in NodeId' /\ nodes'[tensors'[x].producer].output = x
    <3>1. CASE x \in TensorId
      BY <1>1, <1>4, <1>5, <1>6, <3>1 DEF GraphInv, WellFormed, NodeId, TensorId
    <3>2. CASE x = Len(tensors) + 1
      BY <1>4, <1>5, <1>6, <3>2
    <3> QED BY <1>4, <1>6, <3>1, <3>2 DEF TensorId
  <2>4. \A k \in 1 .. Len(inputs') : inputs'[k] \in TensorId' /\ tensors'[inputs'[k]].producer = 0
    <3> TAKE k \in 1 .. Len(inputs')
    <3>1. CASE k \in 1 .. Len(inputs)
      <4>1. inputs[k] \in 1 .. Len(tensors) /\ tensors[inputs[k]].producer = 0
        BY <3>1 DEF GraphInv, WellFormed, TensorId
      <4>2. inputs'[k] = inputs[k] /\ tensors'[inputs[k]] = tensors[inputs[k]]
        BY <1>4, <1>5, <3>1, <4>1
      <4> QED BY <1>4, <1>6, <4>1, <4>2 DEF TensorId
    <3>2. CASE k = Len(inputs) + 1
      BY <1>4, <1>5, <1>6, <3>2 DEF TensorId
    <3> QED BY <1>5, <1>6, <3>1, <3>2
  <2>5. \A k \in 1 .. Len(outputs') : outputs'[k] \in TensorId'
    BY <1>1, <1>4, <1>6 DEF GraphInv, WellFormed, TensorId
  <2> QED BY <2>1, <2>2, <2>3, <2>4, <2>5 DEF WellFormed
<1> QED BY <1>7, <1>8 DEF GraphInv

\* libane_graph_add_op reads tensors that are there and makes the next one.
LEMMA AddOpKeeps ==
    ASSUME GraphInv, NEW c \in Call, NEW ins \in [1 .. c.arity -> TensorId], NEW s \in Shape,
           AddOp(c, ins, s)
    PROVE  GraphInv'
<1> DEFINE n == [op |-> c.op, inputs |-> ins, output |-> Len(tensors) + 1,
                 weights |-> c.weights, factor |-> c.factor]
           t == [shape |-> s, producer |-> Len(nodes) + 1]
<1>1. /\ tensors' = Append(tensors, t) /\ nodes' = Append(nodes, n)
      /\ inputs' = inputs /\ outputs' = outputs
  BY DEF AddOp
<1>2. /\ tensors \in Seq(TensorRec) /\ nodes \in Seq(Node)
      /\ inputs \in Seq(Nat) /\ outputs \in Seq(Nat)
  BY DEF GraphInv, GraphTypeOK, TensorRec
<1>3. Len(tensors) \in Nat /\ Len(inputs) \in Nat /\ Len(nodes) \in Nat /\ Len(outputs) \in Nat
  BY <1>2
<1>4. c \in [op : Op, arity : Nat, weights : Weights, factor : Int]
  BY GraphAssumption
<1>5. /\ ins \in Seq(Nat) /\ Len(ins) = c.arity
      /\ \A j \in 1 .. Len(ins) : ins[j] \in 1 .. Len(tensors)
  <2>1. c.arity \in Nat
    BY <1>4
  <2>2. TensorId \subseteq Nat
    BY <1>3 DEF TensorId
  <2>3. ins \in [1 .. c.arity -> Nat]
    BY <2>2
  <2> QED BY <2>1, <2>3 DEF TensorId
<1>6. n \in Node
  BY <1>3, <1>4, <1>5 DEF Node
<1>7. t \in TensorRec
  BY <1>3 DEF TensorRec
<1>8. n.inputs = ins /\ n.output = Len(tensors) + 1 /\ t.producer = Len(nodes) + 1
  OBVIOUS
<1> HIDE DEF n, t
<1>9. /\ tensors' \in Seq(TensorRec)
      /\ Len(tensors') = Len(tensors) + 1
      /\ \A x \in 1 .. Len(tensors) : tensors'[x] = tensors[x]
      /\ tensors'[Len(tensors) + 1] = t
  BY <1>1, <1>2, <1>7, AppendProperties
<1>10. /\ nodes' \in Seq(Node)
       /\ Len(nodes') = Len(nodes) + 1
       /\ \A i \in 1 .. Len(nodes) : nodes'[i] = nodes[i]
       /\ nodes'[Len(nodes) + 1] = n
  BY <1>1, <1>2, <1>6, AppendProperties
<1>11. GraphTypeOK'
  BY <1>1, <1>2, <1>9, <1>10 DEF GraphTypeOK, TensorRec
<1>12. /\ NodeId' = 1 .. (Len(nodes) + 1) /\ TensorId' = 1 .. (Len(tensors) + 1)
       /\ NodeId = 1 .. Len(nodes) /\ TensorId = 1 .. Len(tensors)
  BY <1>9, <1>10 DEF NodeId, TensorId
<1>13. \A i \in NodeId' : i \in NodeId \/ i = Len(nodes) + 1
  BY <1>3, <1>12
<1>14. WellFormed
  BY DEF GraphInv
<1>15. WellFormed'
  <2>1. ASSUME NEW i \in NodeId'
        PROVE  /\ nodes'[i].output \in TensorId'
               /\ tensors'[nodes'[i].output].producer = i
               /\ \A j \in 1 .. Len(nodes'[i].inputs) : nodes'[i].inputs[j] \in 1 .. (nodes'[i].output - 1)
    <3>1. CASE i \in NodeId
      <4>1. /\ nodes[i].output \in 1 .. Len(tensors)
            /\ tensors[nodes[i].output].producer = i
            /\ \A j \in 1 .. Len(nodes[i].inputs) : nodes[i].inputs[j] \in 1 .. (nodes[i].output - 1)
        BY <1>12, <1>14, <3>1 DEF WellFormed
      <4> QED BY <1>3, <1>9, <1>10, <1>12, <3>1, <4>1, SMTT(30)
    <3>2. CASE i = Len(nodes) + 1
      <4>1. nodes'[i] = n
        BY <1>10, <3>2
      <4>2. nodes'[i].output = Len(tensors) + 1 /\ nodes'[i].inputs = ins
        BY <1>8, <4>1
      <4>3. \A j \in 1 .. Len(ins) : ins[j] \in 1 .. ((Len(tensors) + 1) - 1)
        BY <1>3, <1>5
      <4> QED BY <1>3, <1>8, <1>9, <1>12, <3>2, <4>2, <4>3
    <3> QED BY <1>13, <3>1, <3>2
  <2>2. ASSUME NEW i \in NodeId', NEW k \in NodeId', i < k
        PROVE  nodes'[i].output < nodes'[k].output
    <3>1. i \in NodeId
      BY <1>3, <1>12, <2>2
    <3>2. nodes'[i].output = nodes[i].output /\ nodes[i].output \in 1 .. Len(tensors)
      BY <1>10, <1>12, <1>14, <3>1 DEF WellFormed
    <3>3. CASE k \in NodeId
      BY <1>10, <1>12, <1>14, <2>2, <3>1, <3>2, <3>3 DEF WellFormed
    <3>4. CASE k = Len(nodes) + 1
      BY <1>3, <1>8, <1>10, <3>2, <3>4
    <3> QED BY <1>13, <3>3, <3>4
  <2>3. ASSUME NEW x \in TensorId'
        PROVE  \/ tensors'[x].producer = 0 /\ \E k \in 1 .. Len(inputs') : inputs'[k] = x
               \/ tensors'[x].producer \in NodeId' /\ nodes'[tensors'[x].producer].output = x
    <3>1. CASE x \in TensorId
      <4>1. tensors'[x] = tensors[x]
        BY <1>9, <1>12, <3>1
      <4>2. CASE tensors[x].producer = 0 /\ \E k \in 1 .. Len(inputs) : inputs[k] = x
        BY <1>1, <4>1, <4>2
      <4>3. CASE tensors[x].producer \in NodeId /\ nodes[tensors[x].producer].output = x
        BY <1>3, <1>10, <1>12, <4>1, <4>3
      <4> QED BY <1>14, <3>1, <4>2, <4>3 DEF WellFormed
    <3>2. CASE x = Len(tensors) + 1
      BY <1>3, <1>8, <1>9, <1>10, <1>12, <3>2
    <3> QED BY <1>3, <1>12, <3>1, <3>2
  <2>4. \A k \in 1 .. Len(inputs') : inputs'[k] \in TensorId' /\ tensors'[inputs'[k]].producer = 0
    BY <1>1, <1>3, <1>9, <1>12, <1>14 DEF WellFormed
  <2>5. \A k \in 1 .. Len(outputs') : outputs'[k] \in TensorId'
    BY <1>1, <1>3, <1>12, <1>14 DEF WellFormed
  <2> QED BY <2>1, <2>2, <2>3, <2>4, <2>5 DEF WellFormed
<1> QED BY <1>11, <1>15 DEF GraphInv

\* libane_graph_mark_output names a tensor that is there.
LEMMA MarkOutputKeeps ==
    ASSUME GraphInv, NEW x \in TensorId, MarkOutput(x)
    PROVE  GraphInv'
<1>1. outputs' = Append(outputs, x) /\ tensors' = tensors /\ nodes' = nodes /\ inputs' = inputs
  BY DEF MarkOutput
<1>2. /\ tensors \in Seq(TensorRec) /\ nodes \in Seq(Node)
      /\ inputs \in Seq(Nat) /\ outputs \in Seq(Nat)
  BY DEF GraphInv, GraphTypeOK, TensorRec
<1>3. Len(outputs) \in Nat /\ x \in Nat
  BY <1>2 DEF TensorId
<1>4. /\ outputs' \in Seq(Nat)
      /\ Len(outputs') = Len(outputs) + 1
      /\ \A k \in 1 .. Len(outputs) : outputs'[k] = outputs[k]
      /\ outputs'[Len(outputs) + 1] = x
  BY <1>1, <1>2, <1>3, AppendProperties
<1>5. GraphTypeOK'
  BY <1>1, <1>2, <1>4 DEF GraphTypeOK, TensorRec
<1>6. \A k \in 1 .. Len(outputs') : outputs'[k] \in TensorId'
  <2> TAKE k \in 1 .. Len(outputs')
  <2>1. k \in 1 .. Len(outputs) \/ k = Len(outputs) + 1
    BY <1>3, <1>4
  <2> QED BY <1>1, <1>4, <2>1 DEF GraphInv, WellFormed, TensorId
<1>7. WellFormed'
  BY <1>1, <1>6 DEF GraphInv, WellFormed, NodeId, TensorId
<1> QED BY <1>5, <1>7 DEF GraphInv

LEMMA GraphStarts == GraphInit => GraphInv
<1> SUFFICES ASSUME GraphInit PROVE GraphInv
  OBVIOUS
<1>1. tensors = <<>> /\ nodes = <<>> /\ inputs = <<>> /\ outputs = <<>>
  BY DEF GraphInit
<1>2. Len(<<>>) = 0
  OBVIOUS
<1>3. GraphTypeOK
  BY <1>1 DEF GraphTypeOK
<1>4. NodeId = {} /\ TensorId = {} /\ 1 .. Len(inputs) = {} /\ 1 .. Len(outputs) = {}
  BY <1>1, <1>2 DEF NodeId, TensorId
<1> QED BY <1>3, <1>4 DEF GraphInv, WellFormed

LEMMA BuildKeeps == GraphInv /\ Build => GraphInv'
BY AddInputKeeps, AddOpKeeps, MarkOutputKeeps DEF Build

LEMMA GraphSame == GraphInv /\ UNCHANGED graphVars => GraphInv'
BY DEF graphVars, GraphInv, GraphTypeOK, WellFormed, NodeId, TensorId

-----------------------------------------------------------------------------
(* check_edges and check_reachability                                       *)

\* A tensor that node i reads is a graph input or the output of an earlier
\* node.
LEMMA ReadsEarlier ==
    ASSUME GraphInv, NEW i \in NodeId, NEW j \in DOMAIN nodes[i].inputs
    PROVE  LET x == nodes[i].inputs[j] IN
           /\ x \in TensorId
           /\ \/ tensors[x].producer = 0 /\ x \in ToSet(inputs)
              \/ /\ tensors[x].producer \in 1 .. (i - 1)
                 /\ nodes[tensors[x].producer].output = x
<1> DEFINE x == nodes[i].inputs[j]
           k == tensors[x].producer
<1>1. j \in 1 .. Len(nodes[i].inputs) /\ i \in Nat
  BY Lists DEF NodeId
<1>2. /\ nodes[i].output \in TensorId
      /\ x \in 1 .. (nodes[i].output - 1)
  BY <1>1 DEF GraphInv, WellFormed
<1>3. x \in TensorId /\ x < nodes[i].output
  <2>1. Len(tensors) \in Nat /\ nodes[i].output \in 1 .. Len(tensors)
    BY <1>2, Lists DEF TensorId
  <2> HIDE DEF x
  <2> QED BY <1>2, <2>1 DEF TensorId
<1>4. \/ k = 0 /\ \E m \in 1 .. Len(inputs) : inputs[m] = x
      \/ k \in NodeId /\ nodes[k].output = x
  BY <1>3 DEF GraphInv, WellFormed
<1>5. k \in NodeId /\ nodes[k].output = x => k \in 1 .. (i - 1)
  <2> SUFFICES ASSUME k \in NodeId, nodes[k].output = x, ~(k < i) PROVE FALSE
    BY <1>1, Lists, SMTT(30) DEF NodeId
  <2>1. k = i \/ i < k
    BY <1>1, Lists DEF NodeId
  <2>2. i < k => nodes[i].output < nodes[k].output
    BY DEF GraphInv, WellFormed
  <2>3. nodes[i].output \in Nat /\ nodes[k].output \in Nat
    BY Lists
  <2> QED BY <1>3, <2>1, <2>2, <2>3
<1>6. \A m \in 1 .. Len(inputs) : inputs[m] \in ToSet(inputs)
  BY Lists DEF ToSet
<1> QED BY <1>3, <1>4, <1>5, <1>6

\* check_edges finds nothing.
LEMMA EdgesFine == GraphInv => CheckEdges
<1> SUFFICES ASSUME GraphInv PROVE CheckEdges
  OBVIOUS
<1>1. ASSUME NEW i \in NodeId, NEW j \in DOMAIN nodes[i].inputs
      PROVE  nodes[i].inputs[j] \in DefinedBefore(i)
  BY ReadsEarlier DEF DefinedBefore
<1>2. ASSUME NEW k \in DOMAIN outputs
      PROVE  outputs[k] \in DefinedBefore(Len(nodes) + 1)
  <2>1. outputs[k] \in TensorId
    BY Lists DEF GraphInv, WellFormed
  <2>2. \/ \E m \in 1 .. Len(inputs) : inputs[m] = outputs[k]
        \/ \E i \in NodeId : nodes[i].output = outputs[k]
    BY <2>1 DEF GraphInv, WellFormed
  <2>3. NodeId = 1 .. ((Len(nodes) + 1) - 1) /\ DOMAIN inputs = 1 .. Len(inputs)
    BY Lists DEF NodeId
  <2> QED BY <2>2, <2>3 DEF DefinedBefore, ToSet
<1> QED BY <1>1, <1>2 DEF CheckEdges

\* check_reachability's pass reaches every tensor: its function is the one
\* that adds the outputs of the nodes one after the other.
LEMMA ReachableAll ==
    ASSUME GraphInv
    PROVE  Reachable = DefinedBefore(Len(nodes) + 1)
<1> DEFINE n == Len(nodes)
           D(i) == DefinedBefore(i + 1)
           Fits(i, r) == \A j \in DOMAIN nodes[i].inputs : nodes[i].inputs[j] \in r
           F(R) == [i \in 0 .. n |->
                      IF i = 0 THEN ToSet(inputs)
                      ELSE IF Fits(i, R[i - 1]) THEN R[i - 1] \cup {nodes[i].output} ELSE R[i - 1]]
           W == [i \in 0 .. n |-> D(i)]
           R == CHOOSE R : R = F(R)
<1>1. n \in Nat /\ NodeId = 1 .. n
  BY Lists DEF NodeId
<1>2. Reachable = R[n]
  BY DEF Reachable
<1>3. D(0) = ToSet(inputs)
  BY DEF DefinedBefore
<1>4. ASSUME NEW i \in 1 .. n
      PROVE  D(i) = D(i - 1) \cup {nodes[i].output} /\ Fits(i, D(i - 1))
  <2>1. (i - 1) + 1 = i /\ (i + 1) - 1 = i /\ i \in NodeId
    BY <1>1
  <2>2. Fits(i, DefinedBefore(i))
    BY <2>1, EdgesFine DEF CheckEdges
  <2>3. 1 .. i = (1 .. (i - 1)) \cup {i}
    BY <1>1
  <2>4. {nodes[k].output : k \in 1 .. i} = {nodes[k].output : k \in 1 .. (i - 1)} \cup {nodes[i].output}
    BY <2>3
  <2>5. DefinedBefore(i + 1) = DefinedBefore(i) \cup {nodes[i].output}
    BY <2>1, <2>4 DEF DefinedBefore
  <2> HIDE DEF Fits
  <2> QED BY <2>1, <2>2, <2>5
<1> HIDE DEF D, Fits
<1>5. W = F(W)
  <2>1. ASSUME NEW i \in 0 .. n PROVE W[i] = F(W)[i]
    <3>1. CASE i = 0
      BY <1>3, <3>1
    <3>2. CASE i \in 1 .. n
      <4>1. i - 1 \in 0 .. n /\ i # 0
        BY <1>1, <3>2
      <4>2. W[i - 1] = D(i - 1) /\ W[i] = D(i)
        BY <4>1
      <4> QED BY <1>4, <3>2, <4>1, <4>2
    <3> QED BY <1>1, <3>1, <3>2
  <2> QED BY <2>1
<1>6. R = F(R)
  <2> HIDE DEF F, W
  <2> QED BY <1>5
<1> HIDE DEF R
<1>7. \A i \in 0 .. n : R[i] = D(i)
  <2> DEFINE Bad == {i \in 0 .. n : R[i] # D(i)}
  <2> SUFFICES ASSUME Bad # {} PROVE FALSE
    OBVIOUS
  <2>1. PICK i \in Bad : \A k \in Bad : i <= k
    <3>1. Bad \in SUBSET Nat
      BY <1>1
    <3> HIDE DEF Bad
    <3> QED BY <3>1, Least
  <2>2. i \in 0 .. n /\ R[i] # D(i)
    OBVIOUS
  <2>3. CASE i = 0
    <3>1. R[0] = F(R)[0]
      BY <1>6
    <3> QED BY <1>1, <1>3, <2>2, <2>3, <3>1
  <2>4. CASE i \in 1 .. n
    <3>1. i - 1 \in 0 .. n /\ i # 0 /\ ~(i <= i - 1)
      BY <1>1, <2>4
    <3>2. R[i - 1] = D(i - 1)
      BY <2>1, <3>1
    <3>3. R[i] = F(R)[i]
      BY <1>6
    <3>4. F(R)[i] = IF Fits(i, R[i - 1]) THEN R[i - 1] \cup {nodes[i].output} ELSE R[i - 1]
      BY <2>2, <3>1
    <3> QED BY <1>4, <2>2, <2>4, <3>2, <3>3, <3>4
  <2> QED BY <1>1, <2>2, <2>3, <2>4
<1>8. n \in 0 .. n
  BY <1>1
<1> QED BY <1>2, <1>7, <1>8 DEF D

\* check_reachability finds nothing.
LEMMA ReachabilityFine == GraphInv => CheckReachability
BY EdgesFine, ReachableAll DEF CheckEdges, CheckReachability

-----------------------------------------------------------------------------
(* check_topo                                                               *)

\* What Kahn's loop keeps, for a queue q, the nodes d taken from it, and the
\* degrees deg: a degree counts the predecessors that are not taken yet, a
\* node is in d or q exactly when it has none left, and it comes after all of
\* them.
Kahn(d, q, deg) ==
    /\ d \in Seq(NodeId) /\ q \in Seq(NodeId) /\ deg \in [NodeId -> Nat]
    /\ \A i \in NodeId : deg[i] = Cardinality(Predecessors(i) \ ToSet(d))
    /\ IsInjective(d \o q)
    /\ \A i \in NodeId : i \in ToSet(d \o q) <=> Predecessors(i) \subseteq ToSet(d)
    /\ \A p \in DOMAIN (d \o q) : \A k \in Predecessors((d \o q)[p]) :
         \E r \in 1 .. (p - 1) : (d \o q)[r] = k

\* A node has finitely many predecessors, all before it.
LEMMA PredecessorsFinite ==
    ASSUME GraphInv, NEW i \in NodeId, NEW D
    PROVE  /\ Predecessors(i) \subseteq 1 .. (i - 1)
           /\ Predecessors(i) \subseteq NodeId
           /\ IsFiniteSet(Predecessors(i) \ D)
           /\ Cardinality(Predecessors(i) \ D) \in Nat
<1>1. \A k \in Predecessors(i) : k \in NodeId /\ k \in 1 .. (i - 1)
  <2> TAKE k \in Predecessors(i)
  <2>1. k \in NodeId /\ \E j \in DOMAIN nodes[i].inputs : nodes[i].inputs[j] = nodes[k].output
    BY DEF Predecessors
  <2>2. PICK j \in DOMAIN nodes[i].inputs : nodes[i].inputs[j] = nodes[k].output
    BY <2>1
  <2>3. tensors[nodes[k].output].producer = k
    BY <2>1 DEF GraphInv, WellFormed
  <2>4. k # 0
    BY <2>1, Lists DEF NodeId
  <2>5. tensors[nodes[k].output].producer = 0 \/ tensors[nodes[k].output].producer \in 1 .. (i - 1)
    BY <2>2, ReadsEarlier
  <2> QED BY <2>1, <2>3, <2>4, <2>5
<1>2. IsFiniteSet(NodeId)
  <2>1. Len(nodes) \in Nat /\ NodeId = 1 .. Len(nodes)
    BY Lists DEF NodeId
  <2> QED BY <2>1, FS_Interval
<1>3. Predecessors(i) \ D \in SUBSET NodeId
  BY <1>1
<1>4. IsFiniteSet(Predecessors(i) \ D)
  BY <1>2, <1>3, FS_Subset
<1> QED BY <1>1, <1>4, FS_CardinalityType

\* Taking the head of the queue and adding to its end only lengthens the list
\* of the nodes taken and waiting.
LEMMA OrderGrows ==
    ASSUME NEW S, NEW d \in Seq(S), NEW q \in Seq(S), q # <<>>, NEW u \in Seq(S)
    PROVE  /\ Append(d, Head(q)) \in Seq(S) /\ Tail(q) \o u \in Seq(S)
           /\ Append(d, Head(q)) \o (Tail(q) \o u) = (d \o q) \o u
<1>1. Head(q) \in S /\ Tail(q) \in Seq(S) /\ <<Head(q)>> \in Seq(S)
  BY HeadTailProperties
<1>2. Append(d, Head(q)) \in Seq(S) /\ Append(d, Head(q)) = d \o <<Head(q)>>
  BY <1>1, AppendProperties, AppendIsConcat
<1>3. Tail(q) \o u \in Seq(S) /\ d \o q \in Seq(S)
  BY <1>1, ConcatProperties
<1>4. <<Head(q)>> \o Tail(q) = q
  OBVIOUS
<1>5. <<Head(q)>> \o (Tail(q) \o u) = q \o u
  BY <1>1, <1>4, ConcatAssociative
<1>6. (d \o <<Head(q)>>) \o (Tail(q) \o u) = d \o (<<Head(q)>> \o (Tail(q) \o u))
  BY <1>1, <1>3, ConcatAssociative, SMTT(30)
<1>7. d \o (q \o u) = (d \o q) \o u
  BY ConcatAssociative
<1> QED BY <1>2, <1>3, <1>5, <1>6, <1>7

\* The loop starts with the nodes that have no predecessor.
LEMMA KahnStarts ==
    ASSUME GraphInv
    PROVE  Kahn(<<>>, InOrder({i \in NodeId : InDegree(i) = 0}), [i \in NodeId |-> InDegree(i)])
<1> DEFINE Z == {i \in NodeId : InDegree(i) = 0}
           q == InOrder(Z)
<1>1. Len(nodes) \in Nat /\ NodeId = 1 .. Len(nodes)
  BY Lists DEF NodeId
<1>2. ToSet(<<>>) = {} /\ Len(<<>>) = 0
  BY DEF ToSet
<1>3. \A i \in NodeId : Predecessors(i) \ {} = Predecessors(i)
  OBVIOUS
<1>4. \A i \in NodeId : /\ InDegree(i) = Cardinality(Predecessors(i) \ ToSet(<<>>))
                        /\ InDegree(i) \in Nat
                        /\ InDegree(i) = 0 <=> Predecessors(i) = {}
  BY <1>2, <1>3, PredecessorsFinite, FS_EmptySet DEF InDegree
<1>5. Z \in SUBSET (1 .. Len(nodes))
  BY <1>1
<1> HIDE DEF Z
<1>6. /\ q \in Seq(Z)
      /\ \A p, r \in 1 .. Len(q) : q[p] = q[r] => p = r
      /\ \A x \in Z : \E p \in 1 .. Len(q) : q[p] = x
  BY <1>1, <1>5, InOrderRight
<1> HIDE DEF q
<1>7. q \in Seq(NodeId)
  BY <1>1, <1>5, <1>6, SeqMonotonic
<1>8. <<>> \o q = q /\ <<>> \in Seq(NodeId)
  BY <1>7
<1>9. DOMAIN q = 1 .. Len(q)
  BY <1>7
<1>10. ToSet(q) = Z
  BY <1>6, <1>9 DEF ToSet
<1>11. \A i \in NodeId : i \in ToSet(q) <=> Predecessors(i) \subseteq ToSet(<<>>)
  BY <1>2, <1>4, <1>10 DEF Z
<1>12. \A p \in DOMAIN q : Predecessors(q[p]) = {}
  <2>1. \A p \in DOMAIN q : q[p] \in Z
    BY <1>6, <1>9, ElementOfSeq
  <2> QED BY <1>4, <2>1 DEF Z
<1>13. IsInjective(q)
  BY <1>6, <1>9 DEF IsInjective
<1>14. [i \in NodeId |-> InDegree(i)] \in [NodeId -> Nat]
  BY <1>4
<1>15. \A i \in NodeId : [k \in NodeId |-> InDegree(k)][i] = Cardinality(Predecessors(i) \ ToSet(<<>>))
  BY <1>4
<1> QED BY <1>7, <1>8, <1>11, <1>12, <1>13, <1>14, <1>15 DEF Kahn, q, Z

\* One turn of the loop.
LEMMA KahnTurns ==
    ASSUME GraphInv, NEW d, NEW q, NEW deg, Kahn(d, q, deg), q # <<>>
    PROVE  LET succ == {i \in NodeId : Head(q) \in Predecessors(i)} IN
           Kahn(Append(d, Head(q)),
                Tail(q) \o InOrder({i \in succ : deg[i] = 1}),
                [i \in NodeId |-> IF i \in succ THEN deg[i] - 1 ELSE deg[i]])
<1> DEFINE h == Head(q)
           succ == {i \in NodeId : h \in Predecessors(i)}
           N == {i \in succ : deg[i] = 1}
           u == InOrder(N)
           o == d \o q
           w == o \o u
           d2 == Append(d, h)
           q2 == Tail(q) \o u
           deg2 == [i \in NodeId |-> IF i \in succ THEN deg[i] - 1 ELSE deg[i]]
<1>1. Len(nodes) \in Nat /\ NodeId = 1 .. Len(nodes)
  BY Lists DEF NodeId
<1>2. /\ d \in Seq(NodeId) /\ q \in Seq(NodeId) /\ deg \in [NodeId -> Nat]
      /\ \A i \in NodeId : deg[i] = Cardinality(Predecessors(i) \ ToSet(d))
      /\ IsInjective(o)
      /\ \A i \in NodeId : i \in ToSet(o) <=> Predecessors(i) \subseteq ToSet(d)
      /\ \A p \in DOMAIN o : \A k \in Predecessors(o[p]) : \E r \in 1 .. (p - 1) : o[r] = k
  BY DEF Kahn
<1>3. N \in SUBSET (1 .. Len(nodes)) /\ N \subseteq NodeId
  BY <1>1
<1>4. /\ u \in Seq(N)
      /\ \A p, r \in 1 .. Len(u) : u[p] = u[r] => p = r
      /\ \A x \in N : \E p \in 1 .. Len(u) : u[p] = x
  <2> HIDE DEF N
  <2> QED BY <1>1, <1>3, InOrderRight
<1>5. u \in Seq(NodeId)
  <2> HIDE DEF N, u
  <2> QED BY <1>3, <1>4, SeqMonotonic
<1>6. d2 \in Seq(NodeId) /\ q2 \in Seq(NodeId) /\ d2 \o q2 = w
  <2> HIDE DEF u, o, w, d2, q2, h
  <2>1. /\ Append(d, Head(q)) \in Seq(NodeId) /\ Tail(q) \o u \in Seq(NodeId)
        /\ Append(d, Head(q)) \o (Tail(q) \o u) = (d \o q) \o u
    <3>1. d \in Seq(NodeId) /\ q \in Seq(NodeId)
      BY <1>2
    <3> HIDE DEF succ, deg2, N
    <3> QED BY <1>5, <3>1, OrderGrows, SMTT(30)
  <2> QED BY <2>1 DEF w, o, d2, q2, h
<1>7. /\ o \in Seq(NodeId) /\ Len(o) = Len(d) + Len(q)
      /\ \A p \in 1 .. Len(o) : o[p] = IF p <= Len(d) THEN d[p] ELSE q[p - Len(d)]
      /\ DOMAIN o = 1 .. Len(o)
      /\ Len(d) \in Nat /\ Len(q) \in Nat /\ Len(q) >= 1
      /\ h = q[1] /\ h \in NodeId
  BY <1>2, ConcatProperties
<1>8. o[Len(d) + 1] = h /\ Len(d) + 1 \in 1 .. Len(o)
  BY <1>7
<1>9. ToSet(d2) = ToSet(d) \cup {h}
  <2>1. /\ Len(d2) = Len(d) + 1 /\ d2[Len(d) + 1] = h
        /\ \A p \in 1 .. Len(d) : d2[p] = d[p]
    BY <1>2, <1>7, AppendProperties
  <2>2. \A x : x \in ToSet(d2) <=> \E p \in 1 .. Len(d2) : d2[p] = x
    BY <1>6, ToSetIs
  <2>3. \A x : x \in ToSet(d) <=> \E p \in 1 .. Len(d) : d[p] = x
    BY <1>2, ToSetIs
  <2>4. 1 .. Len(d2) = (1 .. Len(d)) \cup {Len(d) + 1}
    BY <1>7, <2>1
  <2> HIDE DEF d2
  <2> QED BY <2>1, <2>2, <2>3, <2>4
<1>10. h \notin ToSet(d)
  <2> SUFFICES ASSUME h \in ToSet(d) PROVE FALSE
    OBVIOUS
  <2>1. PICK p \in 1 .. Len(d) : d[p] = h
    BY <1>2, ToSetIs
  <2>2. o[p] = h /\ p \in DOMAIN o /\ Len(d) + 1 \in DOMAIN o /\ p # Len(d) + 1
    BY <1>7, <1>8, <2>1
  <2> HIDE DEF o
  <2> QED BY <1>2, <1>8, <2>2 DEF IsInjective
<1>11. \A i \in NodeId : IF i \in succ
                         THEN Predecessors(i) \ ToSet(d2) = (Predecessors(i) \ ToSet(d)) \ {h}
                         ELSE Predecessors(i) \ ToSet(d2) = Predecessors(i) \ ToSet(d)
  BY <1>9
<1>12. ASSUME NEW i \in NodeId
       PROVE  deg2[i] = Cardinality(Predecessors(i) \ ToSet(d2)) /\ deg2[i] \in Nat
  <2>1. /\ IsFiniteSet(Predecessors(i) \ ToSet(d))
        /\ Cardinality(Predecessors(i) \ ToSet(d)) \in Nat
        /\ Cardinality(Predecessors(i) \ ToSet(d2)) \in Nat
    BY PredecessorsFinite
  <2>2. CASE i \in succ
    <3>1. h \in Predecessors(i) \ ToSet(d)
      BY <1>10, <2>2
    <3>2. Cardinality((Predecessors(i) \ ToSet(d)) \ {h}) = Cardinality(Predecessors(i) \ ToSet(d)) - 1
      BY <2>1, <3>1, FS_RemoveElement
    <3> HIDE DEF d2
    <3> QED BY <1>2, <1>11, <2>1, <2>2, <3>2
  <2>3. CASE i \notin succ
    <3> HIDE DEF d2
    <3> QED BY <1>2, <1>11, <2>1, <2>3
  <2> QED BY <2>2, <2>3
<1>13. \A i \in NodeId : i \in N <=> h \in Predecessors(i) /\ Predecessors(i) \subseteq ToSet(d2)
  <2> TAKE i \in NodeId
  <2>1. /\ IsFiniteSet(Predecessors(i) \ ToSet(d))
        /\ deg[i] = Cardinality(Predecessors(i) \ ToSet(d))
    BY <1>2, PredecessorsFinite
  <2>2. deg[i] = 1 <=> \E x : Predecessors(i) \ ToSet(d) = {x}
    BY <2>1, FS_Singleton
  <2>3. h \in Predecessors(i) => (deg[i] = 1 <=> Predecessors(i) \ ToSet(d) = {h})
    <3>1. h \in Predecessors(i) => h \in Predecessors(i) \ ToSet(d)
      BY <1>10
    <3> QED BY <2>2, <3>1
  <2>4. h \in Predecessors(i) =>
          (Predecessors(i) \ ToSet(d) = {h} <=> Predecessors(i) \subseteq ToSet(d2))
    BY <1>9, <1>10
  <2> QED BY <2>3, <2>4
<1>14. \A x : x \in ToSet(o) <=> \E p \in 1 .. Len(o) : o[p] = x
  <2> HIDE DEF o
  <2> QED BY <1>7, ToSetIs
<1> HIDE DEF N, u, o, d2, q2, h
<1>15. \A x : x \in N <=> \E p \in 1 .. Len(u) : u[p] = x
  BY <1>4
<1>16. /\ w \in Seq(NodeId) /\ Len(w) = Len(o) + Len(u)
       /\ \A p \in 1 .. Len(w) : w[p] = IF p <= Len(o) THEN o[p] ELSE u[p - Len(o)]
       /\ DOMAIN w = 1 .. Len(w)
       /\ Len(o) \in Nat /\ Len(u) \in Nat
  <2>1. /\ w \in Seq(NodeId) /\ Len(w) = Len(o) + Len(u)
        /\ \A p \in 1 .. (Len(o) + Len(u)) : w[p] = IF p <= Len(o) THEN o[p] ELSE u[p - Len(o)]
    BY <1>5, <1>7, ConcatProperties, ZenonT(60)
  <2>2. Len(o) \in Nat /\ Len(u) \in Nat
    BY <1>5, <1>7
  <2> HIDE DEF w
  <2> QED BY <2>1, <2>2
<1> HIDE DEF w
<1>17. \A x : x \in ToSet(w) <=> x \in ToSet(o) \/ x \in N
  <2>1. \A x : x \in ToSet(w) <=> \E p \in 1 .. Len(w) : w[p] = x
    BY <1>16, ToSetIs
  <2>2. \A p \in 1 .. Len(o) : p \in 1 .. Len(w) /\ w[p] = o[p]
    BY <1>16
  <2>3. \A p \in 1 .. Len(u) : Len(o) + p \in 1 .. Len(w) /\ w[Len(o) + p] = u[p]
    BY <1>16
  <2>4. \A p \in 1 .. Len(w) :
          p \in 1 .. Len(o) \/ \E r \in 1 .. Len(u) : p = Len(o) + r
    <3> TAKE p \in 1 .. Len(w)
    <3>1. p > Len(o) => p - Len(o) \in 1 .. Len(u) /\ p = Len(o) + (p - Len(o))
      BY <1>16
    <3> QED BY <1>16, <3>1
  <2>5. \A x : x \in ToSet(o) \/ x \in N => x \in ToSet(w)
    BY <1>14, <1>15, <2>1, <2>2, <2>3
  <2>6. ASSUME NEW x \in ToSet(w) PROVE x \in ToSet(o) \/ x \in N
    <3>1. PICK p \in 1 .. Len(w) : w[p] = x
      BY <2>1
    <3>2. CASE p \in 1 .. Len(o)
      BY <1>14, <2>2, <3>1, <3>2
    <3>3. CASE \E r \in 1 .. Len(u) : p = Len(o) + r
      BY <1>15, <2>3, <3>1, <3>3
    <3> QED BY <2>4, <3>2, <3>3
  <2> QED BY <2>5, <2>6
<1>18. \A i \in N : i \notin ToSet(o)
  BY <1>2, <1>3, <1>10, <1>13
<1>19. IsInjective(w)
  <2> SUFFICES ASSUME NEW p \in 1 .. Len(w), NEW r \in 1 .. Len(w),
                      w[p] = w[r], p < r
               PROVE  FALSE
    BY <1>16 DEF IsInjective
  <2>1. CASE r <= Len(o)
    <3>1. p \in 1 .. Len(o) /\ r \in 1 .. Len(o) /\ p # r
      BY <1>16, <2>1
    <3>2. o[p] = o[r]
      BY <1>16, <3>1
    <3>3. \A a, b \in DOMAIN o : o[a] = o[b] => a = b
      BY <1>2 DEF IsInjective
    <3> QED BY <1>7, <3>1, <3>2, <3>3
  <2>2. CASE p <= Len(o) /\ Len(o) < r
    <3>1. p \in 1 .. Len(o) /\ r - Len(o) \in 1 .. Len(u)
      BY <1>16, <2>2
    <3>2. o[p] = u[r - Len(o)]
      BY <1>16, <2>2
    <3>3. o[p] \in ToSet(o)
      BY <1>14, <3>1
    <3>4. u[r - Len(o)] \in N
      BY <1>15, <3>1
    <3> QED BY <1>18, <3>2, <3>3, <3>4
  <2>3. CASE Len(o) < p
    <3>1. p - Len(o) \in 1 .. Len(u) /\ r - Len(o) \in 1 .. Len(u) /\ p - Len(o) # r - Len(o)
      BY <1>16, <2>3
    <3>2. u[p - Len(o)] = u[r - Len(o)]
      BY <1>16, <2>3
    <3> QED BY <1>4, <3>1, <3>2
  <2> QED BY <1>16, <2>1, <2>2, <2>3
<1>20. \A i \in NodeId : i \in ToSet(w) <=> Predecessors(i) \subseteq ToSet(d2)
  <2> TAKE i \in NodeId
  <2>1. i \in ToSet(w) <=> \/ Predecessors(i) \subseteq ToSet(d)
                           \/ h \in Predecessors(i) /\ Predecessors(i) \subseteq ToSet(d2)
    <3>1. i \in ToSet(w) <=> i \in ToSet(o) \/ i \in N
      BY <1>17
    <3>2. i \in ToSet(o) <=> Predecessors(i) \subseteq ToSet(d)
      BY <1>2
    <3> QED BY <1>13, <3>1, <3>2
  <2> QED BY <1>9, <2>1
<1>21. ASSUME NEW p \in DOMAIN w, NEW k \in Predecessors(w[p])
       PROVE  \E r \in 1 .. (p - 1) : w[r] = k
  <2>1. CASE p <= Len(o)
    <3>1. p \in DOMAIN o /\ w[p] = o[p]
      BY <1>7, <1>16, <2>1
    <3>2. PICK r \in 1 .. (p - 1) : o[r] = k
      BY <1>2, <3>1
    <3>3. w[r] = o[r]
      BY <1>16, <2>1
    <3> QED BY <3>2, <3>3
  <2>2. CASE Len(o) < p
    <3>1. p - Len(o) \in 1 .. Len(u) /\ w[p] = u[p - Len(o)]
      BY <1>16, <2>2
    <3>2. w[p] \in N
      BY <1>15, <3>1
    <3>3. k \in ToSet(d) \/ k = h
      BY <1>3, <1>9, <1>13, <3>2
    <3>4. \A r \in 1 .. Len(d) : r \in 1 .. Len(o) /\ o[r] = d[r]
      BY <1>7
    <3>5. k \in ToSet(d) => \E r \in 1 .. Len(d) : d[r] = k
      BY <1>2, ToSetIs
    <3>6. PICK r \in 1 .. Len(o) : o[r] = k
      BY <1>8, <3>3, <3>4, <3>5
    <3>7. r \in 1 .. (p - 1) /\ w[r] = o[r]
      BY <1>16, <2>2
    <3> QED BY <3>6, <3>7
  <2> QED BY <1>16, <2>1, <2>2
<1>22. deg2 \in [NodeId -> Nat] /\ \A i \in NodeId : deg2[i] = Cardinality(Predecessors(i) \ ToSet(d2))
  <2>1. deg2 = [i \in NodeId |-> deg2[i]]
    OBVIOUS
  <2> HIDE DEF deg2
  <2> QED BY <1>12, <2>1
<1>23. Kahn(d2, q2, deg2)
  <2> HIDE DEF deg2
  <2> QED BY <1>6, <1>19, <1>20, <1>21, <1>22, ZenonT(40) DEF Kahn
<1> QED BY <1>23 DEF d2, q2, u, N, h

\* When the queue is empty every node was taken, so check_topo reports nothing.
LEMMA KahnEnds ==
    ASSUME GraphInv, NEW d, NEW deg, Kahn(d, <<>>, deg)
    PROVE  Len(d) = Len(nodes)
<1>1. Len(nodes) \in Nat /\ NodeId = 1 .. Len(nodes)
  BY Lists DEF NodeId
<1>2. d \in Seq(NodeId) /\ d \o <<>> = d
  BY DEF Kahn
<1>3. /\ IsInjective(d)
      /\ \A i \in NodeId : i \in ToSet(d) <=> Predecessors(i) \subseteq ToSet(d)
  BY <1>2 DEF Kahn
<1>4. NodeId \subseteq ToSet(d)
  <2> DEFINE Rest == NodeId \ ToSet(d)
  <2> SUFFICES ASSUME Rest # {} PROVE FALSE
    OBVIOUS
  <2>1. Rest \in SUBSET Nat
    BY <1>1
  <2>2. PICK i \in Rest : \A k \in Rest : i <= k
    <3> HIDE DEF Rest
    <3> QED BY <2>1, Least
  <2>3. Predecessors(i) \subseteq 1 .. (i - 1) /\ Predecessors(i) \subseteq NodeId
    BY PredecessorsFinite
  <2>4. Predecessors(i) \subseteq ToSet(d)
    BY <1>1, <2>2, <2>3
  <2> QED BY <1>3, <2>4
<1>5. /\ d \in [1 .. Len(d) -> NodeId] /\ DOMAIN d = 1 .. Len(d) /\ Len(d) \in Nat
      /\ \A x : x \in ToSet(d) <=> \E i \in 1 .. Len(d) : d[i] = x
  BY <1>2, ToSetIs
<1>6. d \in Bijection(1 .. Len(d), NodeId)
  BY <1>3, <1>4, <1>5 DEF Bijection, Injection, Surjection, IsInjective
<1>7. ExistsBijection(1 .. Len(d), NodeId)
  BY <1>6 DEF ExistsBijection
<1>8. Cardinality(NodeId) = Len(d)
  BY <1>5, <1>7, FS_CountingElements
<1>9. Cardinality(NodeId) = Len(nodes)
  BY <1>1, FS_Interval
<1> QED BY <1>8, <1>9

-----------------------------------------------------------------------------
(* validate                                                                 *)

\* The three checks that every graph built through the interface passes.
EdgeChecks == {"edges", "topo", "reachability"}

ValidatorInv ==
    /\ ValidatorTypeOK
    /\ stage = "build" => errors = {} /\ in_degree = <<>> /\ queue = <<>> /\ done = <<>>
    /\ stage = "topo" => Kahn(done, queue, in_degree)
    /\ errors \cap EdgeChecks = {}
    /\ stage \in {"build", "topo", "rejected"} \/ CheckWeights

LEMMA ValidatorStarts == GraphInit /\ ValidatorInit => ValidatorInv
<1> SUFFICES ASSUME GraphInit, ValidatorInit PROVE ValidatorInv
  OBVIOUS
<1>1. stage = "build" /\ errors = {} /\ in_degree = <<>> /\ queue = <<>> /\ done = <<>>
  BY DEF GraphInit, ValidatorInit
<1>2. ValidatorTypeOK
  BY <1>1 DEF ValidatorTypeOK
<1> QED BY <1>1, <1>2 DEF ValidatorInv

LEMMA ValidatorBuilds ==
    ASSUME ValidatorInv, Build, UNCHANGED <<errors, topoVars>>
    PROVE  ValidatorInv' /\ stage = "build" /\ stage' = "build"
<1>1. stage = "build" /\ stage' = "build"
  BY DEF Build, AddInput, AddOp, MarkOutput
<1>2. errors' = {} /\ in_degree' = <<>> /\ queue' = <<>> /\ done' = <<>>
  BY <1>1 DEF ValidatorInv, topoVars
<1>3. ValidatorTypeOK'
  BY <1>2 DEF ValidatorTypeOK
<1> QED BY <1>1, <1>2, <1>3 DEF ValidatorInv

\* The operators of the graph do not change while it is compiled.
LEMMA SameGraph ==
    ASSUME UNCHANGED graphVars
    PROVE  /\ NodeId' = NodeId
           /\ CheckWeights' = CheckWeights
           /\ \A d, q, deg : Kahn(d, q, deg)' = Kahn(d, q, deg)
<1>1. tensors' = tensors /\ nodes' = nodes /\ inputs' = inputs /\ outputs' = outputs
  BY DEF graphVars
<1>2. NodeId' = NodeId
  BY <1>1 DEF NodeId
<1>3. CheckWeights' = CheckWeights
  BY <1>1, <1>2 DEF CheckWeights, NodeOK, LinearOK, UnaryOK, TableOK, MaskOK, BinaryOK, ConcatOK,
                    ReshapingOK, ShapeOf
<1>4. \A i : Predecessors(i)' = Predecessors(i)
  BY <1>1, <1>2 DEF Predecessors
<1>5. \A d, q, deg : Kahn(d, q, deg)' = Kahn(d, q, deg)
  BY <1>2, <1>4, ZenonT(60) DEF Kahn
<1> QED BY <1>2, <1>3, <1>5

LEMMA KahnTypes ==
    ASSUME GraphInv, NEW d, NEW q, NEW deg, Kahn(d, q, deg)
    PROVE  deg \in Seq(Nat) /\ q \in Seq(NodeId) /\ d \in Seq(NodeId)
<1>1. Len(nodes) \in Nat /\ NodeId = 1 .. Len(nodes)
  BY Lists DEF NodeId
<1>2. deg \in [1 .. Len(nodes) -> Nat]
  BY <1>1 DEF Kahn
<1>3. deg \in Seq(Nat)
  BY <1>1, <1>2
<1> QED BY <1>3 DEF Kahn

LEMMA ValidateKeeps ==
    ASSUME GraphInv, ValidatorInv, Validate
    PROVE  /\ ValidatorInv' /\ UNCHANGED graphVars
           /\ stage \in {"build", "topo"} /\ stage' \in {"topo", "fuse", "rejected"}
<1> USE DEF EdgeChecks
<1>1. CASE ValidateBegin
  <2>1. UNCHANGED graphVars /\ done' = <<>> /\ stage = "build"
    BY <1>1 DEF ValidateBegin
  <2>2. CASE CheckStructure
    <3>1. /\ stage' = "topo"
          /\ errors' = {}
          /\ in_degree' = [i \in NodeId |-> InDegree(i)]
          /\ queue' = InOrder({i \in NodeId : InDegree(i) = 0})
      BY <1>1, <2>2, EdgesFine DEF ValidateBegin, Report
    <3>2. Kahn(done', queue', in_degree')
      BY <2>1, <3>1, KahnStarts
    <3>3. in_degree' \in Seq(Nat) /\ queue' \in Seq(NodeId) /\ done' \in Seq(NodeId)
      BY <3>2, KahnTypes
    <3>4. ValidatorTypeOK'
      BY <2>1, <3>1, <3>3, SameGraph DEF ValidatorTypeOK
    <3>5. Kahn(done, queue, in_degree)'
      BY <2>1, <3>2, SameGraph
    <3> QED BY <2>1, <3>1, <3>4, <3>5 DEF ValidatorInv
  <2>3. CASE ~CheckStructure
    <3>1. /\ stage' = "rejected" /\ errors' = {"structure"}
          /\ in_degree' = <<>> /\ queue' = <<>> /\ done' = <<>>
      BY <1>1, <2>3 DEF ValidateBegin, ValidatorInv
    <3>2. ValidatorTypeOK'
      BY <3>1 DEF ValidatorTypeOK
    <3> QED BY <2>1, <3>1, <3>2 DEF ValidatorInv
  <2> QED BY <2>2, <2>3
<1>2. CASE TopoStep
  <2>1. /\ UNCHANGED graphVars /\ errors' = errors /\ stage' = "topo" /\ stage = "topo"
        /\ queue # <<>>
    BY <1>2 DEF TopoStep
  <2>2. Kahn(done, queue, in_degree)
    BY <2>1 DEF ValidatorInv
  <2>3. Kahn(done', queue', in_degree')
    BY <1>2, <2>1, <2>2, KahnTurns DEF TopoStep
  <2>4. in_degree' \in Seq(Nat) /\ queue' \in Seq(NodeId) /\ done' \in Seq(NodeId)
    BY <2>3, KahnTypes
  <2>5. ValidatorTypeOK'
    BY <2>1, <2>4, SameGraph DEF ValidatorTypeOK, ValidatorInv
  <2>6. Kahn(done, queue, in_degree)'
    BY <2>1, <2>3, SameGraph
  <2> QED BY <2>1, <2>5, <2>6 DEF ValidatorInv
<1>3. CASE ValidateEnd
  <2>1. /\ UNCHANGED graphVars /\ UNCHANGED topoVars /\ stage = "topo" /\ queue = <<>>
        /\ stage' = IF errors' = {} THEN "fuse" ELSE "rejected"
    BY <1>3 DEF ValidateEnd
  <2>2. Len(done) = Len(nodes)
    BY <2>1, KahnEnds DEF ValidatorInv
  <2>3. errors' = errors \cup Report("weights", CheckWeights) \cup Report("binary", CheckBinaryShapes)
    BY <1>3, <2>2, ReachabilityFine DEF ValidateEnd, Report
  <2>4. errors' = {} => CheckWeights
    BY <2>3 DEF Report
  <2>5. errors' \cap EdgeChecks = {}
    BY <2>3 DEF Report, ValidatorInv
  <2>6. ValidatorTypeOK'
    BY <2>1, <2>3, SameGraph DEF ValidatorTypeOK, ValidatorInv, Report, topoVars
  <2>7. stage' \in {"rejected"} \/ CheckWeights'
    BY <2>1, <2>4, SameGraph
  <2> QED BY <2>1, <2>5, <2>6, <2>7 DEF ValidatorInv
<1> QED BY <1>1, <1>2, <1>3 DEF Validate

LEMMA ValidatorSame ==
    ASSUME ValidatorInv, UNCHANGED <<graphVars, errors, topoVars>>,
           \/ stage' = stage
           \/ stage \notin {"build", "topo", "rejected"} /\ stage' \notin {"build", "topo"}
    PROVE  ValidatorInv'
<1>1. UNCHANGED graphVars /\ errors' = errors /\ UNCHANGED topoVars
  OBVIOUS
<1>2. in_degree' = in_degree /\ queue' = queue /\ done' = done
  BY <1>1 DEF topoVars
<1>3. /\ NodeId' = NodeId /\ CheckWeights' = CheckWeights
      /\ Kahn(done, queue, in_degree) => Kahn(done, queue, in_degree)'
  BY <1>1, <1>2, SameGraph
<1>4. ValidatorTypeOK'
  BY <1>1, <1>2, <1>3 DEF ValidatorInv, ValidatorTypeOK
<1> QED BY <1>1, <1>2, <1>3, <1>4 DEF ValidatorInv

\* What KahnRight says of the validator follows from the invariant.
LEMMA KahnFollows == GraphInv /\ ValidatorInv => KahnRight
BY DEF ValidatorInv, EdgeChecks, KahnRight, Kahn

-----------------------------------------------------------------------------
(* Uses                                                                     *)

\* The image of a finite set under a function is finite.
LEMMA FiniteImage ==
    ASSUME NEW S, IsFiniteSet(S), NEW f, DOMAIN f = S
    PROVE  IsFiniteSet({f[x] : x \in S})
<1> DEFINE Img == {f[x] : x \in S}
           F == [x \in S |-> f[x]]
<1>1. F \in Surjection(S, Img)
  BY DEF Surjection
<1> HIDE DEF Img, F
<1>2. IsFiniteSet(Img)
  BY <1>1, FS_Surjection
<1> QED BY <1>2 DEF Img

\* A tensor has finitely many readers.
LEMMA UsesFinite ==
    ASSUME GraphInv, NEW x
    PROVE  IsFiniteSet(Uses(x))
<1> DEFINE J(i) == {j \in DOMAIN nodes[i].inputs : nodes[i].inputs[j] = x}
           U(i) == {<<i, j>> : j \in J(i)}
           K == {k \in DOMAIN outputs : outputs[k] = x}
<1>1. IsFiniteSet(NodeId) /\ IsFiniteSet(DOMAIN outputs)
  <2>1. /\ Len(nodes) \in Nat /\ NodeId = 1 .. Len(nodes)
        /\ Len(outputs) \in Nat /\ DOMAIN outputs = 1 .. Len(outputs)
    BY Lists DEF NodeId
  <2> QED BY <2>1, FS_Interval
<1>2. ASSUME NEW i \in NodeId PROVE IsFiniteSet(U(i))
  <2>1. Len(nodes[i].inputs) \in Nat /\ DOMAIN nodes[i].inputs = 1 .. Len(nodes[i].inputs)
    BY Lists
  <2>2. IsFiniteSet(DOMAIN nodes[i].inputs)
    BY <2>1, FS_Interval
  <2>3. J(i) \in SUBSET (DOMAIN nodes[i].inputs)
    OBVIOUS
  <2> HIDE DEF J
  <2>4. IsFiniteSet(J(i))
    BY <2>2, <2>3, FS_Subset
  <2> DEFINE f == [j \in J(i) |-> <<i, j>>]
  <2>5. DOMAIN f = J(i)
    OBVIOUS
  <2>6. IsFiniteSet({f[j] : j \in J(i)})
    <3> HIDE DEF f
    <3> QED BY <2>4, <2>5, FiniteImage
  <2>7. {f[j] : j \in J(i)} = U(i)
    OBVIOUS
  <2> QED BY <2>6, <2>7
<1>3. IsFiniteSet({U(i) : i \in NodeId})
  <2> DEFINE f == [i \in NodeId |-> U(i)]
  <2> HIDE DEF U
  <2>1. DOMAIN f = NodeId
    OBVIOUS
  <2>2. IsFiniteSet({f[i] : i \in NodeId})
    <3> HIDE DEF f
    <3> QED BY <1>1, <2>1, FiniteImage
  <2>3. {f[i] : i \in NodeId} = {U(i) : i \in NodeId}
    OBVIOUS
  <2> QED BY <2>2, <2>3
<1>4. IsFiniteSet(UNION {U(i) : i \in NodeId})
  <2> HIDE DEF U
  <2>1. \A Z \in {U(i) : i \in NodeId} : IsFiniteSet(Z)
    BY <1>2
  <2> DEFINE V == {U(i) : i \in NodeId}
  <2> HIDE DEF V
  <2> QED BY <1>3, <2>1, FS_UNION DEF V
<1>5. IsFiniteSet({<<0, k>> : k \in K})
  <2>1. K \in SUBSET (DOMAIN outputs)
    OBVIOUS
  <2> HIDE DEF K
  <2>2. IsFiniteSet(K)
    BY <1>1, <2>1, FS_Subset
  <2> DEFINE f == [k \in K |-> <<0, k>>]
  <2>3. DOMAIN f = K
    OBVIOUS
  <2>4. IsFiniteSet({f[k] : k \in K})
    <3> HIDE DEF f
    <3> QED BY <2>2, <2>3, FiniteImage
  <2>5. {f[k] : k \in K} = {<<0, k>> : k \in K}
    OBVIOUS
  <2> QED BY <2>4, <2>5
<1>6. Uses(x) = (UNION {U(i) : i \in NodeId}) \cup {<<0, k>> : k \in K}
  BY DEF Uses
<1> HIDE DEF U, K
<1> QED BY <1>4, <1>5, <1>6, FS_Union

\* A node that reads a tensor and a caller who asked for it are among its uses.
LEMMA UsesAre ==
    /\ \A i \in NodeId : \A j \in DOMAIN nodes[i].inputs : <<i, j>> \in Uses(nodes[i].inputs[j])
    /\ \A k \in DOMAIN outputs : <<0, k>> \in Uses(outputs[k])
<1>1. ASSUME NEW i \in NodeId, NEW j \in DOMAIN nodes[i].inputs
      PROVE  <<i, j>> \in Uses(nodes[i].inputs[j])
  <2> DEFINE x == nodes[i].inputs[j]
             U(m) == {<<m, l>> : l \in {l \in DOMAIN nodes[m].inputs : nodes[m].inputs[l] = x}}
  <2>1. <<i, j>> \in U(i)
    OBVIOUS
  <2>2. U(i) \subseteq Uses(x)
    BY DEF Uses
  <2> QED BY <2>1, <2>2
<1>2. ASSUME NEW k \in DOMAIN outputs
      PROVE  <<0, k>> \in Uses(outputs[k])
  BY DEF Uses
<1> QED BY <1>1, <1>2

\* consumer_count is 1: the one who reads is the only one.
LEMMA OneUse ==
    ASSUME GraphInv, NEW i \in NodeId, 1 \in DOMAIN nodes[i].inputs,
           ConsumerCount(nodes[i].inputs[1]) = 1
    PROVE  Uses(nodes[i].inputs[1]) = {<<i, 1>>}
<1> DEFINE u == Uses(nodes[i].inputs[1])
<1>1. <<i, 1>> \in u
  BY UsesAre
<1>2. IsFiniteSet(u) /\ Cardinality(u) = 1
  BY UsesFinite DEF ConsumerCount
<1>3. PICK y : u = {y}
  <2> HIDE DEF u
  <2> QED BY <1>2, FS_Singleton
<1> QED BY <1>1, <1>3

-----------------------------------------------------------------------------
(* The groups                                                               *)

\* The groups G when compute_groups is at node nx and at side input sd.
\*   Shaped: every group has members, all looked at already, and its output is
\*     that of the last; inside the side loop the last group ends with the
\*     node just added, which is not its first.
Shaped(G, nx, sd) ==
    /\ G \in Seq(Group)
    /\ nx \in 1 .. (Len(nodes) + 1) /\ sd \in Nat
    /\ \A g \in 1 .. Len(G) :
         /\ G[g].node_ids # <<>>
         /\ \A p \in 1 .. Len(G[g].node_ids) : G[g].node_ids[p] \in 1 .. (nx - 1)
         /\ G[g].output = nodes[G[g].node_ids[Len(G[g].node_ids)]].output
    /\ sd # 0 => /\ sd >= 2 /\ G # <<>>
                 /\ Len(G[Len(G)].node_ids) >= 2
                 /\ G[Len(G)].node_ids[Len(G[Len(G)].node_ids)] = nx - 1

\*   Once: every node looked at is a member somewhere, and nowhere else.
Once(G, nx) ==
    /\ \A i \in 1 .. (nx - 1) :
         \E g \in 1 .. Len(G) : \E p \in 1 .. Len(G[g].node_ids) : G[g].node_ids[p] = i
    /\ \A g, h \in 1 .. Len(G) :
         \A p \in 1 .. Len(G[g].node_ids), q \in 1 .. Len(G[h].node_ids) :
            G[g].node_ids[p] = G[h].node_ids[q] => g = h /\ p = q

\*   Chained: the output of a member that is not the last has one use.
Chained(G) ==
    \A g \in 1 .. Len(G) : \A p \in 1 .. (Len(G[g].node_ids) - 1) :
        Uses(nodes[G[g].node_ids[p]].output) = {<<G[g].node_ids[p + 1], 1>>}

\*   Supplied: what a group takes from outside is there when it runs.
Supplied(G) ==
    \A g \in 1 .. Len(G) : \A j \in 1 .. Len(G[g].inputs) :
        LET x == G[g].inputs[j] IN
        /\ x \in TensorId
        /\ tensors[x].producer = 0 \/ \E h \in 1 .. (g - 1) : G[h].output = x

\*   Given: a group takes what its members read, but for the links of the
\*     chain and the side inputs of the last member still to come.
Given(G, sd) ==
    \A g \in 1 .. Len(G) : \A p \in 1 .. Len(G[g].node_ids) :
        LET ins == nodes[G[g].node_ids[p]].inputs IN
        \A j \in 1 .. Len(ins) :
            \/ p > 1 /\ j = 1
            \/ ins[j] \in ToSet(G[g].inputs)
            \/ sd # 0 /\ g = Len(G) /\ p = Len(G[g].node_ids) /\ j >= sd

\*   Headed: the first tensor a group takes is the first its first member reads.
Headed(G) ==
    \A g \in 1 .. Len(G) :
        Len(nodes[G[g].node_ids[1]].inputs) >= 1 =>
            Len(G[g].inputs) >= 1 /\ G[g].inputs[1] = nodes[G[g].node_ids[1]].inputs[1]

Grouped(G, nx, sd) ==
    Shaped(G, nx, sd) /\ Once(G, nx) /\ Chained(G) /\ Supplied(G) /\ Given(G, sd) /\ Headed(G)

\* The lists of a group, as functions.
LEMMA GroupLists ==
    ASSUME NEW G \in Seq(Group)
    PROVE  /\ Len(G) \in Nat /\ DOMAIN G = 1 .. Len(G)
           /\ G # <<>> => Len(G) \in 1 .. Len(G)
           /\ \A g \in 1 .. Len(G) :
                /\ G[g] \in Group
                /\ G[g].node_ids \in Seq(Nat) /\ G[g].inputs \in Seq(Nat) /\ G[g].output \in Nat
                /\ Len(G[g].node_ids) \in Nat /\ DOMAIN G[g].node_ids = 1 .. Len(G[g].node_ids)
                /\ Len(G[g].inputs) \in Nat /\ DOMAIN G[g].inputs = 1 .. Len(G[g].inputs)
                /\ G[g].node_ids # <<>> => Len(G[g].node_ids) \in 1 .. Len(G[g].node_ids)
<1>1. /\ Len(G) \in Nat /\ DOMAIN G = 1 .. Len(G)
      /\ \A g \in 1 .. Len(G) : G[g] \in Group
  OBVIOUS
<1>2. G # <<>> => Len(G) \in 1 .. Len(G)
  BY EmptySeq
<1>3. \A g \in 1 .. Len(G) :
        G[g].node_ids \in Seq(Nat) /\ G[g].inputs \in Seq(Nat) /\ G[g].output \in Nat
  BY <1>1 DEF Group
<1>4. \A s \in Seq(Nat) : /\ Len(s) \in Nat /\ DOMAIN s = 1 .. Len(s)
                          /\ s # <<>> => Len(s) \in 1 .. Len(s)
  BY EmptySeq
<1> QED BY <1>1, <1>2, <1>3, <1>4

\* A tensor that somebody other than the next member of a chain reads is a
\* graph input or the output of a group: node i reads it as its j-th input.
LEMMA ReadFromGroup ==
    ASSUME GraphInv, NEW G, NEW nx, NEW sd, Grouped(G, nx, sd),
           NEW i \in NodeId, NEW j \in DOMAIN nodes[i].inputs, i \in 1 .. nx,
           \/ i = nx
           \/ j # 1
    PROVE  LET x == nodes[i].inputs[j] IN
           /\ x \in TensorId
           /\ \/ tensors[x].producer = 0
              \/ \E h \in 1 .. Len(G) :
                   /\ G[h].output = x
                   /\ G[h].node_ids[Len(G[h].node_ids)] \in 1 .. (i - 1)
<1> DEFINE x == nodes[i].inputs[j]
           k == tensors[x].producer
<1>1. x \in TensorId /\ (k = 0 \/ (k \in 1 .. (i - 1) /\ nodes[k].output = x))
  BY ReadsEarlier
<1> HIDE DEF x, k
<1>2. ASSUME k \in 1 .. (i - 1), nodes[k].output = x
      PROVE  \E h \in 1 .. Len(G) : /\ G[h].output = x
                                    /\ G[h].node_ids[Len(G[h].node_ids)] \in 1 .. (i - 1)
  <2>1. nx \in Nat /\ k \in 1 .. (nx - 1) /\ G \in Seq(Group)
    BY <1>2, Lists DEF Grouped, Shaped
  <2>2. PICK h \in 1 .. Len(G) : \E p \in 1 .. Len(G[h].node_ids) : G[h].node_ids[p] = k
    BY <2>1 DEF Grouped, Once
  <2>3. PICK p \in 1 .. Len(G[h].node_ids) : G[h].node_ids[p] = k
    BY <2>2
  <2>4. Len(G[h].node_ids) \in Nat
    BY <2>1, GroupLists
  <2>5. p = Len(G[h].node_ids)
    <3> SUFFICES ASSUME p \in 1 .. (Len(G[h].node_ids) - 1) PROVE FALSE
      BY <2>4
    <3>1. Uses(x) = {<<G[h].node_ids[p + 1], 1>>}
      BY <1>2, <2>3 DEF Grouped, Chained
    <3>2. <<i, j>> \in Uses(x)
      BY UsesAre DEF x
    <3>3. i = G[h].node_ids[p + 1] /\ j = 1
      BY <3>1, <3>2
    <3>4. G[h].node_ids[p + 1] \in 1 .. (nx - 1)
      BY <2>4 DEF Grouped, Shaped
    <3> QED BY <2>1, <3>3, <3>4
  <2>6. G[h].output = x
    BY <1>2, <2>3, <2>5 DEF Grouped, Shaped
  <2> QED BY <1>2, <2>3, <2>5, <2>6
<1> QED BY <1>1, <1>2 DEF x, k

\* ExtendGroup: node nx joins the last group.
LEMMA ExtendKeeps ==
    ASSUME GraphInv, NEW G, NEW nx \in NodeId, Grouped(G, nx, 0),
           G # <<>>, CanExtend(G[Len(G)], nx)
    PROVE  Grouped([G EXCEPT ![Len(G)] = [G[Len(G)] EXCEPT !.node_ids = Append(@, nx),
                                                           !.output = nodes[nx].output]],
                   nx + 1, 2)
<1> DEFINE L == Len(G)
           ids == G[L].node_ids
           n == Len(ids)
           ids2 == Append(ids, nx)
           r == [G[L] EXCEPT !.node_ids = Append(@, nx), !.output = nodes[nx].output]
           G2 == [G EXCEPT ![L] = r]
<1>1. /\ Shaped(G, nx, 0) /\ Once(G, nx) /\ Chained(G) /\ Supplied(G) /\ Given(G, 0) /\ Headed(G)
      /\ G \in Seq(Group)
  BY DEF Grouped, Shaped
<1>2. /\ Len(nodes) \in Nat /\ nx \in 1 .. Len(nodes) /\ nodes[nx].output \in Nat
      /\ nodes[nx].inputs \in Seq(Nat) /\ Len(nodes[nx].inputs) \in Nat
      /\ DOMAIN nodes[nx].inputs = 1 .. Len(nodes[nx].inputs)
  BY Lists DEF NodeId
<1>3. /\ L \in Nat /\ L \in 1 .. L /\ G[L] \in Group
      /\ ids \in Seq(Nat) /\ n \in Nat /\ n \in 1 .. n
      /\ \A p \in 1 .. n : ids[p] \in 1 .. (nx - 1)
  BY <1>1, GroupLists DEF Shaped
<1>4. /\ ids2 \in Seq(Nat) /\ Len(ids2) = n + 1 /\ ids2[n + 1] = nx
      /\ \A p \in 1 .. n : ids2[p] = ids[p]
  <2> HIDE DEF ids, n
  <2> QED BY <1>2, <1>3, AppendProperties DEF n
<1>5. /\ r.node_ids = ids2 /\ r.inputs = G[L].inputs /\ r.output = nodes[nx].output /\ r \in Group
  BY <1>2, <1>3, <1>4 DEF Group
<1> HIDE DEF r
<1>6. /\ G2 \in Seq(Group) /\ Len(G2) = L
      /\ \A g \in 1 .. L : G2[g] = IF g = L THEN r ELSE G[g]
  BY <1>1, <1>3, <1>5, ExceptSeq
<1>7. /\ G2[L].node_ids = ids2 /\ G2[L].output = nodes[nx].output
      /\ \A g \in 1 .. L : G2[g].inputs = G[g].inputs
      /\ \A g \in 1 .. L : g # L => G2[g] = G[g]
  BY <1>3, <1>5, <1>6
<1>8. G2 = [G EXCEPT ![Len(G)] = [G[Len(G)] EXCEPT !.node_ids = Append(@, nx),
                                                   !.output = nodes[nx].output]]
  BY DEF r
<1>9. \A g \in 1 .. L : g = L \/ g \in 1 .. (L - 1)
  BY <1>3
<1>10. nodes[nx].inputs[1] = nodes[ids[n]].output /\ 1 \in DOMAIN nodes[nx].inputs
       /\ ConsumerCount(nodes[nx].inputs[1]) = 1
  <2>1. nodes[nx].inputs # <<>>
    BY DEF CanExtend
  <2>2. 1 \in DOMAIN nodes[nx].inputs
    BY <1>2, <2>1, EmptySeq
  <2> QED BY <2>2 DEF CanExtend, LastNode
<1>11. L = Len(G) /\ G[L].node_ids = ids /\ n = Len(G[L].node_ids)
  OBVIOUS
<1> HIDE DEF G2, ids2, n, ids, L
<1>12. G2 # <<>>
  BY <1>3, <1>6
<1>13. nx + 1 \in 1 .. (Len(nodes) + 1) /\ (nx + 1) - 1 = nx
  BY <1>2
<1>14. Shaped(G2, nx + 1, 2)
  <2>1. ASSUME NEW g \in 1 .. L
        PROVE  /\ G2[g].node_ids # <<>>
               /\ \A p \in 1 .. Len(G2[g].node_ids) : G2[g].node_ids[p] \in 1 .. nx
               /\ G2[g].output = nodes[G2[g].node_ids[Len(G2[g].node_ids)]].output
    <3>1. CASE g = L
      <4>1. ids2 # <<>>
        BY <1>3, <1>4
      <4>2. \A p \in 1 .. Len(ids2) : p \in 1 .. n \/ p = n + 1
        BY <1>3, <1>4
      <4>3. \A p \in 1 .. Len(ids2) : ids2[p] \in 1 .. nx
        <5> TAKE p \in 1 .. Len(ids2)
        <5>1. CASE p \in 1 .. n
          <6>1. ids2[p] = ids[p] /\ ids[p] \in 1 .. (nx - 1)
            BY <1>3, <1>4, <5>1
          <6> QED BY <1>2, <6>1
        <5>2. CASE p = n + 1
          BY <1>2, <1>4, <5>2
        <5> QED BY <4>2, <5>1, <5>2
      <4> QED BY <1>4, <1>7, <3>1, <4>1, <4>3
    <3>2. CASE g # L
      <4>1. G2[g] = G[g]
        BY <1>7, <3>2
      <4>2. \A i \in 1 .. (nx - 1) : i \in 1 .. nx
        BY <1>2
      <4> QED BY <1>1, <1>11, <4>1, <4>2 DEF Shaped
    <3> QED BY <3>1, <3>2
  <2>2. /\ Len(G2[L].node_ids) >= 2
        /\ G2[L].node_ids[Len(G2[L].node_ids)] = nx
    BY <1>3, <1>4, <1>7
  <2> QED BY <1>6, <1>12, <1>13, <2>1, <2>2 DEF Shaped
<1>15. Once(G2, nx + 1)
  <2>1. ASSUME NEW i \in 1 .. nx
        PROVE  \E g \in 1 .. L : \E p \in 1 .. Len(G2[g].node_ids) : G2[g].node_ids[p] = i
    <3>1. CASE i = nx
      <4>1. n + 1 \in 1 .. Len(G2[L].node_ids) /\ G2[L].node_ids[n + 1] = i
        BY <1>3, <1>4, <1>7, <3>1
      <4> QED BY <1>3, <4>1
    <3>2. CASE i # nx
      <4>1. i \in 1 .. (nx - 1)
        BY <1>2, <3>2
      <4>2. PICK g \in 1 .. L : \E p \in 1 .. Len(G[g].node_ids) : G[g].node_ids[p] = i
        BY <1>1, <1>11, <4>1 DEF Once
      <4>3. PICK p \in 1 .. Len(G[g].node_ids) : G[g].node_ids[p] = i
        BY <4>2
      <4>4. CASE g = L
        <5>1. p \in 1 .. n /\ ids[p] = i
          BY <4>3, <4>4, <1>11
        <5>2. p \in 1 .. Len(G2[L].node_ids) /\ G2[L].node_ids[p] = i
          BY <1>3, <1>4, <1>7, <5>1
        <5> QED BY <1>3, <5>2
      <4>5. CASE g # L
        BY <1>7, <4>3, <4>5
      <4> QED BY <4>4, <4>5
    <3> QED BY <3>1, <3>2
  <2>2. ASSUME NEW g \in 1 .. L, NEW h \in 1 .. L,
               NEW p \in 1 .. Len(G2[g].node_ids), NEW q \in 1 .. Len(G2[h].node_ids),
               G2[g].node_ids[p] = G2[h].node_ids[q]
        PROVE  g = h /\ p = q
    <3> DEFINE new(a, b) == a = L /\ b = n + 1
    <3>1. ASSUME NEW a \in 1 .. L, NEW b \in 1 .. Len(G2[a].node_ids)
          PROVE  /\ new(a, b) => G2[a].node_ids[b] = nx
                 /\ ~new(a, b) => /\ b \in 1 .. Len(G[a].node_ids)
                                  /\ G2[a].node_ids[b] = G[a].node_ids[b]
                                  /\ G2[a].node_ids[b] \in 1 .. (nx - 1)
      <4>1. CASE a = L
        <5>1. b \in 1 .. (n + 1)
          BY <1>4, <1>7, <4>1
        <5>2. ~new(a, b) => b \in 1 .. n
          BY <1>3, <4>1, <5>1
        <5> QED BY <1>3, <1>4, <1>7, <1>11, <4>1, <5>2
      <4>2. CASE a # L
        <5>1. G2[a] = G[a]
          BY <1>7, <4>2
        <5> QED BY <1>1, <1>11, <4>2, <5>1 DEF Shaped
      <4> QED BY <4>1, <4>2
    <3>2. nx \notin 1 .. (nx - 1)
      BY <1>2
    <3>3. new(g, p) <=> new(h, q)
      <4> HIDE DEF new
      <4> QED BY <2>2, <3>1, <3>2
    <3>4. CASE new(g, p)
      BY <3>3, <3>4
    <3>5. CASE ~new(g, p)
      <4>1. /\ p \in 1 .. Len(G[g].node_ids) /\ q \in 1 .. Len(G[h].node_ids)
            /\ G[g].node_ids[p] = G[h].node_ids[q]
        <5> HIDE DEF new
        <5> QED BY <2>2, <3>1, <3>3, <3>5
      <4> QED BY <1>1, <1>11, <4>1 DEF Once
    <3> QED BY <3>4, <3>5
  <2> QED BY <1>6, <1>13, <2>1, <2>2 DEF Once
<1>16. Chained(G2)
  <2> SUFFICES ASSUME NEW g \in 1 .. L, NEW p \in 1 .. (Len(G2[g].node_ids) - 1)
               PROVE  Uses(nodes[G2[g].node_ids[p]].output) = {<<G2[g].node_ids[p + 1], 1>>}
    BY <1>6 DEF Chained
  <2>1. CASE g # L
    BY <1>1, <1>7, <1>11, <2>1 DEF Chained
  <2>2. CASE g = L /\ p = n
    <3>1. Uses(nodes[nx].inputs[1]) = {<<nx, 1>>}
      BY <1>10, OneUse
    <3>2. G2[g].node_ids[p] = ids[n] /\ G2[g].node_ids[p + 1] = nx
      BY <1>3, <1>4, <1>7, <2>2
    <3> QED BY <1>10, <3>1, <3>2
  <2>3. CASE g = L /\ p \in 1 .. (n - 1)
    <3>1. G2[g].node_ids[p] = ids[p] /\ G2[g].node_ids[p + 1] = ids[p + 1]
      BY <1>3, <1>4, <1>7, <2>3, SMTT(30)
    <3>2. Uses(nodes[ids[p]].output) = {<<ids[p + 1], 1>>}
      BY <1>1, <1>3, <1>11, <2>3 DEF Chained
    <3> QED BY <3>1, <3>2
  <2>4. g = L => p = n \/ p \in 1 .. (n - 1)
    BY <1>3, <1>4, <1>7
  <2> QED BY <2>1, <2>2, <2>3, <2>4
<1>17. Supplied(G2)
  <2> SUFFICES ASSUME NEW g \in 1 .. L, NEW j \in 1 .. Len(G2[g].inputs)
               PROVE  /\ G2[g].inputs[j] \in TensorId
                      /\ \/ tensors[G2[g].inputs[j]].producer = 0
                         \/ \E h \in 1 .. (g - 1) : G2[h].output = G2[g].inputs[j]
    BY <1>6 DEF Supplied
  <2>1. G2[g].inputs = G[g].inputs
    BY <1>7
  <2>2. \A h \in 1 .. (g - 1) : G2[h] = G[h]
    BY <1>3, <1>7
  <2> QED BY <1>1, <1>11, <2>1, <2>2 DEF Supplied
<1>18. Given(G2, 2)
  <2> SUFFICES ASSUME NEW g \in 1 .. Len(G2), NEW p \in 1 .. Len(G2[g].node_ids),
                      NEW j \in 1 .. Len(nodes[G2[g].node_ids[p]].inputs)
               PROVE  \/ p > 1 /\ j = 1
                      \/ nodes[G2[g].node_ids[p]].inputs[j] \in ToSet(G2[g].inputs)
                      \/ 2 # 0 /\ g = Len(G2) /\ p = Len(G2[g].node_ids) /\ j >= 2
    BY Zenon DEF Given
  <2> SUFFICES ASSUME g \in 1 .. L
               PROVE  \/ p > 1 /\ j = 1
                      \/ nodes[G2[g].node_ids[p]].inputs[j] \in ToSet(G2[g].inputs)
                      \/ g = L /\ p = Len(G2[g].node_ids) /\ j >= 2
    BY <1>6
  <2>1. CASE g = L /\ p = n + 1
    <3>1. G2[g].node_ids[p] = nx /\ p > 1 /\ p = Len(G2[g].node_ids)
      BY <1>3, <1>4, <1>7, <2>1
    <3>2. j = 1 \/ j >= 2
      BY <1>2, <3>1
    <3> QED BY <2>1, <3>1, <3>2
  <2>2. CASE ~(g = L /\ p = n + 1)
    <3>1. p \in 1 .. Len(G[g].node_ids) /\ G2[g].node_ids[p] = G[g].node_ids[p]
      <4>1. CASE g = L
        <5>1. p \in 1 .. (n + 1) /\ p # n + 1
          BY <1>4, <1>7, <2>2, <4>1
        <5>2. p \in 1 .. n
          BY <1>3, <5>1
        <5> QED BY <1>4, <1>7, <1>11, <4>1, <5>2
      <4>2. CASE g # L
        BY <1>7, <4>2
      <4> QED BY <4>1, <4>2
    <3>2. G2[g].inputs = G[g].inputs
      BY <1>7
    <3>3. \A i \in 1 .. Len(nodes[G[g].node_ids[p]].inputs) :
            \/ p > 1 /\ i = 1
            \/ nodes[G[g].node_ids[p]].inputs[i] \in ToSet(G[g].inputs)
      BY <1>1, <1>11, <3>1 DEF Given
    <3> QED BY <3>1, <3>2, <3>3
  <2> QED BY <2>1, <2>2
<1>19. Headed(G2)
  <2> SUFFICES ASSUME NEW g \in 1 .. L, Len(nodes[G2[g].node_ids[1]].inputs) >= 1
               PROVE  Len(G2[g].inputs) >= 1 /\ G2[g].inputs[1] = nodes[G2[g].node_ids[1]].inputs[1]
    <3>1. Len(G2) = L
      BY <1>6
    <3> QED BY <3>1 DEF Headed
  <2>1. G2[g].node_ids[1] = G[g].node_ids[1] /\ G2[g].inputs = G[g].inputs
    <3>1. 1 \in 1 .. n
      BY <1>3
    <3>2. G2[L].node_ids[1] = G[L].node_ids[1]
      BY <1>4, <1>7, <1>11, <3>1
    <3> QED BY <1>7, <3>2
  <2> QED BY <1>1, <1>11, <2>1 DEF Headed
<1> QED BY <1>8, <1>14, <1>15, <1>16, <1>17, <1>18, <1>19 DEF Grouped

\* NewGroup: node nx starts a group of its own.
LEMMA NewGroupKeeps ==
    ASSUME GraphInv, NEW G, NEW nx \in NodeId, Grouped(G, nx, 0)
    PROVE  Grouped(Append(G, [node_ids |-> <<nx>>, inputs |-> nodes[nx].inputs,
                              output |-> nodes[nx].output]),
                   nx + 1, 0)
<1> DEFINE L == Len(G)
           r == [node_ids |-> <<nx>>, inputs |-> nodes[nx].inputs, output |-> nodes[nx].output]
           G2 == Append(G, r)
<1>1. /\ Shaped(G, nx, 0) /\ Once(G, nx) /\ Chained(G) /\ Supplied(G) /\ Given(G, 0) /\ Headed(G)
      /\ G \in Seq(Group)
  BY DEF Grouped, Shaped
<1>2. /\ Len(nodes) \in Nat /\ nx \in 1 .. Len(nodes) /\ nodes[nx].output \in Nat
      /\ nodes[nx].inputs \in Seq(Nat) /\ Len(nodes[nx].inputs) \in Nat
      /\ DOMAIN nodes[nx].inputs = 1 .. Len(nodes[nx].inputs)
  BY Lists DEF NodeId
<1>3. L \in Nat
  BY <1>1, GroupLists
<1>4. /\ r.node_ids = <<nx>> /\ r.inputs = nodes[nx].inputs /\ r.output = nodes[nx].output
      /\ r \in Group
  <2>1. <<nx>> \in Seq(Nat)
    BY <1>2
  <2> QED BY <1>2, <2>1 DEF Group
<1>5. Len(<<nx>>) = 1 /\ <<nx>>[1] = nx /\ <<nx>> # <<>>
  OBVIOUS
<1> HIDE DEF r
<1>6. /\ G2 \in Seq(Group) /\ Len(G2) = L + 1 /\ G2[L + 1] = r
      /\ \A g \in 1 .. L : G2[g] = G[g]
  BY <1>1, <1>4, AppendProperties
<1>7. \A g \in 1 .. Len(G2) : g = L + 1 \/ g \in 1 .. L
  BY <1>3, <1>6
<1> DEFINE ids2 == <<nx>>
<1>8. Len(ids2) = 1 /\ ids2[1] = nx /\ ids2 # <<>> /\ G2[L + 1].node_ids = ids2
  BY <1>4, <1>5, <1>6
<1> HIDE DEF G2, ids2
<1>9. nx + 1 \in 1 .. (Len(nodes) + 1) /\ (nx + 1) - 1 = nx
  BY <1>2
<1>10. Shaped(G2, nx + 1, 0)
  <2>1. ASSUME NEW g \in 1 .. Len(G2)
        PROVE  /\ G2[g].node_ids # <<>>
               /\ \A p \in 1 .. Len(G2[g].node_ids) : G2[g].node_ids[p] \in 1 .. nx
               /\ G2[g].output = nodes[G2[g].node_ids[Len(G2[g].node_ids)]].output
    <3>1. CASE g = L + 1
      BY <1>2, <1>4, <1>6, <1>8, <3>1
    <3>2. CASE g \in 1 .. L
      <4>1. G2[g] = G[g]
        BY <1>6, <3>2
      <4>2. \A i \in 1 .. (nx - 1) : i \in 1 .. nx
        BY <1>2
      <4> QED BY <1>1, <3>2, <4>1, <4>2 DEF Shaped
    <3> QED BY <1>7, <3>1, <3>2
  <2> QED BY <1>6, <1>9, <2>1 DEF Shaped
<1>11. Once(G2, nx + 1)
  <2>1. ASSUME NEW i \in 1 .. nx
        PROVE  \E g \in 1 .. Len(G2) : \E p \in 1 .. Len(G2[g].node_ids) : G2[g].node_ids[p] = i
    <3>1. CASE i = nx
      <4>1. L + 1 \in 1 .. Len(G2) /\ 1 \in 1 .. Len(G2[L + 1].node_ids)
        BY <1>3, <1>6, <1>8
      <4> QED BY <1>8, <3>1, <4>1
    <3>2. CASE i # nx
      <4>1. i \in 1 .. (nx - 1)
        BY <1>2, <3>2
      <4>2. PICK g \in 1 .. L : \E p \in 1 .. Len(G[g].node_ids) : G[g].node_ids[p] = i
        BY <1>1, <4>1 DEF Once
      <4>3. G2[g] = G[g] /\ g \in 1 .. Len(G2)
        BY <1>3, <1>6
      <4> QED BY <4>2, <4>3
    <3> QED BY <3>1, <3>2
  <2>2. ASSUME NEW g \in 1 .. Len(G2), NEW h \in 1 .. Len(G2),
               NEW p \in 1 .. Len(G2[g].node_ids), NEW q \in 1 .. Len(G2[h].node_ids),
               G2[g].node_ids[p] = G2[h].node_ids[q]
        PROVE  g = h /\ p = q
    <3>1. ASSUME NEW a \in 1 .. Len(G2), NEW b \in 1 .. Len(G2[a].node_ids)
          PROVE  /\ a = L + 1 => b = 1 /\ G2[a].node_ids[b] = nx
                 /\ a # L + 1 => /\ a \in 1 .. L /\ b \in 1 .. Len(G[a].node_ids)
                                 /\ G2[a].node_ids[b] = G[a].node_ids[b]
                                 /\ G2[a].node_ids[b] \in 1 .. (nx - 1)
      <4>1. CASE a = L + 1
        <5>1. b \in 1 .. 1
          BY <1>8, <4>1
        <5>2. b = 1
          BY <5>1
        <5> QED BY <1>8, <4>1, <5>2
      <4>2. CASE a \in 1 .. L
        <5>1. G2[a] = G[a] /\ a # L + 1
          BY <1>3, <1>6, <4>2
        <5> QED BY <1>1, <4>2, <5>1 DEF Shaped
      <4> QED BY <1>7, <4>1, <4>2
    <3>2. nx \notin 1 .. (nx - 1)
      BY <1>2
    <3>3. g = L + 1 <=> h = L + 1
      BY <2>2, <3>1, <3>2, SMTT(30)
    <3>4. CASE g = L + 1
      BY <3>1, <3>3, <3>4
    <3>5. CASE g # L + 1
      <4>1. /\ g \in 1 .. L /\ h \in 1 .. L
            /\ p \in 1 .. Len(G[g].node_ids) /\ q \in 1 .. Len(G[h].node_ids)
            /\ G[g].node_ids[p] = G[h].node_ids[q]
        BY <2>2, <3>1, <3>3, <3>5
      <4> QED BY <1>1, <4>1, SMTT(30) DEF Once
    <3> QED BY <3>4, <3>5
  <2> QED BY <1>9, <2>1, <2>2 DEF Once
<1>12. Chained(G2)
  <2> SUFFICES ASSUME NEW g \in 1 .. Len(G2), NEW p \in 1 .. (Len(G2[g].node_ids) - 1)
               PROVE  Uses(nodes[G2[g].node_ids[p]].output) = {<<G2[g].node_ids[p + 1], 1>>}
    BY DEF Chained
  <2>1. CASE g = L + 1
    BY <1>8, <2>1
  <2>2. CASE g \in 1 .. L
    BY <1>1, <1>6, <2>2 DEF Chained
  <2> QED BY <1>7, <2>1, <2>2
<1>13. Supplied(G2)
  <2> SUFFICES ASSUME NEW g \in 1 .. Len(G2), NEW j \in 1 .. Len(G2[g].inputs)
               PROVE  /\ G2[g].inputs[j] \in TensorId
                      /\ \/ tensors[G2[g].inputs[j]].producer = 0
                         \/ \E h \in 1 .. (g - 1) : G2[h].output = G2[g].inputs[j]
    BY DEF Supplied
  <2>1. CASE g = L + 1
    <3>1. G2[g].inputs = nodes[nx].inputs /\ j \in DOMAIN nodes[nx].inputs
      BY <1>2, <1>4, <1>6, <2>1
    <3>2. /\ nodes[nx].inputs[j] \in TensorId
          /\ \/ tensors[nodes[nx].inputs[j]].producer = 0
             \/ \E h \in 1 .. L : G[h].output = nodes[nx].inputs[j]
      <4>1. nx \in 1 .. nx
        BY <1>2
      <4> QED BY <3>1, <4>1, ReadFromGroup
    <3>3. \A h \in 1 .. L : h \in 1 .. (g - 1) /\ G2[h] = G[h]
      BY <1>3, <1>6, <2>1
    <3> QED BY <3>1, <3>2, <3>3
  <2>2. CASE g \in 1 .. L
    <3>1. \A h \in 1 .. (g - 1) : G2[h] = G[h]
      BY <1>3, <1>6, <2>2
    <3>2. G2[g] = G[g]
      BY <1>6, <2>2
    <3> QED BY <1>1, <2>2, <3>1, <3>2 DEF Supplied
  <2> QED BY <1>7, <2>1, <2>2
<1>14. Given(G2, 0)
  <2> SUFFICES ASSUME NEW g \in 1 .. Len(G2), NEW p \in 1 .. Len(G2[g].node_ids),
                      NEW j \in 1 .. Len(nodes[G2[g].node_ids[p]].inputs)
               PROVE  \/ p > 1 /\ j = 1
                      \/ nodes[G2[g].node_ids[p]].inputs[j] \in ToSet(G2[g].inputs)
    BY DEF Given
  <2>1. CASE g = L + 1
    <3>1. G2[g].node_ids[p] = nx /\ G2[g].inputs = nodes[nx].inputs
      BY <1>4, <1>6, <1>8, <2>1
    <3>2. nodes[nx].inputs[j] \in ToSet(nodes[nx].inputs)
      BY <1>2, <3>1 DEF ToSet
    <3> QED BY <3>1, <3>2
  <2>2. CASE g \in 1 .. L
    <3>1. G2[g] = G[g]
      BY <1>6, <2>2
    <3> QED BY <1>1, <2>2, <3>1 DEF Given
  <2> QED BY <1>7, <2>1, <2>2
<1>15. Headed(G2)
  <2> SUFFICES ASSUME NEW g \in 1 .. Len(G2), Len(nodes[G2[g].node_ids[1]].inputs) >= 1
               PROVE  Len(G2[g].inputs) >= 1 /\ G2[g].inputs[1] = nodes[G2[g].node_ids[1]].inputs[1]
    BY DEF Headed
  <2>1. CASE g = L + 1
    BY <1>4, <1>6, <1>8, <2>1
  <2>2. CASE g \in 1 .. L
    BY <1>1, <1>6, <2>2 DEF Headed
  <2> QED BY <1>7, <2>1, <2>2
<1> QED BY <1>10, <1>11, <1>12, <1>13, <1>14, <1>15 DEF Grouped, G2, r

\* AddSideInput, when the tensor is one the group takes already, and
\* SideInputsDone: the loop only moves on.
LEMMA SideAdvances ==
    ASSUME GraphInv, NEW G, NEW nx, NEW sd, Grouped(G, nx, sd), sd # 0
    PROVE  /\ nodes[nx - 1].inputs[sd] \in ToSet(G[Len(G)].inputs) => Grouped(G, nx, sd + 1)
           /\ sd > Len(nodes[nx - 1].inputs) => Grouped(G, nx, 0)
<1> DEFINE L == Len(G)
<1>1. /\ Shaped(G, nx, sd) /\ Once(G, nx) /\ Chained(G) /\ Supplied(G) /\ Given(G, sd) /\ Headed(G)
      /\ G \in Seq(Group) /\ sd \in Nat /\ G # <<>>
      /\ G[L].node_ids[Len(G[L].node_ids)] = nx - 1
  BY DEF Grouped, Shaped
<1>2. Shaped(G, nx, sd + 1) /\ Shaped(G, nx, 0)
  BY <1>1 DEF Shaped
<1>3. ASSUME NEW g \in 1 .. L, NEW p \in 1 .. Len(G[g].node_ids),
             NEW j \in 1 .. Len(nodes[G[g].node_ids[p]].inputs)
      PROVE  LET x == nodes[G[g].node_ids[p]].inputs[j] IN
             \/ p > 1 /\ j = 1
             \/ x \in ToSet(G[g].inputs)
             \/ /\ g = L /\ p = Len(G[g].node_ids) /\ j >= sd
                /\ x = nodes[nx - 1].inputs[j] /\ j \in 1 .. Len(nodes[nx - 1].inputs)
  BY <1>1 DEF Given
<1>4. ASSUME NEW g \in 1 .. L, NEW p \in 1 .. Len(G[g].node_ids)
      PROVE  Len(nodes[G[g].node_ids[p]].inputs) \in Nat
  <2>1. G[g].node_ids[p] \in NodeId
    <3>1. nx \in 1 .. (Len(nodes) + 1) /\ G[g].node_ids[p] \in 1 .. (nx - 1) /\ Len(nodes) \in Nat
      BY <1>1, Lists DEF Shaped
    <3> QED BY <3>1 DEF NodeId
  <2> QED BY <2>1, Lists
<1>5. ASSUME nodes[nx - 1].inputs[sd] \in ToSet(G[L].inputs)
      PROVE  Given(G, sd + 1)
  <2> SUFFICES ASSUME NEW g \in 1 .. L, NEW p \in 1 .. Len(G[g].node_ids),
                      NEW j \in 1 .. Len(nodes[G[g].node_ids[p]].inputs)
               PROVE  \/ p > 1 /\ j = 1
                      \/ nodes[G[g].node_ids[p]].inputs[j] \in ToSet(G[g].inputs)
                      \/ g = L /\ p = Len(G[g].node_ids) /\ j >= sd + 1
    <3>1. sd + 1 # 0
      BY <1>1
    <3> QED BY <3>1 DEF Given
  <2>1. j = sd \/ (j >= sd => j >= sd + 1)
    BY <1>1, <1>4
  <2> DEFINE x == nodes[G[g].node_ids[p]].inputs[j]
  <2>2. \/ p > 1 /\ j = 1
        \/ x \in ToSet(G[g].inputs)
        \/ g = L /\ p = Len(G[g].node_ids) /\ j >= sd /\ x = nodes[nx - 1].inputs[j]
    BY <1>3
  <2>3. CASE j = sd /\ x = nodes[nx - 1].inputs[j] /\ g = L
    BY <1>5, <2>3
  <2> QED BY <2>1, <2>2, <2>3
<1>6. ASSUME sd > Len(nodes[nx - 1].inputs)
      PROVE  Given(G, 0)
  <2> SUFFICES ASSUME NEW g \in 1 .. L, NEW p \in 1 .. Len(G[g].node_ids),
                      NEW j \in 1 .. Len(nodes[G[g].node_ids[p]].inputs)
               PROVE  \/ p > 1 /\ j = 1
                      \/ nodes[G[g].node_ids[p]].inputs[j] \in ToSet(G[g].inputs)
    BY DEF Given
  <2>1. ~(g = L /\ p = Len(G[g].node_ids) /\ j >= sd)
    <3> SUFFICES ASSUME g = L, p = Len(G[g].node_ids), j >= sd PROVE FALSE
      OBVIOUS
    <3>1. G[g].node_ids[p] = nx - 1
      BY <1>1
    <3>2. Len(nodes[nx - 1].inputs) \in Nat /\ j \in 1 .. Len(nodes[nx - 1].inputs)
      BY <1>4, <3>1
    <3> QED BY <1>1, <1>6, <3>2
  <2> QED BY <1>3, <2>1
<1> QED BY <1>1, <1>2, <1>5, <1>6 DEF Grouped

\* AddSideInput, when the tensor is new: the last group takes it as well.
LEMMA SideAdds ==
    ASSUME GraphInv, NEW G, NEW nx, NEW sd, Grouped(G, nx, sd), sd # 0,
           sd <= Len(nodes[nx - 1].inputs)
    PROVE  Grouped([G EXCEPT ![Len(G)].inputs = Append(@, nodes[nx - 1].inputs[sd])], nx, sd + 1)
<1> DEFINE L == Len(G)
           x == nodes[nx - 1].inputs[sd]
           ins == G[L].inputs
           ins2 == Append(ins, x)
           r == [G[L] EXCEPT !.inputs = ins2]
           G2 == [G EXCEPT ![L] = r]
<1>1. /\ Shaped(G, nx, sd) /\ Once(G, nx) /\ Chained(G) /\ Supplied(G) /\ Given(G, sd) /\ Headed(G)
      /\ G \in Seq(Group) /\ sd \in Nat /\ G # <<>> /\ sd >= 2
      /\ G[L].node_ids[Len(G[L].node_ids)] = nx - 1
  BY DEF Grouped, Shaped
<1>2. /\ L \in Nat /\ L \in 1 .. L /\ G[L] \in Group /\ ins \in Seq(Nat)
      /\ Len(G[L].node_ids) \in 1 .. Len(G[L].node_ids)
      /\ \A g \in 1 .. L : G[g] \in Group
      /\ \A g \in 1 .. L : Len(G[g].inputs) \in Nat /\ Len(G[g].node_ids) \in Nat
  BY <1>1, GroupLists DEF Shaped
<1>3. nx - 1 \in 1 .. (nx - 1) /\ nx \in 1 .. (Len(nodes) + 1) /\ Len(nodes) \in Nat
  BY <1>1, <1>2, Lists DEF Shaped
<1>4. nx \in Nat /\ nx - 1 \in NodeId /\ nx - 1 \in 1 .. nx
  BY <1>3 DEF NodeId
<1>5. sd \in DOMAIN nodes[nx - 1].inputs
  <2>1. /\ DOMAIN nodes[nx - 1].inputs = 1 .. Len(nodes[nx - 1].inputs)
        /\ Len(nodes[nx - 1].inputs) \in Nat
    BY <1>4, Lists
  <2> QED BY <1>1, <2>1
<1>6. /\ x \in TensorId
      /\ \/ tensors[x].producer = 0
         \/ \E h \in 1 .. L : /\ G[h].output = x
                              /\ G[h].node_ids[Len(G[h].node_ids)] \in 1 .. ((nx - 1) - 1)
  <2>1. sd # 1
    BY <1>1
  <2> QED BY <1>4, <1>5, <2>1, ReadFromGroup
<1>7. tensors[x].producer = 0 \/ \E h \in 1 .. (L - 1) : G[h].output = x
  <2> SUFFICES ASSUME NEW h \in 1 .. L, G[h].output = x,
                      G[h].node_ids[Len(G[h].node_ids)] \in 1 .. ((nx - 1) - 1)
               PROVE  h \in 1 .. (L - 1)
    BY <1>6
  <2>1. h # L
    BY <1>1, <1>3
  <2> QED BY <1>2, <2>1
<1>8. x \in Nat
  BY <1>6, Lists DEF TensorId
<1> HIDE DEF x
<1>9. /\ ins2 \in Seq(Nat) /\ Len(ins2) = Len(ins) + 1 /\ ins2[Len(ins) + 1] = x
      /\ \A j \in 1 .. Len(ins) : ins2[j] = ins[j]
  <2> HIDE DEF ins
  <2> QED BY <1>2, <1>8, AppendProperties
<1>10. ToSet(ins2) = ToSet(ins) \cup {x}
  <2>1. /\ \A y : y \in ToSet(ins2) <=> \E j \in 1 .. Len(ins2) : ins2[j] = y
        /\ \A y : y \in ToSet(ins) <=> \E j \in 1 .. Len(ins) : ins[j] = y
    <3> HIDE DEF ins2, ins
    <3> QED BY <1>2, <1>9, ToSetIs
  <2>2. 1 .. Len(ins2) = (1 .. Len(ins)) \cup {Len(ins) + 1}
    <3> HIDE DEF ins2
    <3> QED BY <1>2, <1>9
  <2> HIDE DEF ins2, ins
  <2> QED BY <1>9, <2>1, <2>2, SMTT(30)
<1>11. /\ r.inputs = ins2 /\ r.node_ids = G[L].node_ids /\ r.output = G[L].output /\ r \in Group
  <2> HIDE DEF ins2
  <2> QED BY <1>2, <1>9 DEF Group
<1>12. G2 = [G EXCEPT ![Len(G)].inputs = Append(@, x)]
  BY <1>1, <1>2
<1> HIDE DEF r
<1>13. /\ G2 \in Seq(Group) /\ Len(G2) = L
       /\ \A g \in 1 .. L : G2[g] = IF g = L THEN r ELSE G[g]
  BY <1>1, <1>2, <1>11, ExceptSeq
<1>14. /\ G2[L].inputs = ins2
       /\ \A g \in 1 .. L : G2[g].node_ids = G[g].node_ids /\ G2[g].output = G[g].output
       /\ \A g \in 1 .. L : g # L => G2[g] = G[g]
  BY <1>2, <1>11, <1>13
<1>15. L = Len(G) /\ ins = G[L].inputs
  OBVIOUS
<1> HIDE DEF G2, ins2, ins, L
<1>16. sd + 1 # 0 /\ sd + 1 \in Nat /\ sd + 1 >= 2 /\ G2 # <<>>
  BY <1>1, <1>2, <1>13
<1>17. Shaped(G2, nx, sd + 1)
  <2>1. ASSUME NEW g \in 1 .. L
        PROVE  /\ G2[g].node_ids # <<>>
               /\ \A p \in 1 .. Len(G2[g].node_ids) : G2[g].node_ids[p] \in 1 .. (nx - 1)
               /\ G2[g].output = nodes[G2[g].node_ids[Len(G2[g].node_ids)]].output
    BY <1>1, <1>14, <1>15 DEF Shaped
  <2>2. /\ Len(G2[L].node_ids) >= 2
        /\ G2[L].node_ids[Len(G2[L].node_ids)] = nx - 1
    BY <1>1, <1>2, <1>14, <1>15 DEF Shaped
  <2> QED BY <1>3, <1>13, <1>16, <2>1, <2>2 DEF Shaped
<1>18. Once(G2, nx)
  <2>1. \A g \in 1 .. Len(G) : G2[g].node_ids = G[g].node_ids
    BY <1>14, <1>15
  <2>2. Len(G2) = Len(G)
    BY <1>13, <1>15
  <2>3. \A i \in 1 .. (nx - 1) :
          \E g \in 1 .. Len(G2) : \E p \in 1 .. Len(G2[g].node_ids) : G2[g].node_ids[p] = i
    BY <1>1, <2>1, <2>2 DEF Once
  <2>4. ASSUME NEW g \in 1 .. Len(G2), NEW h \in 1 .. Len(G2),
               NEW p \in 1 .. Len(G2[g].node_ids), NEW q \in 1 .. Len(G2[h].node_ids),
               G2[g].node_ids[p] = G2[h].node_ids[q]
        PROVE  g = h /\ p = q
    <3>1. /\ g \in 1 .. Len(G) /\ h \in 1 .. Len(G)
          /\ p \in 1 .. Len(G[g].node_ids) /\ q \in 1 .. Len(G[h].node_ids)
          /\ G[g].node_ids[p] = G[h].node_ids[q]
      BY <2>1, <2>2, <2>4
    <3> QED BY <1>1, <3>1 DEF Once
  <2> QED BY <2>3, <2>4 DEF Once
<1>19. Chained(G2)
  BY <1>1, <1>13, <1>14, <1>15 DEF Chained
<1>20. Supplied(G2)
  <2> SUFFICES ASSUME NEW g \in 1 .. L, NEW j \in 1 .. Len(G2[g].inputs)
               PROVE  /\ G2[g].inputs[j] \in TensorId
                      /\ \/ tensors[G2[g].inputs[j]].producer = 0
                         \/ \E h \in 1 .. (g - 1) : G2[h].output = G2[g].inputs[j]
    BY <1>13 DEF Supplied
  <2>1. ASSUME NEW h \in 1 .. (g - 1) PROVE G2[h] = G[h]
    <3>1. h \in 1 .. L /\ h # L
      BY <1>2
    <3> QED BY <1>14, <3>1
  <2>2. CASE g # L
    <3>1. G2[g] = G[g]
      BY <1>14, <2>2
    <3> QED BY <1>1, <1>15, <2>1, <3>1, ZenonT(40) DEF Supplied
  <2>3. CASE g = L /\ j = Len(ins) + 1
    <3>1. G2[g].inputs[j] = x
      BY <1>9, <1>14, <2>3
    <3> QED BY <1>6, <1>7, <2>1, <2>3, <3>1
  <2>4. CASE g = L /\ j # Len(ins) + 1
    <3>1. j \in 1 .. Len(ins)
      BY <1>2, <1>9, <1>14, <1>15, <2>4
    <3>2. G2[g].inputs[j] = G[g].inputs[j] /\ j \in 1 .. Len(G[g].inputs)
      BY <1>9, <1>14, <1>15, <2>4, <3>1
    <3> QED BY <1>1, <1>15, <2>1, <3>2 DEF Supplied
  <2> QED BY <2>2, <2>3, <2>4
<1>21. Given(G2, sd + 1)
  <2> SUFFICES ASSUME NEW g \in 1 .. L, NEW p \in 1 .. Len(G[g].node_ids),
                      NEW j \in 1 .. Len(nodes[G[g].node_ids[p]].inputs)
               PROVE  \/ p > 1 /\ j = 1
                      \/ nodes[G[g].node_ids[p]].inputs[j] \in ToSet(G2[g].inputs)
                      \/ g = L /\ p = Len(G[g].node_ids) /\ j >= sd + 1
    <3>1. /\ Len(G2) = L /\ sd + 1 # 0
          /\ \A g \in 1 .. L : G2[g].node_ids = G[g].node_ids
      BY <1>13, <1>14, <1>16
    <3> QED BY <3>1, SMTT(30) DEF Given
  <2>1. \/ p > 1 /\ j = 1
        \/ nodes[G[g].node_ids[p]].inputs[j] \in ToSet(G[g].inputs)
        \/ g = L /\ p = Len(G[g].node_ids) /\ j >= sd
    BY <1>1, <1>15 DEF Given
  <2>2. ToSet(G[g].inputs) \subseteq ToSet(G2[g].inputs)
    BY <1>10, <1>14, <1>15
  <2>3. ASSUME g = L, p = Len(G[g].node_ids), j >= sd
        PROVE  \/ nodes[G[g].node_ids[p]].inputs[j] \in ToSet(G2[g].inputs)
               \/ j >= sd + 1
    <3>1. G[g].node_ids[p] = nx - 1 /\ Len(nodes[nx - 1].inputs) \in Nat
      BY <1>1, <1>4, <1>15, <2>3, Lists
    <3>2. j = sd \/ j >= sd + 1
      BY <1>1, <2>3, <3>1
    <3>3. x \in ToSet(G2[g].inputs)
      BY <1>10, <1>14, <2>3
    <3> QED BY <3>1, <3>2, <3>3 DEF x
  <2> QED BY <2>1, <2>2, <2>3
<1>22. Headed(G2)
  <2> SUFFICES ASSUME NEW g \in 1 .. L, Len(nodes[G[g].node_ids[1]].inputs) >= 1
               PROVE  Len(G2[g].inputs) >= 1 /\ G2[g].inputs[1] = nodes[G[g].node_ids[1]].inputs[1]
    BY <1>13, <1>14 DEF Headed
  <2>1. Len(G[g].inputs) >= 1 /\ G[g].inputs[1] = nodes[G[g].node_ids[1]].inputs[1]
    BY <1>1, <1>15 DEF Headed
  <2>2. CASE g = L
    <3>1. Len(ins) >= 1 /\ Len(ins) \in Nat
      BY <1>2, <1>15, <2>1, <2>2
    <3>2. Len(ins2) >= 1 /\ ins2[1] = ins[1]
      BY <1>9, <3>1
    <3> QED BY <1>14, <1>15, <2>1, <2>2, <3>2
  <2>3. CASE g # L
    BY <1>14, <2>1, <2>3
  <2> QED BY <2>2, <2>3
<1> QED BY <1>12, <1>17, <1>18, <1>19, <1>20, <1>21, <1>22 DEF Grouped, x

-----------------------------------------------------------------------------
(* The planner                                                              *)

FuseInv ==
    /\ Grouped(groups, next, side)
    /\ stage \in {"build", "topo"} => groups = <<>> /\ next = 1 /\ side = 0
    /\ stage \in {"build", "topo", "fuse", "rejected"} \/ (next = Len(nodes) + 1 /\ side = 0)

\* What every step of the planner keeps; the graph executor keeps it too.
PlanInv == GraphInv /\ ValidatorInv /\ FuseInv

LEMMA NoGroups ==
    ASSUME Len(nodes) \in Nat
    PROVE  Grouped(<<>>, 1, 0)
<1>1. Len(<<>>) = 0 /\ <<>> \in Seq(Group)
  OBVIOUS
<1>2. 1 \in 1 .. (Len(nodes) + 1) /\ 1 - 1 = 0
  OBVIOUS
<1>3. Shaped(<<>>, 1, 0)
  BY <1>1, <1>2 DEF Shaped
<1>4. Once(<<>>, 1)
  BY <1>1, <1>2 DEF Once
<1>5. Chained(<<>>) /\ Supplied(<<>>) /\ Given(<<>>, 0) /\ Headed(<<>>)
  BY <1>1 DEF Chained, Supplied, Given, Headed
<1> QED BY <1>3, <1>4, <1>5 DEF Grouped

LEMMA SameGroups ==
    ASSUME UNCHANGED graphVars, NEW G, NEW nx, NEW sd
    PROVE  Grouped(G, nx, sd)' = Grouped(G, nx, sd)
<1>1. tensors' = tensors /\ nodes' = nodes /\ inputs' = inputs /\ outputs' = outputs
  BY DEF graphVars
<1>2. \A x : Uses(x)' = Uses(x)
  BY <1>1 DEF Uses, NodeId
<1>3. Shaped(G, nx, sd)' = Shaped(G, nx, sd)
  BY <1>1 DEF Shaped
<1>4. Once(G, nx)' = Once(G, nx)
  BY DEF Once
<1>5. Chained(G)' = Chained(G)
  BY <1>1, <1>2 DEF Chained
<1>6. Supplied(G)' = Supplied(G)
  BY <1>1 DEF Supplied, TensorId
<1>7. Given(G, sd)' = Given(G, sd)
  BY <1>1 DEF Given
<1>8. Headed(G)' = Headed(G)
  BY <1>1 DEF Headed
<1> QED BY <1>3, <1>4, <1>5, <1>6, <1>7, <1>8 DEF Grouped

LEMMA PlanStarts == PlanInit => PlanInv
<1> SUFFICES ASSUME PlanInit PROVE PlanInv
  OBVIOUS
<1>1. GraphInv /\ ValidatorInv
  BY GraphStarts, ValidatorStarts DEF PlanInit
<1>2. groups = <<>> /\ next = 1 /\ side = 0 /\ stage = "build"
  BY DEF PlanInit, FuseInit, GraphInit
<1>3. Grouped(<<>>, 1, 0)
  BY <1>1, NoGroups, Lists
<1>4. FuseInv
  BY <1>2, <1>3 DEF FuseInv
<1> QED BY <1>1, <1>4 DEF PlanInv

LEMMA PlanBuilds ==
    ASSUME PlanInv, Build, UNCHANGED <<errors, topoVars, fuseVars>>
    PROVE  PlanInv' /\ stage = "build" /\ stage' = "build"
<1>1. GraphInv'
  BY BuildKeeps DEF PlanInv
<1>2. ValidatorInv' /\ stage = "build" /\ stage' = "build"
  BY ValidatorBuilds DEF PlanInv
<1>3. groups' = <<>> /\ next' = 1 /\ side' = 0
  BY <1>2 DEF PlanInv, FuseInv, fuseVars
<1>4. Len(nodes)' \in Nat
  BY <1>1 DEF GraphInv, GraphTypeOK
<1>5. Grouped(groups, next, side)'
  <2>1. Len(<<>>) = 0 /\ <<>> \in Seq(Group) /\ 1 \in 1 .. (Len(nodes') + 1) /\ 1 - 1 = 0
    BY <1>4
  <2>2. Shaped(groups, next, side)'
    BY <1>3, <2>1 DEF Shaped
  <2>3. Once(groups, next)'
    BY <1>3, <2>1 DEF Once
  <2>4. Chained(groups)' /\ Supplied(groups)' /\ Given(groups, side)' /\ Headed(groups)'
    BY <1>3, <2>1 DEF Chained, Supplied, Given, Headed
  <2> QED BY <2>2, <2>3, <2>4 DEF Grouped
<1>6. FuseInv'
  BY <1>2, <1>3, <1>5 DEF FuseInv
<1> QED BY <1>1, <1>2, <1>6 DEF PlanInv

LEMMA PlanValidates ==
    ASSUME PlanInv, Validate, UNCHANGED fuseVars
    PROVE  /\ PlanInv' /\ UNCHANGED graphVars
           /\ stage \in {"build", "topo"} /\ stage' \in {"topo", "fuse", "rejected"}
<1>1. /\ ValidatorInv' /\ UNCHANGED graphVars
      /\ stage \in {"build", "topo"} /\ stage' \in {"topo", "fuse", "rejected"}
  BY ValidateKeeps DEF PlanInv
<1>2. GraphInv'
  BY <1>1, GraphSame DEF PlanInv
<1>3. groups' = groups /\ next' = next /\ side' = side
  BY DEF fuseVars
<1>4. Grouped(groups, next, side)'
  BY <1>1, <1>3, SameGroups DEF PlanInv, FuseInv
<1>5. FuseInv'
  BY <1>1, <1>3, <1>4 DEF PlanInv, FuseInv
<1> QED BY <1>1, <1>2, <1>5 DEF PlanInv

LEMMA PlanFuses ==
    ASSUME PlanInv, Fuse
    PROVE  /\ PlanInv' /\ UNCHANGED graphVars
           /\ stage = "fuse" /\ stage' \in {"fuse", "compile", "rejected"}
<1>1. UNCHANGED <<graphVars, errors, topoVars>> /\ UNCHANGED graphVars
  BY DEF Fuse
<1>2. /\ GraphInv /\ ValidatorInv /\ Grouped(groups, next, side)
      /\ next \in 1 .. (Len(nodes) + 1) /\ Len(nodes) \in Nat
  BY Lists DEF PlanInv, FuseInv, Grouped, Shaped
<1>3. stage = "fuse" /\ stage' \in {"fuse", "compile", "rejected"}
  BY DEF Fuse, ExtendGroup, AddSideInput, SideInputsDone, NewGroup, FuseEnd
<1>4. GraphInv' /\ ValidatorInv'
  BY <1>1, <1>2, <1>3, GraphSame, ValidatorSame
<1>5. Grouped(groups', next', side')
  <2>1. CASE ExtendGroup
    <3>1. next \in NodeId
      BY <1>2, <2>1 DEF ExtendGroup, NodeId
    <3>2. /\ side = 0 /\ groups # <<>> /\ CanExtend(groups[Len(groups)], next)
          /\ groups' = [groups EXCEPT ![Len(groups)] =
                          [groups[Len(groups)] EXCEPT !.node_ids = Append(@, next),
                                                      !.output = nodes[next].output]]
          /\ side' = 2 /\ next' = next + 1
      BY <2>1 DEF ExtendGroup, LastGroup
    <3> QED BY <1>2, <3>1, <3>2, ExtendKeeps
  <2>2. CASE NewGroup
    <3>1. next \in NodeId
      BY <1>2, <2>2 DEF NewGroup, NodeId
    <3>2. /\ side = 0
          /\ groups' = Append(groups, [node_ids |-> <<next>>, inputs |-> nodes[next].inputs,
                                       output |-> nodes[next].output])
          /\ side' = 0 /\ next' = next + 1
      BY <2>2 DEF NewGroup
    <3> QED BY <1>2, <3>1, <3>2, NewGroupKeeps
  <2>3. CASE AddSideInput
    <3>1. /\ side # 0 /\ side <= Len(nodes[next - 1].inputs) /\ next' = next /\ side' = side + 1
      BY <2>3 DEF AddSideInput
    <3>2. CASE nodes[next - 1].inputs[side] \in ToSet(groups[Len(groups)].inputs)
      <4>1. groups' = groups
        BY <2>3, <3>2 DEF AddSideInput, LastGroup
      <4> QED BY <1>2, <3>1, <3>2, <4>1, SideAdvances
    <3>3. CASE nodes[next - 1].inputs[side] \notin ToSet(groups[Len(groups)].inputs)
      <4>1. groups' = [groups EXCEPT ![Len(groups)].inputs = Append(@, nodes[next - 1].inputs[side])]
        BY <2>3, <3>3 DEF AddSideInput, LastGroup
      <4> QED BY <1>2, <3>1, <4>1, SideAdds
    <3> QED BY <3>2, <3>3
  <2>4. CASE SideInputsDone
    <3>1. /\ side # 0 /\ side > Len(nodes[next - 1].inputs) /\ side' = 0
          /\ groups' = groups /\ next' = next
      BY <2>4 DEF SideInputsDone
    <3> QED BY <1>2, <3>1, SideAdvances
  <2>5. CASE FuseEnd
    BY <1>2, <2>5 DEF FuseEnd, fuseVars
  <2> QED BY <2>1, <2>2, <2>3, <2>4, <2>5 DEF Fuse
<1>6. Grouped(groups, next, side)'
  BY <1>1, <1>5, SameGroups
<1>7. stage' \in {"fuse", "rejected"} \/ (next' = Len(nodes') + 1 /\ side' = 0)
  <2>1. CASE FuseEnd
    <3>1. side = 0 /\ next > Len(nodes) /\ next' = next /\ side' = side
      BY <2>1 DEF FuseEnd, fuseVars
    <3>2. next = Len(nodes) + 1
      BY <1>2, <3>1
    <3> QED BY <1>1, <3>1, <3>2 DEF graphVars
  <2>2. CASE ~FuseEnd
    BY <1>3, <2>2 DEF Fuse, ExtendGroup, AddSideInput, SideInputsDone, NewGroup
  <2> QED BY <2>1, <2>2
<1>8. FuseInv'
  BY <1>3, <1>6, <1>7 DEF FuseInv
<1> QED BY <1>1, <1>3, <1>4, <1>8 DEF PlanInv

\* Steps that leave the plan alone, and take it only further than "fuse".
LEMMA PlanSame ==
    ASSUME PlanInv, UNCHANGED <<graphVars, errors, topoVars, fuseVars>>,
           \/ stage' = stage
           \/ stage \notin {"build", "topo", "fuse", "rejected"} /\ stage' \notin {"build", "topo"}
    PROVE  PlanInv'
<1>1. /\ UNCHANGED graphVars /\ UNCHANGED <<graphVars, errors, topoVars>> /\ UNCHANGED fuseVars
  OBVIOUS
<1>2. GraphInv' /\ ValidatorInv'
  BY <1>1, GraphSame, ValidatorSame DEF PlanInv
<1>3. groups' = groups /\ next' = next /\ side' = side /\ nodes' = nodes
  BY <1>1 DEF fuseVars, graphVars
<1>4. Grouped(groups, next, side)'
  BY <1>1, <1>3, SameGroups DEF PlanInv, FuseInv
<1>5. FuseInv'
  BY <1>3, <1>4 DEF PlanInv, FuseInv
<1> QED BY <1>2, <1>5 DEF PlanInv

-----------------------------------------------------------------------------
(* What the invariant says                                                  *)

LEMMA GroupsAre ==
    ASSUME PlanInv
    PROVE  /\ GraphInv /\ Shaped(groups, next, side) /\ Once(groups, next) /\ Chained(groups)
           /\ Supplied(groups) /\ Given(groups, side) /\ Headed(groups)
           /\ groups \in Seq(Group) /\ GroupId = 1 .. Len(groups)
           /\ next \in 1 .. (Len(nodes) + 1) /\ side \in Nat /\ Len(nodes) \in Nat
BY Lists DEF PlanInv, FuseInv, Grouped, Shaped, GroupId

LEMMA PartitionFollows == PlanInv => Partition
<1> SUFFICES ASSUME PlanInv, NEW i \in 1 .. (next - 1)
             PROVE  \E g \in GroupId : \E p \in DOMAIN groups[g].node_ids :
                      /\ groups[g].node_ids[p] = i
                      /\ \A h \in GroupId : \A q \in DOMAIN groups[h].node_ids :
                           groups[h].node_ids[q] = i => h = g /\ q = p
  BY DEF Partition
<1>1. /\ Once(groups, next) /\ groups \in Seq(Group) /\ GroupId = 1 .. Len(groups)
  BY GroupsAre
<1>2. \A g \in GroupId : DOMAIN groups[g].node_ids = 1 .. Len(groups[g].node_ids)
  BY <1>1, GroupLists
<1>3. PICK g \in GroupId : \E p \in DOMAIN groups[g].node_ids : groups[g].node_ids[p] = i
  BY <1>1, <1>2 DEF Once
<1>4. PICK p \in DOMAIN groups[g].node_ids : groups[g].node_ids[p] = i
  BY <1>3
<1>5. ASSUME NEW h \in GroupId, NEW q \in DOMAIN groups[h].node_ids, groups[h].node_ids[q] = i
      PROVE  h = g /\ q = p
  <2>1. /\ h \in 1 .. Len(groups) /\ g \in 1 .. Len(groups)
        /\ p \in 1 .. Len(groups[g].node_ids) /\ q \in 1 .. Len(groups[h].node_ids)
        /\ groups[h].node_ids[q] = groups[g].node_ids[p]
    BY <1>1, <1>2, <1>4, <1>5
  <2> QED BY <1>1, <2>1 DEF Once
<1> QED BY <1>4, <1>5

\* A complete plan leaves every tensor the caller asked for where the executor
\* can copy it from.
LEMMA OutputsLeft ==
    ASSUME PlanInv, next = Len(nodes) + 1, NEW k \in DOMAIN outputs
    PROVE  \/ tensors[outputs[k]].producer = 0
           \/ \E g \in GroupId : groups[g].output = outputs[k]
<1> DEFINE x == outputs[k]
           i == tensors[x].producer
<1>1. /\ GraphInv /\ Shaped(groups, next, side) /\ Once(groups, next) /\ Chained(groups)
      /\ groups \in Seq(Group) /\ GroupId = 1 .. Len(groups) /\ Len(nodes) \in Nat
  BY GroupsAre
<1>2. x \in TensorId
  BY <1>1, Lists DEF GraphInv, WellFormed
<1>3. i = 0 \/ (i \in NodeId /\ nodes[i].output = x)
  BY <1>1, <1>2 DEF GraphInv, WellFormed
<1>4. ASSUME i \in NodeId, nodes[i].output = x
      PROVE  \E g \in GroupId : groups[g].output = x
  <2>1. i \in 1 .. (next - 1)
    BY <1>1, <1>4 DEF NodeId
  <2>2. PICK g \in GroupId : \E p \in 1 .. Len(groups[g].node_ids) : groups[g].node_ids[p] = i
    <3> HIDE DEF i
    <3> QED BY <1>1, <2>1 DEF Once
  <2>3. PICK p \in 1 .. Len(groups[g].node_ids) : groups[g].node_ids[p] = i
    BY <2>2
  <2>4. Len(groups[g].node_ids) \in Nat /\ g \in 1 .. Len(groups)
    BY <1>1, GroupLists
  <2>5. p = Len(groups[g].node_ids)
    <3> SUFFICES ASSUME p \in 1 .. (Len(groups[g].node_ids) - 1) PROVE FALSE
      BY <2>4
    <3>1. Uses(x) = {<<groups[g].node_ids[p + 1], 1>>}
      <4> HIDE DEF x
      <4> QED BY <1>1, <1>4, <2>3, <2>4 DEF Chained
    <3>2. <<0, k>> \in Uses(x)
      BY UsesAre
    <3>3. groups[g].node_ids[p + 1] = 0
      BY <3>1, <3>2
    <3>4. groups[g].node_ids[p + 1] \in 1 .. (next - 1)
      BY <1>1, <2>4 DEF Shaped
    <3> QED BY <3>3, <3>4
  <2>6. groups[g].output = nodes[i].output
    BY <1>1, <2>3, <2>4, <2>5 DEF Shaped
  <2> QED BY <1>4, <2>6
<1> QED BY <1>3, <1>4

LEMMA HiddenFollows == PlanInv => HiddenUnread
<1> SUFFICES ASSUME PlanInv PROVE HiddenUnread
  OBVIOUS
<1>1. \A g \in GroupId : \A p \in 1 .. (Len(groups[g].node_ids) - 1) :
        Uses(nodes[groups[g].node_ids[p]].output) = {<<groups[g].node_ids[p + 1], 1>>}
  BY GroupsAre DEF Chained
<1>2. stage = "compile" => next = Len(nodes) + 1
  BY DEF PlanInv, FuseInv
<1>3. stage = "compile" =>
        \A k \in DOMAIN outputs : \/ tensors[outputs[k]].producer = 0
                                  \/ \E g \in GroupId : groups[g].output = outputs[k]
  BY <1>2, OutputsLeft
<1> QED BY <1>1, <1>3 DEF HiddenUnread

LEMMA SuppliedFollows == PlanInv => InputsSupplied
<1> SUFFICES ASSUME PlanInv PROVE InputsSupplied
  OBVIOUS
<1>1. /\ GraphInv /\ Shaped(groups, next, side) /\ Supplied(groups) /\ Given(groups, side)
      /\ groups \in Seq(Group) /\ GroupId = 1 .. Len(groups)
      /\ next \in 1 .. (Len(nodes) + 1) /\ Len(nodes) \in Nat
  BY GroupsAre
<1>2. \A g \in GroupId : /\ DOMAIN groups[g].inputs = 1 .. Len(groups[g].inputs)
                         /\ DOMAIN groups[g].node_ids = 1 .. Len(groups[g].node_ids)
  BY <1>1, GroupLists
<1>3. \A g \in GroupId : \A j \in DOMAIN groups[g].inputs :
        \/ tensors[groups[g].inputs[j]].producer = 0
        \/ \E h \in 1 .. (g - 1) : groups[h].output = groups[g].inputs[j]
  BY <1>1, <1>2 DEF Supplied
<1>4. ASSUME side = 0, NEW g \in GroupId, NEW p \in DOMAIN groups[g].node_ids,
             NEW j \in DOMAIN nodes[groups[g].node_ids[p]].inputs
      PROVE  (p > 1 /\ j = 1) \/ nodes[groups[g].node_ids[p]].inputs[j] \in ToSet(groups[g].inputs)
  <2>1. groups[g].node_ids[p] \in 1 .. (next - 1)
    BY <1>1, <1>2 DEF Shaped
  <2>2. groups[g].node_ids[p] \in NodeId
    BY <1>1, <2>1 DEF NodeId
  <2>3. j \in 1 .. Len(nodes[groups[g].node_ids[p]].inputs)
    BY <1>1, <2>2, Lists
  <2> QED BY <1>1, <1>2, <1>4, <2>3 DEF Given
<1> QED BY <1>3, <1>4 DEF InputsSupplied

LEMMA ConsistentFollows == PlanInv /\ stage \in Stages => PlanConsistent
<1> SUFFICES ASSUME PlanInv, stage \in Stages PROVE PlanConsistent
  OBVIOUS
<1>1. groups \in Seq(Group) /\ next \in Nat \ {0} /\ side \in Nat
  BY GroupsAre
<1> QED BY <1>1 DEF PlanConsistent, PlanInv, GraphInv, ValidatorInv

-----------------------------------------------------------------------------
(* The theorems                                                             *)

PlanStage == stage \in {"build", "topo", "fuse", "compile", "rejected"}

\* PlanInv is inductive: AneGraph's interface, GraphValidator::validate and
\* FusionRules::compute_groups keep the graph, Kahn's loop and the groups
\* consistent, for graphs of any size.
THEOREM PlanInvariant == PlanSpec => [](PlanInv /\ PlanStage)
<1>1. PlanInit => PlanInv /\ PlanStage
  BY PlanStarts DEF PlanInit, GraphInit, PlanStage
<1>2. PlanInv /\ PlanStage /\ [PlanNext]_planVars => (PlanInv /\ PlanStage)'
  <2> SUFFICES ASSUME PlanInv, PlanStage, [PlanNext]_planVars PROVE PlanInv' /\ PlanStage'
    OBVIOUS
  <2>1. CASE Build /\ UNCHANGED <<errors, topoVars, fuseVars>>
    BY <2>1, PlanBuilds DEF PlanStage
  <2>2. CASE Validate /\ UNCHANGED fuseVars
    BY <2>2, PlanValidates DEF PlanStage
  <2>3. CASE Fuse
    BY <2>3, PlanFuses DEF PlanStage
  <2>4. CASE UNCHANGED planVars
    <3>1. UNCHANGED <<graphVars, errors, topoVars, fuseVars>> /\ stage' = stage
      BY <2>4 DEF planVars
    <3> QED BY <3>1, PlanSame DEF PlanStage
  <2> QED BY <2>1, <2>2, <2>3, <2>4 DEF PlanNext, PlanDone
<1> QED BY <1>1, <1>2, PTL DEF PlanSpec

\* A graph built through the interface is closed and acyclic, and stays so
\* while it is compiled; in particular Kahn's degrees never go below zero.
THEOREM GraphClosed == PlanSpec => []PlanConsistent
<1>1. PlanInv /\ PlanStage => PlanConsistent
  BY ConsistentFollows DEF PlanStage, Stages
<1> QED BY <1>1, PlanInvariant, PTL

\* check_topo takes every node once, after the nodes it reads from, and no
\* graph is refused for its edges.
THEOREM KahnCorrect == PlanSpec => []KahnRight
<1>1. PlanInv => KahnRight
  BY KahnFollows DEF PlanInv
<1> QED BY <1>1, PlanInvariant, PTL

\* compute_groups puts every node in one group, once.
THEOREM GroupsPartition == PlanSpec => []Partition
BY PartitionFollows, PlanInvariant, PTL

\* A tensor that fusing hides has no other reader, and every output of the
\* graph is left behind by a group.
THEOREM NothingMissed == PlanSpec => []HiddenUnread
BY HiddenFollows, PlanInvariant, PTL

\* Every group finds its inputs made by the groups before it, although
\* can_extend looks at only one side input.
THEOREM GroupsSupplied == PlanSpec => []InputsSupplied
BY SuppliedFollows, PlanInvariant, PTL

-----------------------------------------------------------------------------
(* Running a body                                                           *)

\* The variables S[k] after the first k statements of a body.
Trace(S, body, env, blobs) ==
    S[0] = env /\ \A k \in 1 .. Len(body) : S[k] = Exec(S[k - 1], body[k], blobs)

\* The recursion that defines Run has a solution.
LEMMA RunExists ==
    ASSUME NEW body, Len(body) \in Nat, NEW env, NEW blobs
    PROVE  \E f : f = [k \in 0 .. Len(body) |->
                         IF k = 0 THEN env ELSE Exec(f[k - 1], body[k], blobs)]
<1> DEFINE F(m, f) == [k \in 0 .. m |-> IF k = 0 THEN env ELSE Exec(f[k - 1], body[k], blobs)]
           Bad == {m \in Nat : ~\E f : f = F(m, f)}
<1>1. Bad = {}
  <2> SUFFICES ASSUME Bad # {} PROVE FALSE
    OBVIOUS
  <2>1. PICK m \in Bad : \A n \in Bad : m <= n
    <3>1. Bad \in SUBSET Nat
      OBVIOUS
    <3> HIDE DEF Bad
    <3> QED BY <3>1, Least
  <2>2. m \in Nat /\ ~\E f : f = F(m, f)
    OBVIOUS
  <2>3. CASE m = 0
    <3> DEFINE e == [k \in 0 .. 0 |-> env]
    <3>1. \A k \in 0 .. 0 : k = 0
      OBVIOUS
    <3>2. e = F(0, e)
      BY <3>1
    <3> QED BY <2>2, <2>3, <3>2, Zenon
  <2>4. CASE m # 0
    <3>1. m - 1 \in Nat /\ ~(m <= m - 1)
      BY <2>2, <2>4
    <3>2. m - 1 \notin Bad
      BY <2>1, <3>1, Zenon
    <3>3. PICK f : f = F(m - 1, f)
      BY <3>1, <3>2
    <3> DEFINE g == F(m, f)
    <3>4. ASSUME NEW k \in 0 .. m, k # 0 PROVE g[k - 1] = f[k - 1]
      <4>1. k - 1 \in 0 .. (m - 1) /\ k - 1 \in 0 .. m
        BY <2>2, <3>4
      <4>2. g[k - 1] = IF k - 1 = 0 THEN env ELSE Exec(f[(k - 1) - 1], body[k - 1], blobs)
        BY <4>1
      <4>3. f[k - 1] = IF k - 1 = 0 THEN env ELSE Exec(f[(k - 1) - 1], body[k - 1], blobs)
        BY <3>3, <4>1
      <4> QED BY <4>2, <4>3
    <3>5. g = F(m, g)
      BY <3>4, Zenon
    <3> QED BY <2>2, <3>5, Zenon
  <2> QED BY <2>3, <2>4
<1> QED BY <1>1

\* Run gives the variables after the last statement.
LEMMA RunIs ==
    ASSUME NEW body, Len(body) \in Nat, NEW env, NEW blobs
    PROVE  \E S : /\ Trace(S, body, env, blobs)
                  /\ Run(body, env, blobs) = S[Len(body)]
<1> DEFINE S == CHOOSE f : f = [k \in 0 .. Len(body) |->
                                  IF k = 0 THEN env ELSE Exec(f[k - 1], body[k], blobs)]
<1>1. Run(body, env, blobs) = S[Len(body)]
  BY DEF Run
<1>2. S = [k \in 0 .. Len(body) |-> IF k = 0 THEN env ELSE Exec(S[k - 1], body[k], blobs)]
  BY RunExists
<1> HIDE DEF S
<1>3. S[0] = env
  BY <1>2
<1>4. ASSUME NEW k \in 1 .. Len(body) PROVE S[k] = Exec(S[k - 1], body[k], blobs)
  <2>1. k \in 0 .. Len(body) /\ k # 0
    OBVIOUS
  <2> QED BY <1>2, <2>1
<1> QED BY <1>1, <1>3, <1>4 DEF Trace

\* There is one such sequence of variables.
LEMMA TraceOne ==
    ASSUME NEW body, Len(body) \in Nat, NEW env, NEW blobs,
           NEW S, Trace(S, body, env, blobs), NEW R, Trace(R, body, env, blobs)
    PROVE  \A k \in 0 .. Len(body) : S[k] = R[k]
<1> DEFINE Bad == {k \in 0 .. Len(body) : S[k] # R[k]}
<1> SUFFICES ASSUME Bad # {} PROVE FALSE
  OBVIOUS
<1>1. PICK k \in Bad : \A n \in Bad : k <= n
  <2>1. Bad \in SUBSET Nat
    OBVIOUS
  <2> HIDE DEF Bad
  <2> QED BY <2>1, Least
<1>2. k \in 0 .. Len(body) /\ S[k] # R[k]
  OBVIOUS
<1>3. k # 0
  BY <1>2 DEF Trace
<1>4. k \in 1 .. Len(body) /\ k - 1 \in 0 .. Len(body) /\ ~(k <= k - 1)
  BY <1>2, <1>3
<1>5. S[k - 1] = R[k - 1]
  BY <1>1, <1>4
<1> QED BY <1>2, <1>4, <1>5 DEF Trace

LEMMA RunTrace ==
    ASSUME NEW body, Len(body) \in Nat, NEW env, NEW blobs, NEW S, Trace(S, body, env, blobs)
    PROVE  Run(body, env, blobs) = S[Len(body)]
<1>1. PICK R : Trace(R, body, env, blobs) /\ Run(body, env, blobs) = R[Len(body)]
  BY RunIs
<1>2. Len(body) \in 0 .. Len(body)
  OBVIOUS
<1> QED BY <1>1, <1>2, TraceOne

\* The type and the value of the variable a statement gives.
Outcome(env, st, blobs) ==
    LET ts == Operands(env, st)
        at == Attributes(env, st)
        type == IF st.op \in Consts THEN st.type ELSE TypeOf(st.op, ts, at)
    IN [type |-> type, val |-> ValueOf(st, type, ts, at, blobs)]

\* The variables after a statement.
LEMMA ExecIs ==
    ASSUME NEW env, NEW st, NEW blobs
    PROVE  Exec(env, st, blobs) = [n \in DOMAIN env \cup {st.name} |->
                                     IF n = st.name THEN Outcome(env, st, blobs) ELSE env[n]]
BY DEF Exec, Outcome

LEMMA ExecNew ==
    ASSUME NEW env, NEW st, NEW blobs
    PROVE  Exec(env, st, blobs)[st.name] = Outcome(env, st, blobs)
BY ExecIs, Zenon

LEMMA ExecDomain ==
    ASSUME NEW env, NEW st, NEW blobs, NEW n
    PROVE  n \in DOMAIN Exec(env, st, blobs) <=> n \in DOMAIN env \/ n = st.name
BY ExecIs, Zenon

LEMMA ExecOld ==
    ASSUME NEW env, NEW st, NEW blobs, NEW n \in DOMAIN env, n # st.name
    PROVE  Exec(env, st, blobs)[n] = env[n]
BY ExecIs, Zenon

LEMMA ExecFile ==
    ASSUME NEW env, NEW st, NEW blobs, st.op = "file"
    PROVE  Exec(env, st, blobs)[st.name] = [type |-> st.type, val |-> blobs[st.val]]
<1>1. Outcome(env, st, blobs) = [type |-> st.type, val |-> blobs[st.val]]
  BY DEF Outcome, ValueOf, Consts
<1> QED BY <1>1, ExecNew

LEMMA ExecLit ==
    ASSUME NEW env, NEW st, NEW blobs, st.op = "lit"
    PROVE  Exec(env, st, blobs)[st.name] = [type |-> st.type, val |-> [i \in {0} |-> st.val]]
<1>1. Outcome(env, st, blobs) = [type |-> st.type, val |-> [i \in {0} |-> st.val]]
  BY DEF Outcome, ValueOf, Consts
<1> QED BY <1>1, ExecNew

LEMMA ExecAttr ==
    ASSUME NEW env, NEW st, NEW blobs, st.op = "attr"
    PROVE  Exec(env, st, blobs)[st.name] = [type |-> st.type, val |-> st.val]
<1>1. Outcome(env, st, blobs) = [type |-> st.type, val |-> st.val]
  BY DEF Outcome, ValueOf, Consts
<1> QED BY <1>1, ExecNew

\* What an operation that is no constant gives.
Computed(op, ts, at) ==
    LET d == TypeOf(op, ts, at).dims IN
    [type |-> TypeOf(op, ts, at),
     val |-> [i \in Index(d) |-> ElementAt(op, ts, at, Coord(d, i))]]

LEMMA ExecOp ==
    ASSUME NEW env, NEW st, NEW blobs, st.op \notin Consts
    PROVE  Exec(env, st, blobs)[st.name] =
             Computed(st.op, Operands(env, st), Attributes(env, st))
<1> DEFINE ts == Operands(env, st)
           at == Attributes(env, st)
           type == TypeOf(st.op, ts, at)
<1>1. st.op # "lit" /\ st.op # "attr" /\ st.op # "file"
  BY DEF Consts
<1>2. Outcome(env, st, blobs) = [type |-> type, val |-> ValueOf(st, type, ts, at, blobs)]
  BY DEF Outcome
<1> HIDE DEF type, ts, at
<1>3. ValueOf(st, type, ts, at, blobs) =
        [i \in Index(type.dims) |-> ElementAt(st.op, ts, at, Coord(type.dims, i))]
  BY <1>1 DEF ValueOf
<1>4. Outcome(env, st, blobs) = Computed(st.op, ts, at)
  BY <1>2, <1>3 DEF Computed, type
<1> QED BY <1>4, ExecNew DEF ts, at

\* A body of two statements.
LEMMA RunTwo ==
    ASSUME NEW a, NEW b, NEW env, NEW blobs
    PROVE  Run(<<a, b>>, env, blobs) = Exec(Exec(env, a, blobs), b, blobs)
<1>1. Len(<<a, b>>) = 2 /\ <<a, b>>[1] = a /\ <<a, b>>[2] = b
  OBVIOUS
<1>2. PICK S : Trace(S, <<a, b>>, env, blobs) /\ Run(<<a, b>>, env, blobs) = S[Len(<<a, b>>)]
  BY <1>1, RunIs, Zenon
<1>3. 1 \in 1 .. 2 /\ 2 \in 1 .. 2 /\ 1 - 1 = 0 /\ 2 - 1 = 1
  OBVIOUS
<1> QED BY <1>1, <1>2, <1>3 DEF Trace

-----------------------------------------------------------------------------
(* What a run settles                                                       *)

\* The names a body gives.
Gives(body) == {body[k].name : k \in 1 .. Len(body)}

\* Every statement of a body gives a name of its own.
Apart(body) == \A k, l \in 1 .. Len(body) : body[k].name = body[l].name => k = l

\* A statement reads what is in `from` or what a statement before it gives.
Supply(body, from) ==
    \A k \in 1 .. Len(body) : \A n \in Reads(body[k]) :
        n \in from \/ \E l \in 1 .. (k - 1) : body[l].name = n

\* Every variable that a body gives has the outcome of its statement.
Settled(F, body, blobs) ==
    \A k \in 1 .. Len(body) : F[body[k].name] = Outcome(F, body[k], blobs)

\* An outcome depends on what the statement reads.
LEMMA OutcomeLocal ==
    ASSUME NEW st, NEW E, NEW F, NEW b, NEW c,
           \A n \in Reads(st) : E[n] = F[n],
           st.op = "file" => b[st.val] = c[st.val]
    PROVE  Outcome(E, st, b) = Outcome(F, st, c)
<1>1. \A k \in DOMAIN st.args : E[st.args[k]] = F[st.args[k]]
  BY DEF Reads, ToSet
<1>2. Operands(E, st) = Operands(F, st)
  BY <1>1 DEF Operands
<1>3. \A k \in DOMAIN st.attrs : E[st.attrs[k]] = F[st.attrs[k]]
  BY DEF Reads, ToSet
<1>4. Attributes(E, st) = Attributes(F, st)
  BY <1>3 DEF Attributes
<1> DEFINE ts == Operands(E, st)
           at == Attributes(E, st)
           type == IF st.op \in Consts THEN st.type ELSE TypeOf(st.op, ts, at)
<1>5. ValueOf(st, type, ts, at, b) = ValueOf(st, type, ts, at, c)
  <2> HIDE DEF ts, at, type
  <2>1. CASE st.op = "file"
    BY <2>1 DEF ValueOf
  <2>2. CASE st.op # "file"
    BY <2>2 DEF ValueOf
  <2> QED BY <2>1, <2>2
<1>6. Outcome(E, st, b) = [type |-> type, val |-> ValueOf(st, type, ts, at, b)]
  BY DEF Outcome
<1>7. Outcome(F, st, c) = [type |-> type, val |-> ValueOf(st, type, ts, at, c)]
  BY <1>2, <1>4 DEF Outcome
<1> HIDE DEF ts, at, type
<1> QED BY <1>5, <1>6, <1>7

\* What no statement from j + 1 on gives stays as it is after j statements.
LEMMA TraceKeeps ==
    ASSUME NEW body, Len(body) \in Nat, NEW env, NEW blobs, NEW S, Trace(S, body, env, blobs),
           NEW j \in 0 .. Len(body), NEW n \in DOMAIN S[j],
           \A l \in (j + 1) .. Len(body) : body[l].name # n
    PROVE  \A k \in j .. Len(body) : n \in DOMAIN S[k] /\ S[k][n] = S[j][n]
<1> DEFINE P(k) == n \in DOMAIN S[k] /\ S[k][n] = S[j][n]
           Bad == {k \in j .. Len(body) : ~P(k)}
<1> SUFFICES ASSUME Bad # {} PROVE FALSE
  OBVIOUS
<1>1. PICK k \in Bad : \A m \in Bad : k <= m
  <2>1. Bad \in SUBSET Nat
    OBVIOUS
  <2> HIDE DEF Bad
  <2> QED BY <2>1, Least, Zenon
<1>2. k \in j .. Len(body) /\ ~P(k)
  OBVIOUS
<1>3. k # j
  BY <1>2
<1>4. /\ k \in 1 .. Len(body) /\ k - 1 \in j .. Len(body) /\ ~(k <= k - 1)
      /\ k \in (j + 1) .. Len(body)
  BY <1>2, <1>3
<1>5. P(k - 1)
  BY <1>1, <1>4
<1>6. S[k] = Exec(S[k - 1], body[k], blobs) /\ body[k].name # n
  BY <1>4 DEF Trace
<1>7. n \in DOMAIN S[k]
  BY <1>5, <1>6, ExecDomain
<1>8. S[k][n] = S[k - 1][n]
  BY <1>5, <1>6, ExecOld
<1> QED BY <1>2, <1>5, <1>7, <1>8

\* A run of a body whose names differ and that is supplied settles every
\* variable: each has, in the end, the outcome of its statement in the end.
LEMMA RunSettles ==
    ASSUME NEW body, Len(body) \in Nat, NEW env, NEW blobs,
           Apart(body), Supply(body, DOMAIN env), DOMAIN env \cap Gives(body) = {}
    PROVE  LET F == Run(body, env, blobs) IN
           /\ \A n \in DOMAIN env : F[n] = env[n]
           /\ Settled(F, body, blobs)
<1> DEFINE m == Len(body)
           F == Run(body, env, blobs)
<1>1. PICK S : Trace(S, body, env, blobs) /\ F = S[m]
  BY RunIs
<1>2. m \in Nat /\ 0 \in 0 .. m /\ m \in 0 .. m
  OBVIOUS
<1>3. ASSUME NEW n \in DOMAIN env, NEW k \in 0 .. m
      PROVE  S[k][n] = env[n]
  <2>1. S[0] = env
    BY <1>1 DEF Trace
  <2>2. \A l \in (0 + 1) .. m : body[l].name # n
    BY DEF Gives
  <2>3. n \in DOMAIN S[0]
    BY <2>1
  <2> HIDE DEF m, F
  <2>4. S[k][n] = S[0][n]
    BY <1>1, <1>2, <2>2, <2>3, TraceKeeps DEF m
  <2> QED BY <2>1, <2>4
<1>4. ASSUME NEW j \in 1 .. m, NEW k \in j .. m
      PROVE  S[k][body[j].name] = Outcome(S[j - 1], body[j], blobs)
  <2>1. S[j] = Exec(S[j - 1], body[j], blobs)
    BY <1>1 DEF Trace
  <2>2. body[j].name \in DOMAIN S[j] /\ S[j][body[j].name] = Outcome(S[j - 1], body[j], blobs)
    BY <2>1, ExecDomain, ExecNew
  <2>3. j \in 0 .. m
    OBVIOUS
  <2>4. \A l \in (j + 1) .. m : body[l].name # body[j].name
    BY DEF Apart
  <2> HIDE DEF m, F
  <2>5. S[k][body[j].name] = S[j][body[j].name]
    BY <1>1, <1>2, <2>2, <2>3, <2>4, TraceKeeps DEF m
  <2> QED BY <2>2, <2>5
<1>5. ASSUME NEW k \in 1 .. m PROVE F[body[k].name] = Outcome(F, body[k], blobs)
  <2>1. F[body[k].name] = Outcome(S[k - 1], body[k], blobs)
    BY <1>1, <1>4
  <2>2. ASSUME NEW n \in Reads(body[k]) PROVE S[k - 1][n] = F[n]
    <3>1. CASE n \in DOMAIN env
      <4>1. k - 1 \in 0 .. m
        OBVIOUS
      <4> QED BY <1>1, <1>2, <1>3, <3>1, <4>1
    <3>2. CASE n \notin DOMAIN env
      <4>1. PICK l \in 1 .. (k - 1) : body[l].name = n
        BY <2>2, <3>2 DEF Supply
      <4>2. l \in 1 .. m /\ k - 1 \in l .. m /\ m \in l .. m
        OBVIOUS
      <4> QED BY <1>1, <1>4, <4>1, <4>2, Zenon
    <3> QED BY <3>1, <3>2
  <2>3. Outcome(S[k - 1], body[k], blobs) = Outcome(F, body[k], blobs)
    <3> HIDE DEF F
    <3> QED BY <2>2, OutcomeLocal
  <2> QED BY <2>1, <2>3
<1>6. \A n \in DOMAIN env : F[n] = env[n]
  BY <1>1, <1>2, <1>3
<1> QED BY <1>5, <1>6 DEF Settled

\* What is settled is determined by what the body is supplied with.
LEMMA SettledOnce ==
    ASSUME NEW body, Len(body) \in Nat, NEW from, Supply(body, from),
           NEW E, NEW F, NEW b, NEW c, Settled(E, body, b), Settled(F, body, c),
           \A n \in from : E[n] = F[n],
           \A k \in 1 .. Len(body) : body[k].op = "file" => b[body[k].val] = c[body[k].val]
    PROVE  \A k \in 1 .. Len(body) : E[body[k].name] = F[body[k].name]
<1> DEFINE Bad == {k \in 1 .. Len(body) : E[body[k].name] # F[body[k].name]}
<1> SUFFICES ASSUME Bad # {} PROVE FALSE
  OBVIOUS
<1>1. PICK k \in Bad : \A m \in Bad : k <= m
  <2>1. Bad \in SUBSET Nat
    OBVIOUS
  <2> HIDE DEF Bad
  <2> QED BY <2>1, Least
<1>2. k \in 1 .. Len(body) /\ E[body[k].name] # F[body[k].name]
  OBVIOUS
<1>3. ASSUME NEW l \in 1 .. (k - 1) PROVE E[body[l].name] = F[body[l].name]
  <2>1. l \in 1 .. Len(body) /\ ~(k <= l)
    BY <1>2
  <2> QED BY <1>1, <2>1
<1>4. \A n \in Reads(body[k]) : E[n] = F[n]
  BY <1>2, <1>3 DEF Supply
<1>5. Outcome(E, body[k], b) = Outcome(F, body[k], c)
  BY <1>2, <1>4, OutcomeLocal
<1> QED BY <1>2, <1>5 DEF Settled

-----------------------------------------------------------------------------
(* The types of what is computed                                            *)

\* The variables of a body have the types it declares, its attributes the
\* values it writes.
Declared(E, body) ==
    \A k \in 1 .. Len(body) :
        /\ E[body[k].name].type = body[k].type
        /\ body[k].op = "attr" => E[body[k].name].val = body[k].val

\* The type check of a statement asks for what it reads.
LEMMA CheckLocal ==
    ASSUME NEW st, NEW E, NEW F, \A n \in Reads(st) : E[n] = F[n]
    PROVE  StatementOK(E, st) <=> StatementOK(F, st)
<1>1. \A k \in DOMAIN st.args : E[st.args[k]] = F[st.args[k]]
  BY DEF Reads, ToSet
<1>2. Operands(E, st) = Operands(F, st)
  BY <1>1 DEF Operands
<1>3. \A k \in DOMAIN st.attrs : E[st.attrs[k]] = F[st.attrs[k]]
  BY DEF Reads, ToSet
<1>4. Attributes(E, st) = Attributes(F, st)
  BY <1>3 DEF Attributes
<1> QED BY <1>2, <1>4 DEF StatementOK

\* What a statement gives, as a tensor.
LEMMA OutcomeType ==
    ASSUME NEW F, NEW st, NEW blobs
    PROVE  /\ Outcome(F, st, blobs) =
                [type |-> Outcome(F, st, blobs).type, val |-> Outcome(F, st, blobs).val]
           /\ StatementOK(F, st) => Outcome(F, st, blobs).type = st.type
           /\ st.op = "attr" => Outcome(F, st, blobs).val = st.val
<1>1. /\ Outcome(F, st, blobs) =
           [type |-> Outcome(F, st, blobs).type, val |-> Outcome(F, st, blobs).val]
      /\ Outcome(F, st, blobs).type =
           IF st.op \in Consts THEN st.type ELSE TypeOf(st.op, Operands(F, st), Attributes(F, st))
  BY DEF Outcome
<1>2. st.op = "attr" => Outcome(F, st, blobs).val = st.val
  BY DEF Outcome, ValueOf
<1> QED BY <1>1, <1>2 DEF StatementOK

\* When the statements of a body pass the type check as long as the variables
\* have the declared types, then they do have them, and so pass it.
LEMMA TypesSettle ==
    ASSUME NEW body, Len(body) \in Nat, NEW from, Apart(body), Supply(body, from),
           from \cap Gives(body) = {}, NEW F, NEW blobs, Settled(F, body, blobs),
           \A E : (\A n \in from : E[n] = F[n]) /\ Declared(E, body)
                    => \A k \in 1 .. Len(body) : StatementOK(E, body[k])
    PROVE  Declared(F, body) /\ \A k \in 1 .. Len(body) : StatementOK(F, body[k])
<1> DEFINE At(n) == CHOOSE k \in 1 .. Len(body) : body[k].name = n
           E == [n \in from \cup Gives(body) |->
                   IF n \in from THEN F[n] ELSE [type |-> body[At(n)].type, val |-> F[n].val]]
<1>1. ASSUME NEW k \in 1 .. Len(body)
      PROVE  /\ body[k].name \in Gives(body) /\ body[k].name \notin from
             /\ E[body[k].name] = [type |-> body[k].type, val |-> F[body[k].name].val]
  <2>1. body[k].name \in Gives(body) /\ body[k].name \notin from
    BY DEF Gives
  <2>2. At(body[k].name) = k
    BY DEF Apart
  <2> QED BY <2>1, <2>2
<1>2. \A n \in from : E[n] = F[n]
  OBVIOUS
<1> HIDE DEF E
<1>3. ASSUME NEW k \in 1 .. Len(body)
      PROVE  /\ F[body[k].name] = [type |-> F[body[k].name].type, val |-> F[body[k].name].val]
             /\ StatementOK(F, body[k]) => F[body[k].name].type = body[k].type
             /\ body[k].op = "attr" => F[body[k].name].val = body[k].val
  <2>1. F[body[k].name] = Outcome(F, body[k], blobs)
    BY DEF Settled
  <2> QED BY <2>1, OutcomeType
<1>4. Declared(E, body)
  <2>1. ASSUME NEW k \in 1 .. Len(body)
        PROVE  E[body[k].name].type = body[k].type /\ E[body[k].name].val = F[body[k].name].val
    <3> DEFINE e == E[body[k].name]
    <3>1. e = [type |-> body[k].type, val |-> F[body[k].name].val]
      BY <1>1, Zenon
    <3> HIDE DEF e
    <3>2. e.type = body[k].type /\ e.val = F[body[k].name].val
      BY <3>1
    <3> QED BY <3>2 DEF e
  <2> QED BY <1>3, <2>1, Zenon DEF Declared
<1>5. \A k \in 1 .. Len(body) : StatementOK(E, body[k])
  BY <1>2, <1>4
<1> DEFINE Bad == {k \in 1 .. Len(body) : ~StatementOK(F, body[k])}
<1>6. Bad = {}
  <2> SUFFICES ASSUME Bad # {} PROVE FALSE
    OBVIOUS
  <2>1. PICK k \in Bad : \A m \in Bad : k <= m
    <3>1. Bad \in SUBSET Nat
      OBVIOUS
    <3> HIDE DEF Bad
    <3> QED BY <3>1, Least
  <2>2. k \in 1 .. Len(body) /\ ~StatementOK(F, body[k])
    OBVIOUS
  <2>3. ASSUME NEW l \in 1 .. (k - 1) PROVE E[body[l].name] = F[body[l].name]
    <3>1. l \in 1 .. Len(body) /\ ~(k <= l)
      BY <2>2
    <3>2. StatementOK(F, body[l])
      BY <2>1, <3>1
    <3> QED BY <1>1, <1>3, <3>1, <3>2, Zenon
  <2>4. \A n \in Reads(body[k]) : E[n] = F[n]
    BY <1>2, <2>2, <2>3 DEF Supply
  <2> QED BY <1>5, <2>2, <2>4, CheckLocal
<1>7. \A k \in 1 .. Len(body) : StatementOK(F, body[k])
  BY <1>6
<1> QED BY <1>3, <1>7, Zenon DEF Declared

-----------------------------------------------------------------------------
(* The kinds of statements                                                  *)

\* The operations that work element by element, those of them that compare,
\* and the dimensions that a result of dimensions {1, c, 1, s} is made from.
Elementwise(op) ==
    op \notin {"conv", "concat", "reshape", "slice_by_index", "transpose", "select"}
                \cup Reductions \cup Consts
Comparing == {"less", "greater", "not_equal", "bool"}
Narrow(d, c, s) == d \in {<<>>, <<1, c, 1, s>>, <<1, 1, 1, s>>, <<1, c, 1, 1>>}

\* A full operand decides.
LEMMA BroadcastIs ==
    ASSUME NEW c \in Nat \ {0}, NEW s \in Nat \ {0}, NEW ts, NEW j \in DOMAIN ts,
           ts[j].type.dims = <<1, c, 1, s>>, \A k \in DOMAIN ts : Narrow(ts[k].type.dims, c, s)
    PROVE  /\ Broadcast(ts) = <<1, c, 1, s>>
           /\ \A k \in DOMAIN ts : \/ ts[k].type.dims = <<>>
                                   \/ \A m \in 1 .. 4 : ts[k].type.dims[m] \in {1, Broadcast(ts)[m]}
<1> DEFINE R == {k \in DOMAIN ts : ts[k].type.dims # <<>>}
           D == <<1, c, 1, s>>
           M(m) == {ts[k].type.dims[m] : k \in R}
<1>1. D # <<>> /\ j \in R
  <2>1. Len(D) = 4 /\ Len(<<>>) = 0
    OBVIOUS
  <2> QED BY <2>1
<1>2. ASSUME NEW k \in R, NEW m \in 1 .. 4
      PROVE  ts[k].type.dims[m] \in {1, D[m]} /\ ts[k].type.dims[m] \in Nat
  <2>1. ts[k].type.dims \in {<<1, c, 1, s>>, <<1, 1, 1, s>>, <<1, c, 1, 1>>}
    BY DEF Narrow
  <2>2. m = 1 \/ m = 2 \/ m = 3 \/ m = 4
    OBVIOUS
  <2> QED BY <2>1, <2>2
<1>3. ASSUME NEW m \in 1 .. 4 PROVE D[m] \in Nat \ {0} /\ D[m] \in M(m) /\ \A y \in M(m) : D[m] >= y
  <2>1. m = 1 \/ m = 2 \/ m = 3 \/ m = 4
    OBVIOUS
  <2>2. D[m] \in Nat \ {0}
    BY <2>1
  <2>3. D[m] \in M(m)
    BY <1>1
  <2> HIDE DEF D
  <2>4. ASSUME NEW y \in M(m) PROVE D[m] >= y
    <3>1. PICK k \in R : y = ts[k].type.dims[m]
      OBVIOUS
    <3>2. y \in {1, D[m]}
      BY <1>2, <3>1
    <3> QED BY <2>2, <3>2
  <2> QED BY <2>2, <2>3, <2>4
<1>4. ASSUME NEW m \in 1 .. 4 PROVE Max(M(m)) = D[m]
  <2> DEFINE S == M(m)
             x == D[m]
  <2>1. x \in Nat /\ x \in S /\ (\A y \in S : x >= y) /\ \A y \in S : y \in Nat
    BY <1>2, <1>3
  <2> HIDE DEF S, x
  <2>2. \A z \in S : (\A y \in S : z >= y) => z = x
    <3> TAKE z \in S
    <3> HAVE \A y \in S : z >= y
    <3>1. z >= x /\ x >= z /\ z \in Nat /\ x \in Nat
      BY <2>1
    <3> QED BY <3>1
  <2>3. Max(S) = x
    BY <2>1, <2>2, Zenon DEF Max
  <2> QED BY <2>3 DEF S, x
<1>5. Broadcast(ts) = [m \in 1 .. 4 |-> Max(M(m))]
  BY <1>1 DEF Broadcast
<1>6. Broadcast(ts) = D
  <2>1. [m \in 1 .. 4 |-> Max(M(m))] = [m \in 1 .. 4 |-> D[m]]
    BY <1>4
  <2>2. [m \in 1 .. 4 |-> D[m]] = D
    OBVIOUS
  <2> QED BY <1>5, <2>1, <2>2
<1>7. ASSUME NEW k \in DOMAIN ts, ts[k].type.dims # <<>>, NEW m \in 1 .. 4
      PROVE  ts[k].type.dims[m] \in {1, Broadcast(ts)[m]}
  <2>1. k \in R
    BY <1>7
  <2> HIDE DEF R, D
  <2> QED BY <1>2, <1>6, <2>1
<1> QED BY <1>6, <1>7

\* One operand.
LEMMA UnaryFine ==
    ASSUME NEW c \in Nat \ {0}, NEW s \in Nat \ {0}, NEW E, NEW n, NEW op, NEW x,
           Elementwise(op), E[x].type.dims = <<1, c, 1, s>>
    PROVE  /\ op \notin Comparing => StatementOK(E, Let(T(c, s), n, op, <<x>>))
           /\ op \in Comparing => StatementOK(E, Let(TB(c, s), n, op, <<x>>))
<1> DEFINE ts == <<E[x]>>
<1>1. ASSUME NEW t
      PROVE  LET st == Let(t, n, op, <<x>>) IN
             st.op = op /\ st.type = t /\ Operands(E, st) = ts /\ Attributes(E, st) = <<>>
  BY DEF Let, Statement, Operands, Attributes
<1>2. DOMAIN ts = {1} /\ ts[1] = E[x]
  OBVIOUS
<1>3. Narrow(ts[1].type.dims, c, s)
  BY <1>2, Zenon DEF Narrow
<1> HIDE DEF ts
<1>4. /\ Broadcast(ts) = <<1, c, 1, s>>
      /\ \A k \in DOMAIN ts : \/ ts[k].type.dims = <<>>
                              \/ \A m \in 1 .. 4 : ts[k].type.dims[m] \in {1, Broadcast(ts)[m]}
  BY <1>2, <1>3, BroadcastIs, Zenon
<1>5. OperandsOK(op, ts, <<>>)
  BY <1>4 DEF OperandsOK, Elementwise, Reductions, Consts
<1>6. /\ op \notin Comparing => TypeOf(op, ts, <<>>) = T(c, s)
      /\ op \in Comparing => TypeOf(op, ts, <<>>) = TB(c, s)
  BY <1>4 DEF TypeOf, Elementwise, Reductions, Consts, Comparing, T, TB
<1> QED BY <1>1, <1>5, <1>6 DEF StatementOK

\* Two operands, one of them full.
LEMMA BinaryFine ==
    ASSUME NEW c \in Nat \ {0}, NEW s \in Nat \ {0}, NEW E, NEW n, NEW op, NEW x, NEW y,
           Elementwise(op), Narrow(E[x].type.dims, c, s), Narrow(E[y].type.dims, c, s),
           E[x].type.dims = <<1, c, 1, s>> \/ E[y].type.dims = <<1, c, 1, s>>
    PROVE  /\ op \notin Comparing => StatementOK(E, Let(T(c, s), n, op, <<x, y>>))
           /\ op \in Comparing => StatementOK(E, Let(TB(c, s), n, op, <<x, y>>))
<1> DEFINE ts == <<E[x], E[y]>>
<1>1. ASSUME NEW t
      PROVE  LET st == Let(t, n, op, <<x, y>>) IN
             st.op = op /\ st.type = t /\ Operands(E, st) = ts /\ Attributes(E, st) = <<>>
  BY DEF Let, Statement, Operands, Attributes
<1>2. DOMAIN ts = {1, 2} /\ ts[1] = E[x] /\ ts[2] = E[y]
  OBVIOUS
<1> HIDE DEF ts
<1>3. \E j \in DOMAIN ts : ts[j].type.dims = <<1, c, 1, s>>
  BY <1>2
<1>4. \A k \in DOMAIN ts : Narrow(ts[k].type.dims, c, s)
  BY <1>2
<1>5. /\ Broadcast(ts) = <<1, c, 1, s>>
      /\ \A k \in DOMAIN ts : \/ ts[k].type.dims = <<>>
                              \/ \A m \in 1 .. 4 : ts[k].type.dims[m] \in {1, Broadcast(ts)[m]}
  BY <1>3, <1>4, BroadcastIs
<1>6. OperandsOK(op, ts, <<>>)
  BY <1>5 DEF OperandsOK, Elementwise, Reductions, Consts
<1>7. /\ op \notin Comparing => TypeOf(op, ts, <<>>) = T(c, s)
      /\ op \in Comparing => TypeOf(op, ts, <<>>) = TB(c, s)
  BY <1>5 DEF TypeOf, Elementwise, Reductions, Consts, Comparing, T, TB
<1> QED BY <1>1, <1>6, <1>7 DEF StatementOK

\* A choice.
LEMMA SelectFine ==
    ASSUME NEW c \in Nat \ {0}, NEW s \in Nat \ {0}, NEW E, NEW n, NEW b, NEW x, NEW y,
           E[b].type = TB(c, s), Narrow(E[x].type.dims, c, s), Narrow(E[y].type.dims, c, s)
    PROVE  StatementOK(E, Let(T(c, s), n, "select", <<b, x, y>>))
<1> DEFINE ts == <<E[b], E[x], E[y]>>
           st == Let(T(c, s), n, "select", <<b, x, y>>)
<1>1. /\ st.op = "select" /\ st.type = T(c, s)
      /\ Operands(E, st) = ts /\ Attributes(E, st) = <<>>
  BY DEF Let, Statement, Operands, Attributes
<1>2. DOMAIN ts = {1, 2, 3} /\ ts[1] = E[b] /\ ts[2] = E[x] /\ ts[3] = E[y]
  OBVIOUS
<1> HIDE DEF ts
<1>3. ts[1].type.dims = <<1, c, 1, s>> /\ ts[1].type.dt = "bool"
  BY <1>2 DEF TB, Bool
<1>4. \A k \in DOMAIN ts : Narrow(ts[k].type.dims, c, s)
  BY <1>2, <1>3, Zenon DEF Narrow
<1>5. Broadcast(ts) = <<1, c, 1, s>>
  BY <1>2, <1>3, <1>4, BroadcastIs, ZenonT(40)
<1>6. OperandsOK("select", ts, <<>>)
  BY <1>3 DEF OperandsOK
<1>7. TypeOf("select", ts, <<>>) = T(c, s)
  BY <1>5 DEF TypeOf, Reductions, T
<1> QED BY <1>1, <1>6, <1>7 DEF StatementOK

\* A softmax.
LEMMA SoftmaxFine ==
    ASSUME NEW c \in Nat \ {0}, NEW s \in Nat \ {0}, NEW E, NEW n, NEW x, NEW a,
           E[x].type.dims = <<1, c, 1, s>>
    PROVE  StatementOK(E, LetWith(T(c, s), n, "softmax", <<x>>, a))
<1> DEFINE ts == <<E[x]>>
           at == <<E[a].val>>
           st == LetWith(T(c, s), n, "softmax", <<x>>, a)
<1>1. /\ st.op = "softmax" /\ st.type = T(c, s)
      /\ Operands(E, st) = ts /\ Attributes(E, st) = at
  BY DEF LetWith, Statement, Operands, Attributes
<1>2. DOMAIN ts = {1} /\ ts[1] = E[x]
  OBVIOUS
<1>3. Narrow(ts[1].type.dims, c, s)
  BY <1>2, Zenon DEF Narrow
<1> HIDE DEF ts, at
<1>4. /\ Broadcast(ts) = <<1, c, 1, s>>
      /\ \A k \in DOMAIN ts : \/ ts[k].type.dims = <<>>
                              \/ \A m \in 1 .. 4 : ts[k].type.dims[m] \in {1, Broadcast(ts)[m]}
  BY <1>2, <1>3, BroadcastIs, Zenon
<1>5. OperandsOK("softmax", ts, at)
  BY <1>4 DEF OperandsOK
<1>6. TypeOf("softmax", ts, at) = T(c, s)
  BY <1>4 DEF TypeOf, Reductions, T
<1> QED BY <1>1, <1>5, <1>6 DEF StatementOK

\* A reduction over the channels.
LEMMA ReduceFine ==
    ASSUME NEW c \in Nat \ {0}, NEW s \in Nat \ {0}, NEW E, NEW n, NEW op \in Reductions,
           NEW x, NEW a, E[x].type.dims = <<1, c, 1, s>>, E[a].val = 1
    PROVE  StatementOK(E, LetWith(Row(s), n, op, <<x>>, a))
<1> DEFINE ts == <<E[x]>>
           at == <<E[a].val>>
           st == LetWith(Row(s), n, op, <<x>>, a)
<1>1. /\ st.op = op /\ st.type = Row(s)
      /\ Operands(E, st) = ts /\ Attributes(E, st) = at
  BY DEF LetWith, Statement, Operands, Attributes
<1>2. DOMAIN ts = {1} /\ ts[1] = E[x] /\ at[1] = 1
  OBVIOUS
<1>3. Narrow(ts[1].type.dims, c, s)
  BY <1>2, Zenon DEF Narrow
<1> HIDE DEF ts, at
<1>4. \A k \in DOMAIN ts : \/ ts[k].type.dims = <<>>
                           \/ \A m \in 1 .. 4 : ts[k].type.dims[m] \in {1, Broadcast(ts)[m]}
  BY <1>2, <1>3, BroadcastIs
<1>5. OperandsOK(op, ts, at)
  BY <1>4 DEF OperandsOK, Reductions
<1>6. TypeOf(op, ts, at) = Row(s)
  <2>1. ts[1].type.dims = <<1, c, 1, s>>
    BY <1>2
  <2>2. TypeOf(op, ts, at) = Fp16([ts[1].type.dims EXCEPT ![at[1] + 1] = 1])
    BY DEF TypeOf, Reductions
  <2>3. [<<1, c, 1, s>> EXCEPT ![1 + 1] = 1] = <<1, 1, 1, s>>
    OBVIOUS
  <2> QED BY <1>2, <2>1, <2>2, <2>3 DEF Row, T
<1> QED BY <1>1, <1>5, <1>6 DEF StatementOK

\* A convolution of a weight [oc, ic] over the columns of x.
LEMMA ConvFine ==
    ASSUME NEW ic, NEW oc, NEW s, NEW E, NEW n, NEW w, NEW x,
           E[w].type = ConvW(oc, ic), E[x].type.dims = <<1, ic, 1, s>>
    PROVE  StatementOK(E, Let(T(oc, s), n, "conv", <<w, x>>))
<1> DEFINE ts == <<E[w], E[x]>>
           st == Let(T(oc, s), n, "conv", <<w, x>>)
<1>1. /\ st.op = "conv" /\ st.type = T(oc, s)
      /\ Operands(E, st) = ts /\ Attributes(E, st) = <<>>
  BY DEF Let, Statement, Operands, Attributes
<1>2. ts[1].type.dims = <<oc, ic, 1, 1>> /\ ts[2].type.dims = <<1, ic, 1, s>>
  BY DEF ConvW, Fp16
<1> HIDE DEF ts
<1>3. OperandsOK("conv", ts, <<>>)
  BY <1>2 DEF OperandsOK
<1>4. TypeOf("conv", ts, <<>>) = T(oc, s)
  BY <1>2 DEF TypeOf, Reductions, T
<1> QED BY <1>1, <1>3, <1>4 DEF StatementOK

\* A reshape, which keeps the number of elements.
LEMMA ReshapeFine ==
    ASSUME NEW d, NEW E, NEW n, NEW x, NEW a, E[a].val = d, Numel(E[x].type.dims) = Numel(d)
    PROVE  StatementOK(E, LetWith(Fp16(d), n, "reshape", <<x>>, a))
<1> DEFINE ts == <<E[x]>>
           at == <<E[a].val>>
           st == LetWith(Fp16(d), n, "reshape", <<x>>, a)
<1>1. /\ st.op = "reshape" /\ st.type = Fp16(d)
      /\ Operands(E, st) = ts /\ Attributes(E, st) = at
  BY DEF LetWith, Statement, Operands, Attributes
<1>2. ts[1] = E[x] /\ at[1] = d
  OBVIOUS
<1> HIDE DEF ts, at
<1>3. OperandsOK("reshape", ts, at)
  BY <1>2 DEF OperandsOK
<1>4. TypeOf("reshape", ts, at) = Fp16(d)
  BY <1>2 DEF TypeOf, Reductions
<1> QED BY <1>1, <1>3, <1>4 DEF StatementOK

\* A slice from the front.
LEMMA SliceFine ==
    ASSUME NEW ic \in Nat, NEW is \in Nat, NEW oc \in Nat, NEW os \in Nat, oc <= ic, os <= is,
           NEW E, NEW n, NEW x, NEW a,
           E[x].type.dims = <<1, ic, 1, is>>, E[a].val = <<1, oc, 1, os>>
    PROVE  StatementOK(E, LetWith(T(oc, os), n, "slice_by_index", <<x>>, a))
<1> DEFINE ts == <<E[x]>>
           at == <<E[a].val>>
           st == LetWith(T(oc, os), n, "slice_by_index", <<x>>, a)
<1>1. /\ st.op = "slice_by_index" /\ st.type = T(oc, os)
      /\ Operands(E, st) = ts /\ Attributes(E, st) = at
  BY DEF LetWith, Statement, Operands, Attributes
<1>2. ts[1].type.dims = <<1, ic, 1, is>> /\ at[1] = <<1, oc, 1, os>>
  OBVIOUS
<1> HIDE DEF ts, at
<1>3. \A k \in DOMAIN ts[1].type.dims : at[1][k] <= ts[1].type.dims[k]
  <2>1. DOMAIN <<1, ic, 1, is>> = 1 .. 4
    OBVIOUS
  <2>2. \A k \in 1 .. 4 : k = 1 \/ k = 2 \/ k = 3 \/ k = 4
    OBVIOUS
  <2> QED BY <1>2, <2>1, <2>2
<1>4. OperandsOK("slice_by_index", ts, at)
  BY <1>3 DEF OperandsOK
<1>5. TypeOf("slice_by_index", ts, at) = T(oc, os)
  BY <1>2 DEF TypeOf, Reductions, T
<1> QED BY <1>1, <1>4, <1>5 DEF StatementOK

\* The two transposes.
LEMMA TransposeFine ==
    ASSUME NEW p \in Nat, NEW q \in Nat, NEW r \in Nat, NEW t \in Nat, NEW E, NEW n, NEW x, NEW a,
           E[x].type.dims = <<p, q, r, t>>
    PROVE  /\ E[a].val = <<0, 3, 2, 1>> =>
                StatementOK(E, LetWith(Fp16(<<p, t, r, q>>), n, "transpose", <<x>>, a))
           /\ E[a].val = <<0, 1, 3, 2>> =>
                StatementOK(E, LetWith(Fp16(<<p, q, t, r>>), n, "transpose", <<x>>, a))
<1> DEFINE ts == <<E[x]>>
           at == <<E[a].val>>
           d == <<p, q, r, t>>
<1>1. ASSUME NEW u
      PROVE  LET st == LetWith(u, n, "transpose", <<x>>, a) IN
             /\ st.op = "transpose" /\ st.type = u
             /\ Operands(E, st) = ts /\ Attributes(E, st) = at
  BY DEF LetWith, Statement, Operands, Attributes
<1>2. DOMAIN ts = {1} /\ ts[1].type.dims = d /\ at[1] = E[a].val /\ DOMAIN d = 1 .. 4 /\ d # <<>>
  <2>1. Len(d) = 4 /\ Len(<<>>) = 0
    OBVIOUS
  <2> QED BY <2>1
<1>3. \A m \in 1 .. 4 : d[m] \in Nat
  <2>1. \A m \in 1 .. 4 : m = 1 \/ m = 2 \/ m = 3 \/ m = 4
    OBVIOUS
  <2> QED BY <2>1
<1>4. TypeOf("transpose", ts, at) = Fp16([k \in 1 .. 4 |-> d[E[a].val[k] + 1]])
  <2> HIDE DEF ts, at, d
  <2>1. TypeOf("transpose", ts, at) =
          Fp16([k \in DOMAIN ts[1].type.dims |-> ts[1].type.dims[at[1][k] + 1]])
    BY DEF TypeOf, Reductions
  <2> QED BY <1>2, <2>1
<1>5. E[a].val = <<0, 3, 2, 1>> => [k \in 1 .. 4 |-> d[E[a].val[k] + 1]] = <<p, t, r, q>>
  <2> SUFFICES ASSUME E[a].val = <<0, 3, 2, 1>>
               PROVE  [k \in 1 .. 4 |-> d[E[a].val[k] + 1]] = <<p, t, r, q>>
    OBVIOUS
  <2>1. [k \in 1 .. 4 |-> <<p, t, r, q>>[k]] = <<p, t, r, q>>
    OBVIOUS
  <2>2. ASSUME NEW k \in 1 .. 4 PROVE d[E[a].val[k] + 1] = <<p, t, r, q>>[k]
    <3>1. k = 1 \/ k = 2 \/ k = 3 \/ k = 4
      OBVIOUS
    <3> QED BY <3>1
  <2> QED BY <2>1, <2>2
<1>6. E[a].val = <<0, 1, 3, 2>> => [k \in 1 .. 4 |-> d[E[a].val[k] + 1]] = <<p, q, t, r>>
  <2> SUFFICES ASSUME E[a].val = <<0, 1, 3, 2>>
               PROVE  [k \in 1 .. 4 |-> d[E[a].val[k] + 1]] = <<p, q, t, r>>
    OBVIOUS
  <2>1. [k \in 1 .. 4 |-> <<p, q, t, r>>[k]] = <<p, q, t, r>>
    OBVIOUS
  <2>2. ASSUME NEW k \in 1 .. 4 PROVE d[E[a].val[k] + 1] = <<p, q, t, r>>[k]
    <3>1. k = 1 \/ k = 2 \/ k = 3 \/ k = 4
      OBVIOUS
    <3> QED BY <3>1
  <2> QED BY <2>1, <2>2
<1>7. ASSUME NEW m \in 1 .. 4 PROVE Broadcast(ts)[m] = d[m]
  <2> HIDE DEF ts, d
  <2>1. {k \in DOMAIN ts : ts[k].type.dims # <<>>} = {1}
    BY <1>2
  <2>2. Broadcast(ts)[m] = Max({ts[k].type.dims[m] : k \in {1}})
    BY <2>1, Zenon DEF Broadcast
  <2>3. {ts[k].type.dims[m] : k \in {1}} = {d[m]}
    BY <1>2
  <2>4. \A z \in Nat : Max({z}) = z
    BY DEF Max
  <2> QED BY <1>3, <2>2, <2>3, <2>4
<1> HIDE DEF ts, at, d
<1>8. OperandsOK("transpose", ts, at)
  <2>1. \A k \in DOMAIN ts : \A m \in 1 .. 4 : ts[k].type.dims[m] \in {1, Broadcast(ts)[m]}
    BY <1>2, <1>7
  <2> QED BY <2>1 DEF OperandsOK
<1> QED BY <1>1, <1>4, <1>5, <1>6, <1>8 DEF StatementOK

\* A concatenation has the channels of both its operands, whatever it declares.
LEMMA ConcatType ==
    ASSUME NEW a, NEW b, NEW s, NEW E, NEW n, NEW t, NEW x, NEW y, NEW ax, NEW blobs,
           E[x].type.dims = <<1, a, 1, s>>, E[y].type.dims = <<1, b, 1, s>>, E[ax].val = 1
    PROVE  Outcome(E, LetWith(t, n, "concat", <<x, y>>, ax), blobs).type = T(a + b, s)
<1> DEFINE ts == <<E[x], E[y]>>
           at == <<E[ax].val>>
           st == LetWith(t, n, "concat", <<x, y>>, ax)
<1>1. /\ st.op = "concat" /\ Operands(E, st) = ts /\ Attributes(E, st) = at
  BY DEF LetWith, Statement, Operands, Attributes
<1>2. ts[1].type.dims = <<1, a, 1, s>> /\ ts[2].type.dims = <<1, b, 1, s>> /\ at[1] = 1
  OBVIOUS
<1> HIDE DEF ts, at
<1>3. TypeOf("concat", ts, at) = Fp16([ts[1].type.dims EXCEPT ![at[1] + 1] = @ + ts[2].type.dims[at[1] + 1]])
  BY DEF TypeOf, Reductions
<1>4. [<<1, a, 1, s>> EXCEPT ![1 + 1] = @ + <<1, b, 1, s>>[1 + 1]] = <<1, a + b, 1, s>>
  OBVIOUS
<1>5. TypeOf("concat", ts, at) = T(a + b, s)
  BY <1>2, <1>3, <1>4 DEF T
<1>6. Outcome(E, st, blobs).type = TypeOf("concat", ts, at)
  BY <1>1 DEF Outcome, Consts
<1> QED BY <1>5, <1>6

-----------------------------------------------------------------------------
(* The fragments                                                            *)

Sequence(b) == b = [k \in 1 .. Len(b) |-> b[k]]

\* The body of a fragment for the tensor o: its statements give <<o>>, last, and
\* otherwise names that start with o, each once, and read the tensors `from` and
\* each other.
Neat(b, o, from) ==
    /\ Sequence(b) /\ Len(b) \in Nat \ {0}
    /\ \A k \in 1 .. Len(b) : b[k].name[1] = o
    /\ b[Len(b)].name = <<o>>
    /\ Apart(b) /\ Supply(b, from)

\* The weight files that a body names are in S, each with the dimensions it is
\* declared with.
FilesIn(b, S) ==
    \A k \in 1 .. Len(b) : b[k].op = "file" => <<b[k].val, b[k].type.dims>> \in S

\* The statements of a body pass the type check when its own variables have the
\* types it declares.
Fine(b, E) == Declared(E, b) => \A k \in 1 .. Len(b) : StatementOK(E, b[k])

Full(E, n, c, s) == E[n].type.dims = <<1, c, 1, s>>

\* The dimensions of shapes, as the fragments relate them.
Pos(n) == n \in Nat \ {0}
Below(n, m) == n <= m
SameSize(ic, is, oc, os) == ic * is = oc * os
Times(m, n, r) == m = n * r

\* The body of a fragment for the tensor o that makes a tensor {1, oc, 1, os}
\* from x, which is {1, ic, 1, is}; from x and y, or x, y and z, all of which are
\* {1, c, 1, s}.
Makes(b, o, x, F, ic, is, oc, os) ==
    /\ Neat(b, o, {x}) /\ FilesIn(b, F) /\ b[Len(b)].type = T(oc, os)
    /\ \A E : Full(E, x, ic, is) => Fine(b, E)
Makes2(b, o, x, y, F, c, s) ==
    /\ Neat(b, o, {x, y}) /\ FilesIn(b, F) /\ b[Len(b)].type = T(c, s)
    /\ \A E : Full(E, x, c, s) /\ Full(E, y, c, s) => Fine(b, E)
Makes3(b, o, x, y, z, c, s) ==
    /\ Neat(b, o, {x, y, z}) /\ FilesIn(b, {}) /\ b[Len(b)].type = T(c, s)
    /\ \A E : Full(E, x, c, s) /\ Full(E, y, c, s) /\ Full(E, z, c, s) => Fine(b, E)

\* The body of CONCAT's fragment: what it makes, whatever it declares.
Plus(m, c, d) == m = c + d
Joins(b, o, x, y) ==
    /\ Neat(b, o, {x, y}) /\ FilesIn(b, {})
    /\ \A E, blobs, c, d, m, s :
         Settled(E, b, blobs) /\ Full(E, x, c, s) /\ Full(E, y, d, s) /\ Plus(m, c, d) => E[<<o>>].type = T(m, s)

\* What a statement gives and what it reads.
Is(st, n, t, op, R) == st.name = n /\ st.type = t /\ st.op = op /\ Reads(st) = R

LEMMA LetOne ==
    ASSUME NEW t, NEW n, NEW op, NEW x
    PROVE  Is(Let(t, n, op, <<x>>), n, t, op, {x})
<1> DEFINE st == Let(t, n, op, <<x>>)
<1>1. st.name = n /\ st.type = t /\ st.op = op /\ st.args = <<x>> /\ st.attrs = <<>>
  BY DEF Let, Statement
<1> HIDE DEF st
<1>2. Reads(st) = {x}
  BY <1>1 DEF Reads, ToSet
<1> QED BY <1>1, <1>2 DEF st, Is

LEMMA LetTwo ==
    ASSUME NEW t, NEW n, NEW op, NEW x, NEW y
    PROVE  Is(Let(t, n, op, <<x, y>>), n, t, op, {x, y})
<1> DEFINE st == Let(t, n, op, <<x, y>>)
<1>1. st.name = n /\ st.type = t /\ st.op = op /\ st.args = <<x, y>> /\ st.attrs = <<>>
  BY DEF Let, Statement
<1> HIDE DEF st
<1>2. Reads(st) = {x, y}
  BY <1>1 DEF Reads, ToSet
<1> QED BY <1>1, <1>2 DEF st, Is

LEMMA LetThree ==
    ASSUME NEW t, NEW n, NEW op, NEW x, NEW y, NEW z
    PROVE  Is(Let(t, n, op, <<x, y, z>>), n, t, op, {x, y, z})
<1> DEFINE st == Let(t, n, op, <<x, y, z>>)
<1>1. st.name = n /\ st.type = t /\ st.op = op /\ st.args = <<x, y, z>> /\ st.attrs = <<>>
  BY DEF Let, Statement
<1> HIDE DEF st
<1>2. Reads(st) = {x, y, z}
  BY <1>1 DEF Reads, ToSet
<1> QED BY <1>1, <1>2 DEF st, Is

LEMMA LetWithOne ==
    ASSUME NEW t, NEW n, NEW op, NEW x, NEW a
    PROVE  Is(LetWith(t, n, op, <<x>>, a), n, t, op, {x, a})
<1> DEFINE st == LetWith(t, n, op, <<x>>, a)
<1>1. st.name = n /\ st.type = t /\ st.op = op /\ st.args = <<x>> /\ st.attrs = <<a>>
  BY DEF LetWith, Statement
<1> HIDE DEF st
<1>2. Reads(st) = {x, a}
  BY <1>1 DEF Reads, ToSet
<1> QED BY <1>1, <1>2 DEF st, Is

LEMMA LetWithTwo ==
    ASSUME NEW t, NEW n, NEW op, NEW x, NEW y, NEW a
    PROVE  Is(LetWith(t, n, op, <<x, y>>, a), n, t, op, {x, y, a})
<1> DEFINE st == LetWith(t, n, op, <<x, y>>, a)
<1>1. st.name = n /\ st.type = t /\ st.op = op /\ st.args = <<x, y>> /\ st.attrs = <<a>>
  BY DEF LetWith, Statement
<1> HIDE DEF st
<1>2. Reads(st) = {x, y, a}
  BY <1>1 DEF Reads, ToSet
<1> QED BY <1>1, <1>2 DEF st, Is

LEMMA LitIs ==
    ASSUME NEW n, NEW e
    PROVE  Is(Lit(n, e), n, Scalar, "lit", {})
BY DEF Lit, Statement, Reads, ToSet, Is

LEMMA AttrIs ==
    ASSUME NEW n, NEW e
    PROVE  Is(Attr(n, e), n, AttrType, "attr", {}) /\ Attr(n, e).val = e
BY DEF Attr, Statement, Reads, ToSet, Is

LEMMA FileIs ==
    ASSUME NEW t, NEW n, NEW f
    PROVE  Is(File(t, n, f), n, t, "file", {}) /\ File(t, n, f).val = f
BY DEF File, Statement, Reads, ToSet, Is

\* The local variable n of the fragment for o.
Local(o, n) == Append(<<o>>, n)

LEMMA LocalIs ==
    ASSUME NEW o, NEW n
    PROVE  /\ Local(o, n)[1] = o /\ Local(o, n) # <<o>>
           /\ \A m : Local(o, n) = Local(o, m) => n = m
<1>1. \A m : Local(o, m)[1] = o /\ Local(o, m)[2] = m /\ Len(Local(o, m)) = 2
  BY DEF Local
<1>2. Len(<<o>>) = 1
  OBVIOUS
<1> QED BY <1>1, <1>2

\* Statement k of a body reads only what is in `from` or given before.
Fed(b, from, k) ==
    \A n \in Reads(b[k]) : n \in from \/ \E l \in 1 .. (k - 1) : b[l].name = n

LEMMA SequenceIs ==
    ASSUME NEW b, Len(b) \in Nat, Sequence(b)
    PROVE  b \in Seq({b[k] : k \in DOMAIN b})
<1> DEFINE m == Len(b)
           S == {b[k] : k \in 1 .. m}
<1>1. [k \in 1 .. m |-> b[k]] \in [1 .. m -> S]
  OBVIOUS
<1>2. b \in [1 .. m -> S]
  BY <1>1 DEF Sequence
<1>3. DOMAIN b = 1 .. m
  BY <1>2
<1> HIDE DEF S
<1>4. b \in Seq(S)
  BY <1>2
<1> QED BY <1>3, <1>4 DEF S

\* N lists the local variables a body gives before <<o>>, and at[n] is the
\* place of n there.
Named(b, o, N, at) ==
    \A k \in 1 .. (Len(b) - 1) : b[k].name = Local(o, N[k]) /\ at[N[k]] = k

LEMMA SupplyIs ==
    ASSUME NEW b, NEW from, \A k \in 1 .. Len(b) : Fed(b, from, k)
    PROVE  Supply(b, from)
BY DEF Supply, Fed

\* A body with one name for every statement is neat.
LEMMA NeatIs ==
    ASSUME NEW b, NEW o, NEW from, Len(b) \in Nat \ {0}, Sequence(b),
           NEW at, NEW N, b[Len(b)].name = <<o>>, Named(b, o, N, at), Supply(b, from)
    PROVE  Neat(b, o, from)
<1> DEFINE m == Len(b)
<1>1. Sequence(b) /\ Len(b) \in Nat \ {0}
  OBVIOUS
<1>2. \A k \in 1 .. m : k = m \/ k \in 1 .. (m - 1)
  OBVIOUS
<1>3. \A k \in 1 .. (m - 1) : b[k].name = Local(o, N[k]) /\ at[N[k]] = k
  BY DEF Named
<1>4. \A k \in 1 .. m : b[k].name[1] = o
  <2>1. <<o>>[1] = o
    OBVIOUS
  <2>2. \A n : Local(o, n)[1] = o
    BY LocalIs
  <2> QED BY <1>2, <1>3, <2>1, <2>2
<1>5. Apart(b)
  <2> SUFFICES ASSUME NEW k \in 1 .. m, NEW l \in 1 .. m, b[k].name = b[l].name PROVE k = l
    BY DEF Apart
  <2>1. /\ \A n : Local(o, n) # <<o>>
        /\ \A n, p : Local(o, n) = Local(o, p) => n = p
    BY LocalIs
  <2>2. ASSUME NEW j \in 1 .. (m - 1) PROVE b[j].name # <<o>>
    <3>1. b[j].name = Local(o, N[j])
      BY <1>3, Zenon
    <3> QED BY <2>1, <3>1
  <2>3. CASE k = m \/ l = m
    BY <1>2, <2>2, <2>3
  <2>4. CASE k # m /\ l # m
    <3>1. Local(o, N[k]) = Local(o, N[l]) /\ at[N[k]] = k /\ at[N[l]] = l
      BY <1>2, <1>3, <2>4
    <3> QED BY <2>1, <3>1
  <2> QED BY <2>3, <2>4
<1> QED BY <1>1, <1>4, <1>5 DEF Neat

\* A tensor that spans c channels and s columns, and one that meets it.
Slim(E, n, c, s) == Narrow(E[n].type.dims, c, s)

\* An operation element by element that does not compare.
Plainly(op) == Elementwise(op) /\ op \notin Comparing

LEMMA FullIsSlim ==
    ASSUME NEW E, NEW n, NEW c, NEW s, Full(E, n, c, s)
    PROVE  Slim(E, n, c, s)
BY DEF Full, Slim, Narrow, T, TB, Row, Col, Scalar, Fp16, Bool

LEMMA FullType ==
    ASSUME NEW E, NEW n, NEW c, NEW s, E[n].type = T(c, s)
    PROVE  Full(E, n, c, s) /\ Slim(E, n, c, s)
BY DEF Full, Slim, Narrow, T, TB, Row, Col, Scalar, Fp16, Bool

LEMMA BoolType ==
    ASSUME NEW E, NEW n, NEW c, NEW s, E[n].type = TB(c, s)
    PROVE  Full(E, n, c, s) /\ Slim(E, n, c, s)
BY DEF Full, Slim, Narrow, T, TB, Row, Col, Scalar, Fp16, Bool

LEMMA RowType ==
    ASSUME NEW E, NEW n, NEW c, NEW s, E[n].type = Row(s)
    PROVE  Full(E, n, 1, s) /\ Slim(E, n, 1, s) /\ Slim(E, n, c, s)
BY DEF Full, Slim, Narrow, T, TB, Row, Col, Scalar, Fp16, Bool

LEMMA ColType ==
    ASSUME NEW E, NEW n, NEW c, NEW s, E[n].type = Col(c)
    PROVE  Slim(E, n, c, s)
BY DEF Full, Slim, Narrow, T, TB, Row, Col, Scalar, Fp16, Bool

LEMMA ScalarType ==
    ASSUME NEW E, NEW n, NEW c, NEW s, E[n].type = Scalar
    PROVE  Slim(E, n, c, s)
BY DEF Full, Slim, Narrow, T, TB, Row, Col, Scalar, Fp16, Bool

LEMMA UnaryChecks ==
    ASSUME NEW c \in Nat \ {0}, NEW s \in Nat \ {0}, NEW E, NEW n, NEW op, NEW x,
           Plainly(op), Full(E, x, c, s)
    PROVE  StatementOK(E, Let(T(c, s), n, op, <<x>>))
BY UnaryFine DEF Plainly, Full

LEMMA RowUnaryChecks ==
    ASSUME NEW s \in Nat \ {0}, NEW E, NEW n, NEW op, NEW x, Plainly(op), Full(E, x, 1, s)
    PROVE  StatementOK(E, Let(Row(s), n, op, <<x>>))
<1>1. StatementOK(E, Let(T(1, s), n, op, <<x>>))
  BY UnaryChecks
<1> QED BY <1>1 DEF Row

LEMMA BoolChecks ==
    ASSUME NEW c \in Nat \ {0}, NEW s \in Nat \ {0}, NEW E, NEW n, NEW x, Full(E, x, c, s)
    PROVE  StatementOK(E, Let(TB(c, s), n, "bool", <<x>>))
<1>1. Elementwise("bool") /\ "bool" \in Comparing
  BY DEF Elementwise, Comparing, Reductions, Consts
<1> QED BY <1>1, UnaryFine DEF Full

LEMMA BinaryChecks ==
    ASSUME NEW c \in Nat \ {0}, NEW s \in Nat \ {0}, NEW E, NEW n, NEW op, NEW x, NEW y,
           Plainly(op), Slim(E, x, c, s), Slim(E, y, c, s), Full(E, x, c, s) \/ Full(E, y, c, s)
    PROVE  StatementOK(E, Let(T(c, s), n, op, <<x, y>>))
BY BinaryFine DEF Plainly, Full, Slim

LEMMA RowBinaryChecks ==
    ASSUME NEW s \in Nat \ {0}, NEW E, NEW n, NEW op, NEW x, NEW y,
           Plainly(op), Slim(E, x, 1, s), Slim(E, y, 1, s), Full(E, x, 1, s) \/ Full(E, y, 1, s)
    PROVE  StatementOK(E, Let(Row(s), n, op, <<x, y>>))
<1>1. StatementOK(E, Let(T(1, s), n, op, <<x, y>>))
  BY BinaryChecks
<1> QED BY <1>1 DEF Row

LEMMA CompareChecks ==
    ASSUME NEW c \in Nat \ {0}, NEW s \in Nat \ {0}, NEW E, NEW n, NEW op, NEW x, NEW y,
           op \in {"less", "greater", "not_equal"}, Full(E, x, c, s), Slim(E, y, c, s)
    PROVE  StatementOK(E, Let(TB(c, s), n, op, <<x, y>>))
<1>1. Elementwise(op) /\ op \in Comparing
  BY DEF Elementwise, Comparing, Reductions, Consts
<1>2. Slim(E, x, c, s)
  BY FullIsSlim
<1> QED BY <1>1, <1>2, BinaryFine DEF Full, Slim

LEMMA SelectChecks ==
    ASSUME NEW c \in Nat \ {0}, NEW s \in Nat \ {0}, NEW E, NEW n, NEW b, NEW x, NEW y,
           E[b].type = TB(c, s), Slim(E, x, c, s), Slim(E, y, c, s)
    PROVE  StatementOK(E, Let(T(c, s), n, "select", <<b, x, y>>))
BY SelectFine DEF Slim

LEMMA SoftmaxChecks ==
    ASSUME NEW c \in Nat \ {0}, NEW s \in Nat \ {0}, NEW E, NEW n, NEW x, NEW a, Full(E, x, c, s)
    PROVE  StatementOK(E, LetWith(T(c, s), n, "softmax", <<x>>, a))
BY SoftmaxFine DEF Full

LEMMA ReduceChecks ==
    ASSUME NEW c \in Nat \ {0}, NEW s \in Nat \ {0}, NEW E, NEW n, NEW op \in Reductions,
           NEW x, NEW a, Full(E, x, c, s), E[a].val = 1
    PROVE  StatementOK(E, LetWith(Row(s), n, op, <<x>>, a))
BY ReduceFine DEF Full

LEMMA ConstChecks ==
    ASSUME NEW E, NEW st, st.op \in Consts
    PROVE  StatementOK(E, st)
BY DEF StatementOK

\* The fragments of one operation.
LEMMA UnaryFragment ==
    ASSUME NEW c, NEW s, NEW op, Plainly(op), NEW x, NEW o, NEW b,
           b = One(c, s, op, <<x>>, <<o>>).body,
           Pos(c), Pos(s)
    PROVE  Makes(b, o, x, {}, c, s, c, s)
<1>1. b[1] = Let(T(c, s), <<o>>, op, <<x>>)
  BY DEF One, Plain, Frag
<1>2. Len(b) = 1 /\ Sequence(b)
  BY DEF One, Plain, Frag, Sequence
<1>3. Is(b[1], <<o>>, T(c, s), op, {x})
  BY <1>1, LetOne
<1>4. b[1].name = <<o>> /\ b[1].type = T(c, s) /\ b[1].op = op /\ op # "file"
  BY <1>3 DEF Is, Plainly, Elementwise, Consts
<1>5. Supply(b, {x})
  <2>1. Fed(b, {x}, 1)
    BY <1>3 DEF Is, Fed
  <2>2. \A k \in 1 .. 1 : k = 1
    OBVIOUS
  <2> QED BY <1>2, <2>1, <2>2, SupplyIs, Zenon
<1>6. Len(b) \in Nat \ {0} /\ b[Len(b)].name = <<o>>
  <2>1. 1 \in Nat \ {0}
    OBVIOUS
  <2> QED BY <1>2, <1>4, <2>1, Zenon
<1>7. Neat(b, o, {x})
  <2>1. 1 .. (1 - 1) = {}
    OBVIOUS
  <2>2. Named(b, o, <<>>, <<>>)
    BY <1>2, <2>1, Zenon DEF Named
  <2> QED BY <1>2, <1>5, <1>6, <2>2, NeatIs, Zenon
<1>8. FilesIn(b, {}) /\ b[Len(b)].type = T(c, s)
  <2>1. \A k \in 1 .. 1 : k = 1
    OBVIOUS
  <2>2. \A k \in 1 .. Len(b) : b[k].op # "file"
    BY <1>2, <1>4, <2>1, Zenon
  <2> QED BY <1>2, <1>4, <2>2, Zenon DEF FilesIn
<1>9. ASSUME c \in Nat \ {0} /\ s \in Nat \ {0}, NEW E, Full(E, x, c, s)
      PROVE  Fine(b, E)
  <2>1. StatementOK(E, b[1])
    BY <1>1, <1>9, UnaryChecks
  <2> QED BY <1>2, <2>1 DEF Fine
<1>10. /\ Neat(b, o, {x}) /\ FilesIn(b, {}) /\ b[Len(b)].type = T(c, s)
       /\ c \in Nat \ {0} /\ s \in Nat \ {0} =>
            \A E : Full(E, x, c, s) => Fine(b, E)
  BY <1>7, <1>8, <1>9, Zenon
<1> QED BY <1>10, Zenon DEF Pos, Makes

LEMMA BinaryFragment ==
    ASSUME NEW c, NEW s, NEW op, Plainly(op), NEW x, NEW y, NEW o, NEW b,
           b = One(c, s, op, <<x, y>>, <<o>>).body,
           Pos(c), Pos(s)
    PROVE  Makes2(b, o, x, y, {}, c, s)
<1>1. b[1] = Let(T(c, s), <<o>>, op, <<x, y>>)
  BY DEF One, Plain, Frag
<1>2. Len(b) = 1 /\ Sequence(b)
  BY DEF One, Plain, Frag, Sequence
<1>3. Is(b[1], <<o>>, T(c, s), op, {x, y})
  BY <1>1, LetTwo
<1>4. b[1].name = <<o>> /\ b[1].type = T(c, s) /\ b[1].op = op /\ op # "file"
  BY <1>3 DEF Is, Plainly, Elementwise, Consts
<1>5. Supply(b, {x, y})
  <2>1. Fed(b, {x, y}, 1)
    BY <1>3 DEF Is, Fed
  <2>2. \A k \in 1 .. 1 : k = 1
    OBVIOUS
  <2> QED BY <1>2, <2>1, <2>2, SupplyIs
<1>6. Len(b) \in Nat \ {0} /\ b[Len(b)].name = <<o>>
  <2>1. 1 \in Nat \ {0}
    OBVIOUS
  <2> QED BY <1>2, <1>4, <2>1, Zenon
<1>7. Neat(b, o, {x, y})
  <2>1. 1 .. (1 - 1) = {}
    OBVIOUS
  <2>2. Named(b, o, <<>>, <<>>)
    BY <1>2, <2>1, Zenon DEF Named
  <2> QED BY <1>2, <1>5, <1>6, <2>2, NeatIs
<1>8. FilesIn(b, {}) /\ b[Len(b)].type = T(c, s)
  <2>1. \A k \in 1 .. 1 : k = 1
    OBVIOUS
  <2>2. \A k \in 1 .. Len(b) : b[k].op # "file"
    BY <1>2, <1>4, <2>1, Zenon
  <2> QED BY <1>2, <1>4, <2>2, Zenon DEF FilesIn
<1>9. ASSUME c \in Nat \ {0} /\ s \in Nat \ {0}, NEW E, Full(E, x, c, s), Full(E, y, c, s)
      PROVE  Fine(b, E)
  <2>1. StatementOK(E, b[1])
    BY <1>1, <1>9, FullIsSlim, BinaryChecks
  <2> QED BY <1>2, <2>1 DEF Fine
<1>10. /\ Neat(b, o, {x, y}) /\ FilesIn(b, {}) /\ b[Len(b)].type = T(c, s)
       /\ c \in Nat \ {0} /\ s \in Nat \ {0} =>
            \A E : Full(E, x, c, s) /\ Full(E, y, c, s) => Fine(b, E)
  BY <1>7, <1>8, <1>9
<1> QED BY <1>10, Zenon DEF Pos, Makes2

\* The statements that change the shape.
LEMMA ConvChecks ==
    ASSUME NEW ic, NEW oc, NEW s, NEW E, NEW n, NEW w, NEW x,
           E[w].type = ConvW(oc, ic), Full(E, x, ic, s)
    PROVE  StatementOK(E, Let(T(oc, s), n, "conv", <<w, x>>))
BY ConvFine DEF Full

LEMMA SliceChecks ==
    ASSUME NEW ic \in Nat, NEW is \in Nat, NEW oc \in Nat, NEW os \in Nat, oc <= ic, os <= is,
           NEW E, NEW n, NEW x, NEW a, Full(E, x, ic, is), E[a].val = <<1, oc, 1, os>>
    PROVE  StatementOK(E, LetWith(T(oc, os), n, "slice_by_index", <<x>>, a))
BY SliceFine DEF Full

LEMMA TransposeChecks ==
    ASSUME NEW c \in Nat, NEW s \in Nat, NEW E, NEW n, NEW x, NEW a,
           Full(E, x, c, s), E[a].val = <<0, 3, 2, 1>>
    PROVE  StatementOK(E, LetWith(T(s, c), n, "transpose", <<x>>, a))
BY TransposeFine, Zenon DEF Full, T

LEMMA NumelIs ==
    ASSUME NEW p, NEW q, NEW r, NEW t
    PROVE  Numel(<<p, q, r, t>>) = p * q * r * t
<1>1. Len(<<p, q, r, t>>) = 4 /\ Len(<<>>) = 0
  OBVIOUS
<1>2. <<p, q, r, t>> # <<>>
  BY <1>1
<1> QED BY <1>2 DEF Numel

LEMMA ReshapeChecks ==
    ASSUME NEW ic \in Nat, NEW is \in Nat, NEW oc \in Nat, NEW os \in Nat, ic * is = oc * os,
           NEW E, NEW n, NEW x, NEW a, Full(E, x, ic, is), E[a].val = <<1, oc, 1, os>>
    PROVE  StatementOK(E, LetWith(T(oc, os), n, "reshape", <<x>>, a))
<1>1. ASSUME NEW c \in Nat, NEW s \in Nat PROVE Numel(<<1, c, 1, s>>) = c * s
  <2>1. Numel(<<1, c, 1, s>>) = 1 * c * 1 * s
    BY NumelIs
  <2> QED BY <2>1
<1>2. Numel(E[x].type.dims) = Numel(<<1, oc, 1, os>>)
  BY <1>1 DEF Full
<1> QED BY <1>2, ReshapeFine DEF T

\* Splitting the channels and joining the columns of PIXEL_SHUFFLE.
LEMMA SplitChecks ==
    ASSUME NEW c \in Nat, NEW r \in Nat, NEW s \in Nat,
           NEW E, NEW n, NEW x, NEW a, Full(E, x, c * r, s), E[a].val = <<1, c, r, s>>
    PROVE  StatementOK(E, LetWith(Fp16(<<1, c, r, s>>), n, "reshape", <<x>>, a))
<1>1. Numel(<<1, c * r, 1, s>>) = 1 * (c * r) * 1 * s
  BY NumelIs
<1>2. Numel(<<1, c, r, s>>) = 1 * c * r * s
  BY NumelIs
<1> DEFINE m == c * r
<1>3. m \in Nat /\ 1 * m * 1 * s = m * s /\ 1 * c * r * s = m * s
  OBVIOUS
<1>4. Numel(E[x].type.dims) = Numel(<<1, c, r, s>>)
  BY <1>1, <1>2, <1>3 DEF Full
<1> QED BY <1>4, ReshapeFine

LEMMA SwapChecks ==
    ASSUME NEW c \in Nat, NEW r \in Nat, NEW s \in Nat, NEW E, NEW n, NEW x, NEW a,
           E[x].type = Fp16(<<1, c, r, s>>), E[a].val = <<0, 1, 3, 2>>
    PROVE  StatementOK(E, LetWith(Fp16(<<1, c, s, r>>), n, "transpose", <<x>>, a))
<1>1. E[x].type.dims = <<1, c, r, s>>
  BY DEF Fp16
<1> QED BY <1>1, TransposeFine, Zenon

LEMMA JoinChecks ==
    ASSUME NEW c \in Nat, NEW r \in Nat, NEW s \in Nat, NEW E, NEW n, NEW x, NEW a,
           E[x].type = Fp16(<<1, c, s, r>>), E[a].val = <<1, c, 1, s * r>>
    PROVE  StatementOK(E, LetWith(T(c, s * r), n, "reshape", <<x>>, a))
<1>1. E[x].type.dims = <<1, c, s, r>>
  BY DEF Fp16
<1>2. Numel(<<1, c, 1, s * r>>) = 1 * c * 1 * (s * r)
  BY NumelIs
<1>3. Numel(<<1, c, s, r>>) = 1 * c * s * r
  BY NumelIs
<1> DEFINE m == s * r
<1>4. m \in Nat /\ 1 * c * 1 * m = c * m /\ 1 * c * s * r = c * m
  OBVIOUS
<1>5. Numel(E[x].type.dims) = Numel(<<1, c, 1, s * r>>)
  BY <1>1, <1>2, <1>3, <1>4
<1> QED BY <1>5, ReshapeFine DEF T

\* MATMUL.
LEMMA MatmulFragment ==
    ASSUME NEW ic, NEW oc, NEW s, NEW in, NEW f, NEW o, NEW b,
           b = matmul_fragment(ic, oc, s, in, <<o>>, f).body
    PROVE  Makes(b, o, in, {<<f, <<oc, ic, 1, 1>>>>}, ic, s, oc, s)
<1>1. /\ b[1] = File(ConvW(oc, ic), Local(o, "W"), f)
      /\ b[2] = Let(T(oc, s), <<o>>, "conv", <<Local(o, "W"), in>>)
  BY DEF matmul_fragment, Frag, Local
<1>2. Len(b) = 2 /\ Sequence(b)
  BY DEF matmul_fragment, Frag, Sequence
<1>3. /\ Is(b[1], Local(o, "W"), ConvW(oc, ic), "file", {})
      /\ Is(b[2], <<o>>, T(oc, s), "conv", {Local(o, "W"), in})
  BY <1>1, LetTwo, FileIs
<1>4. /\ b[1].name = Local(o, "W") /\ b[1].type = ConvW(oc, ic) /\ b[1].op = "file"
      /\ b[2].name = <<o>> /\ b[2].type = T(oc, s) /\ b[2].op = "conv"
  BY <1>3 DEF Is
<1>5. /\ b[1].val = f
  BY <1>1, FileIs
<1>6. \A k \in 1 .. 2 : k \in {1, 2}
  OBVIOUS
<1>7. Supply(b, {in})
  <2>1. /\ Fed(b, {in}, 1)
        /\ Fed(b, {in}, 2)
    BY <1>3, <1>4 DEF Is, Fed
  <2>2. \A k \in 1 .. 2 : Fed(b, {in}, k)
    BY <1>6, <2>1
  <2> QED BY <1>2, <2>2, SupplyIs, Zenon
<1> DEFINE N == <<"W">>
           at == [W |-> 1]
<1>8. \A k \in 1 .. (2 - 1) : b[k].name = Local(o, N[k]) /\ at[N[k]] = k
  BY <1>4, <1>6
<1>9. b[2].name = <<o>> /\ 2 \in Nat \ {0}
  BY <1>4
<1> HIDE DEF N, at
<1>10. Len(b) \in Nat \ {0} /\ b[Len(b)].name = <<o>> /\ Named(b, o, N, at)
  BY <1>2, <1>8, <1>9, Zenon DEF Named
<1>11. Neat(b, o, {in})
  BY <1>2, <1>7, <1>10, NeatIs
<1>12. FilesIn(b, {<<f, <<oc, ic, 1, 1>>>>})
  <2>1. \A k \in 1 .. 2 : b[k].op = "file" => k \in {1}
    BY <1>6, <1>4
  <2>2. /\ <<b[1].val, b[1].type.dims>> \in {<<f, <<oc, ic, 1, 1>>>>}
    BY <1>4, <1>5 DEF T, Fp16, Col, ConvW
  <2> QED BY <1>2, <2>1, <2>2, Zenon DEF FilesIn
<1>13. b[Len(b)].type = T(oc, s)
  BY <1>2, <1>4
<1>14. ASSUME TRUE, NEW E, Full(E, in, ic, s), Declared(E, b)
       PROVE  \A k \in 1 .. 2 : StatementOK(E, b[k])
  <2>1. \A k \in 1 .. 2 : /\ E[b[k].name].type = b[k].type
                          /\ (b[k].op = "attr" => E[b[k].name].val = b[k].val)
    BY <1>2, <1>14 DEF Declared
  <2>2. /\ E[b[1].name].type = b[1].type
        /\ E[b[2].name].type = b[2].type
    BY <2>1
  <2>3. /\ E[Local(o, "W")].type = ConvW(oc, ic)
    BY <1>4, <2>2
  <2>4. StatementOK(E, b[1])
    BY <1>4, ConstChecks DEF Consts
  <2>5. StatementOK(E, b[2])
    BY <1>1, <1>14, <2>3, ConvChecks
  <2> QED BY <1>6, <2>4, <2>5
<1>15. /\ Neat(b, o, {in}) /\ FilesIn(b, {<<f, <<oc, ic, 1, 1>>>>}) /\ b[Len(b)].type = T(oc, s)
       /\ TRUE =>
            \A E : Full(E, in, ic, s) => Fine(b, E)
  BY <1>11, <1>12, <1>13, <1>14, <1>2 DEF Fine
<1> QED BY <1>15, Zenon DEF Makes

\* REDUCE_SUM, REDUCE_MEAN and REDUCE_MAX.
LEMMA ReduceFragment ==
    ASSUME NEW op \in Reductions, NEW s, NEW in, NEW c, NEW o, NEW b,
           b = reduce_fragment(op, s, in, <<o>>).body,
           Pos(c), Pos(s)
    PROVE  Makes(b, o, in, {}, c, s, 1, s)
<1>1. /\ b[1] = Attr(Local(o, "ax"), 1)
      /\ b[2] = LetWith(Row(s), <<o>>, op, <<in>>, Local(o, "ax"))
  BY DEF reduce_fragment, Plain, Frag, Local
<1>2. Len(b) = 2 /\ Sequence(b)
  BY DEF reduce_fragment, Plain, Frag, Sequence
<1>3. /\ Is(b[1], Local(o, "ax"), AttrType, "attr", {})
      /\ Is(b[2], <<o>>, Row(s), op, {in, Local(o, "ax")})
  BY <1>1, LetWithOne, AttrIs
<1>4. /\ b[1].name = Local(o, "ax") /\ b[1].type = AttrType /\ b[1].op = "attr"
      /\ b[2].name = <<o>> /\ b[2].type = Row(s) /\ b[2].op = op
  BY <1>3 DEF Is
<1>5. /\ b[1].val = 1
  BY <1>1, AttrIs
<1>6. \A k \in 1 .. 2 : k \in {1, 2}
  OBVIOUS
<1>7. Supply(b, {in})
  <2>1. /\ Fed(b, {in}, 1)
        /\ Fed(b, {in}, 2)
    BY <1>3, <1>4 DEF Is, Fed
  <2>2. \A k \in 1 .. 2 : Fed(b, {in}, k)
    BY <1>6, <2>1
  <2> QED BY <1>2, <2>2, SupplyIs, Zenon
<1> DEFINE N == <<"ax">>
           at == [ax |-> 1]
<1>8. \A k \in 1 .. (2 - 1) : b[k].name = Local(o, N[k]) /\ at[N[k]] = k
  BY <1>4, <1>6
<1>9. b[2].name = <<o>> /\ 2 \in Nat \ {0}
  BY <1>4
<1> HIDE DEF N, at
<1>10. Len(b) \in Nat \ {0} /\ b[Len(b)].name = <<o>> /\ Named(b, o, N, at)
  BY <1>2, <1>8, <1>9, Zenon DEF Named
<1>11. Neat(b, o, {in})
  BY <1>2, <1>7, <1>10, NeatIs
<1>12. FilesIn(b, {})
  BY <1>2, <1>4, <1>6 DEF FilesIn, Reductions
<1>13. b[Len(b)].type = Row(s)
  BY <1>2, <1>4
<1>14. ASSUME c \in Nat \ {0} /\ s \in Nat \ {0}, NEW E, Full(E, in, c, s), Declared(E, b)
       PROVE  \A k \in 1 .. 2 : StatementOK(E, b[k])
  <2>1. \A k \in 1 .. 2 : /\ E[b[k].name].type = b[k].type
                          /\ (b[k].op = "attr" => E[b[k].name].val = b[k].val)
    BY <1>2, <1>14 DEF Declared
  <2>2. /\ E[b[1].name].type = b[1].type /\ E[b[1].name].val = b[1].val
        /\ E[b[2].name].type = b[2].type
    BY <1>4, <2>1
  <2>3. /\ E[Local(o, "ax")].type = AttrType /\ E[Local(o, "ax")].val = 1
    BY <1>4, <1>5, <2>2
  <2>4. StatementOK(E, b[1])
    BY <1>4, ConstChecks DEF Consts
  <2>5. StatementOK(E, b[2])
    BY <1>1, <1>14, <2>3, FullIsSlim, ReduceChecks DEF Reductions
  <2> QED BY <1>6, <2>4, <2>5
<1>15. /\ Neat(b, o, {in}) /\ FilesIn(b, {}) /\ b[Len(b)].type = Row(s)
       /\ c \in Nat \ {0} /\ s \in Nat \ {0} =>
            \A E : Full(E, in, c, s) => Fine(b, E)
  BY <1>11, <1>12, <1>13, <1>14, <1>2 DEF Fine
<1> QED BY <1>15, Zenon DEF Pos, Makes, Row

\* SLICE_BY_INDEX.
LEMMA SliceByIndexFragment ==
    ASSUME NEW ic, NEW is, NEW oc, NEW os, NEW in, NEW o, NEW b,
           b = slice_by_index_fragment(ic, is, oc, os, in, <<o>>).body,
           Pos(ic), Pos(is), Pos(oc), Pos(os), Below(oc, ic), Below(os, is)
    PROVE  Makes(b, o, in, {}, ic, is, oc, os)
<1>1. /\ b[1] = Attr(Local(o, "ed"), <<1, oc, 1, os>>)
      /\ b[2] = LetWith(T(oc, os), <<o>>, "slice_by_index", <<in>>, Local(o, "ed"))
  BY DEF slice_by_index_fragment, Frag, Local
<1>2. Len(b) = 2 /\ Sequence(b)
  BY DEF slice_by_index_fragment, Frag, Sequence
<1>3. /\ Is(b[1], Local(o, "ed"), AttrType, "attr", {})
      /\ Is(b[2], <<o>>, T(oc, os), "slice_by_index", {in, Local(o, "ed")})
  BY <1>1, LetWithOne, AttrIs
<1>4. /\ b[1].name = Local(o, "ed") /\ b[1].type = AttrType /\ b[1].op = "attr"
      /\ b[2].name = <<o>> /\ b[2].type = T(oc, os) /\ b[2].op = "slice_by_index"
  BY <1>3 DEF Is
<1>5. /\ b[1].val = <<1, oc, 1, os>>
  BY <1>1, AttrIs
<1>6. \A k \in 1 .. 2 : k \in {1, 2}
  OBVIOUS
<1>7. Supply(b, {in})
  <2>1. /\ Fed(b, {in}, 1)
        /\ Fed(b, {in}, 2)
    BY <1>3, <1>4 DEF Is, Fed
  <2>2. \A k \in 1 .. 2 : Fed(b, {in}, k)
    BY <1>6, <2>1
  <2> QED BY <1>2, <2>2, SupplyIs, Zenon
<1> DEFINE N == <<"ed">>
           at == [ed |-> 1]
<1>8. \A k \in 1 .. (2 - 1) : b[k].name = Local(o, N[k]) /\ at[N[k]] = k
  BY <1>4, <1>6
<1>9. b[2].name = <<o>> /\ 2 \in Nat \ {0}
  BY <1>4
<1> HIDE DEF N, at
<1>10. Len(b) \in Nat \ {0} /\ b[Len(b)].name = <<o>> /\ Named(b, o, N, at)
  BY <1>2, <1>8, <1>9, Zenon DEF Named
<1>11. Neat(b, o, {in})
  BY <1>2, <1>7, <1>10, NeatIs
<1>12. FilesIn(b, {})
  BY <1>2, <1>4, <1>6 DEF FilesIn
<1>13. b[Len(b)].type = T(oc, os)
  BY <1>2, <1>4
<1>14. ASSUME ic \in Nat /\ is \in Nat /\ oc \in Nat /\ os \in Nat /\ oc <= ic /\ os <= is, NEW E, Full(E, in, ic, is), Declared(E, b)
       PROVE  \A k \in 1 .. 2 : StatementOK(E, b[k])
  <2>1. \A k \in 1 .. 2 : /\ E[b[k].name].type = b[k].type
                          /\ (b[k].op = "attr" => E[b[k].name].val = b[k].val)
    BY <1>2, <1>14 DEF Declared
  <2>2. /\ E[b[1].name].type = b[1].type /\ E[b[1].name].val = b[1].val
        /\ E[b[2].name].type = b[2].type
    BY <1>4, <2>1
  <2>3. /\ E[Local(o, "ed")].type = AttrType /\ E[Local(o, "ed")].val = <<1, oc, 1, os>>
    BY <1>4, <1>5, <2>2
  <2>4. StatementOK(E, b[1])
    BY <1>4, ConstChecks DEF Consts
  <2>5. StatementOK(E, b[2])
    BY <1>1, <1>14, <2>3, SliceChecks
  <2> QED BY <1>6, <2>4, <2>5
<1>15. /\ Neat(b, o, {in}) /\ FilesIn(b, {}) /\ b[Len(b)].type = T(oc, os)
       /\ ic \in Nat /\ is \in Nat /\ oc \in Nat /\ os \in Nat /\ oc <= ic /\ os <= is =>
            \A E : Full(E, in, ic, is) => Fine(b, E)
  BY <1>11, <1>12, <1>13, <1>14, <1>2, Zenon DEF Fine
<1> QED BY <1>15, Zenon DEF Pos, Below, Makes

\* TRANSPOSE.
LEMMA TransposeFragment ==
    ASSUME NEW c, NEW s, NEW in, NEW o, NEW b,
           b = transpose_fragment(c, s, in, <<o>>).body,
           Pos(c), Pos(s)
    PROVE  Makes(b, o, in, {}, c, s, s, c)
<1>1. /\ b[1] = Attr(Local(o, "perm"), <<0, 3, 2, 1>>)
      /\ b[2] = LetWith(T(s, c), <<o>>, "transpose", <<in>>, Local(o, "perm"))
  BY DEF transpose_fragment, Frag, Local
<1>2. Len(b) = 2 /\ Sequence(b)
  BY DEF transpose_fragment, Frag, Sequence
<1>3. /\ Is(b[1], Local(o, "perm"), AttrType, "attr", {})
      /\ Is(b[2], <<o>>, T(s, c), "transpose", {in, Local(o, "perm")})
  BY <1>1, LetWithOne, AttrIs
<1>4. /\ b[1].name = Local(o, "perm") /\ b[1].type = AttrType /\ b[1].op = "attr"
      /\ b[2].name = <<o>> /\ b[2].type = T(s, c) /\ b[2].op = "transpose"
  BY <1>3 DEF Is
<1>5. /\ b[1].val = <<0, 3, 2, 1>>
  BY <1>1, AttrIs
<1>6. \A k \in 1 .. 2 : k \in {1, 2}
  OBVIOUS
<1>7. Supply(b, {in})
  <2>1. /\ Fed(b, {in}, 1)
        /\ Fed(b, {in}, 2)
    BY <1>3, <1>4 DEF Is, Fed
  <2>2. \A k \in 1 .. 2 : Fed(b, {in}, k)
    BY <1>6, <2>1
  <2> QED BY <1>2, <2>2, SupplyIs, Zenon
<1> DEFINE N == <<"perm">>
           at == [perm |-> 1]
<1>8. \A k \in 1 .. (2 - 1) : b[k].name = Local(o, N[k]) /\ at[N[k]] = k
  BY <1>4, <1>6
<1>9. b[2].name = <<o>> /\ 2 \in Nat \ {0}
  BY <1>4
<1> HIDE DEF N, at
<1>10. Len(b) \in Nat \ {0} /\ b[Len(b)].name = <<o>> /\ Named(b, o, N, at)
  BY <1>2, <1>8, <1>9, Zenon DEF Named
<1>11. Neat(b, o, {in})
  BY <1>2, <1>7, <1>10, NeatIs
<1>12. FilesIn(b, {})
  BY <1>2, <1>4, <1>6 DEF FilesIn
<1>13. b[Len(b)].type = T(s, c)
  BY <1>2, <1>4
<1>14. ASSUME c \in Nat /\ s \in Nat, NEW E, Full(E, in, c, s), Declared(E, b)
       PROVE  \A k \in 1 .. 2 : StatementOK(E, b[k])
  <2>1. \A k \in 1 .. 2 : /\ E[b[k].name].type = b[k].type
                          /\ (b[k].op = "attr" => E[b[k].name].val = b[k].val)
    BY <1>2, <1>14 DEF Declared
  <2>2. /\ E[b[1].name].type = b[1].type /\ E[b[1].name].val = b[1].val
        /\ E[b[2].name].type = b[2].type
    BY <1>4, <2>1
  <2>3. /\ E[Local(o, "perm")].type = AttrType /\ E[Local(o, "perm")].val = <<0, 3, 2, 1>>
    BY <1>4, <1>5, <2>2
  <2>4. StatementOK(E, b[1])
    BY <1>4, ConstChecks DEF Consts
  <2>5. StatementOK(E, b[2])
    BY <1>1, <1>14, <2>3, TransposeChecks
  <2> QED BY <1>6, <2>4, <2>5
<1>15. /\ Neat(b, o, {in}) /\ FilesIn(b, {}) /\ b[Len(b)].type = T(s, c)
       /\ c \in Nat /\ s \in Nat =>
            \A E : Full(E, in, c, s) => Fine(b, E)
  BY <1>11, <1>12, <1>13, <1>14, <1>2 DEF Fine
<1> QED BY <1>15, Zenon DEF Pos, Makes

\* RESHAPE.
LEMMA ReshapeFragment ==
    ASSUME NEW ic, NEW is, NEW oc, NEW os, NEW in, NEW o, NEW b,
           b = reshape_fragment(ic, is, oc, os, in, <<o>>).body,
           Pos(ic), Pos(is), Pos(oc), Pos(os), SameSize(ic, is, oc, os)
    PROVE  Makes(b, o, in, {}, ic, is, oc, os)
<1>1. /\ b[1] = Attr(Local(o, "shape"), <<1, oc, 1, os>>)
      /\ b[2] = LetWith(T(oc, os), <<o>>, "reshape", <<in>>, Local(o, "shape"))
  BY DEF reshape_fragment, Frag, Local
<1>2. Len(b) = 2 /\ Sequence(b)
  BY DEF reshape_fragment, Frag, Sequence
<1>3. /\ Is(b[1], Local(o, "shape"), AttrType, "attr", {})
      /\ Is(b[2], <<o>>, T(oc, os), "reshape", {in, Local(o, "shape")})
  BY <1>1, LetWithOne, AttrIs
<1>4. /\ b[1].name = Local(o, "shape") /\ b[1].type = AttrType /\ b[1].op = "attr"
      /\ b[2].name = <<o>> /\ b[2].type = T(oc, os) /\ b[2].op = "reshape"
  BY <1>3 DEF Is
<1>5. /\ b[1].val = <<1, oc, 1, os>>
  BY <1>1, AttrIs
<1>6. \A k \in 1 .. 2 : k \in {1, 2}
  OBVIOUS
<1>7. Supply(b, {in})
  <2>1. /\ Fed(b, {in}, 1)
        /\ Fed(b, {in}, 2)
    BY <1>3, <1>4 DEF Is, Fed
  <2>2. \A k \in 1 .. 2 : Fed(b, {in}, k)
    BY <1>6, <2>1
  <2> QED BY <1>2, <2>2, SupplyIs, Zenon
<1> DEFINE N == <<"shape">>
           at == [shape |-> 1]
<1>8. \A k \in 1 .. (2 - 1) : b[k].name = Local(o, N[k]) /\ at[N[k]] = k
  BY <1>4, <1>6
<1>9. b[2].name = <<o>> /\ 2 \in Nat \ {0}
  BY <1>4
<1> HIDE DEF N, at
<1>10. Len(b) \in Nat \ {0} /\ b[Len(b)].name = <<o>> /\ Named(b, o, N, at)
  BY <1>2, <1>8, <1>9, Zenon DEF Named
<1>11. Neat(b, o, {in})
  BY <1>2, <1>7, <1>10, NeatIs
<1>12. FilesIn(b, {})
  BY <1>2, <1>4, <1>6 DEF FilesIn
<1>13. b[Len(b)].type = T(oc, os)
  BY <1>2, <1>4
<1>14. ASSUME ic \in Nat /\ is \in Nat /\ oc \in Nat /\ os \in Nat /\ ic * is = oc * os, NEW E, Full(E, in, ic, is), Declared(E, b)
       PROVE  \A k \in 1 .. 2 : StatementOK(E, b[k])
  <2>1. \A k \in 1 .. 2 : /\ E[b[k].name].type = b[k].type
                          /\ (b[k].op = "attr" => E[b[k].name].val = b[k].val)
    BY <1>2, <1>14, Zenon DEF Declared
  <2>2. /\ E[b[1].name].type = b[1].type /\ E[b[1].name].val = b[1].val
        /\ E[b[2].name].type = b[2].type
    BY <1>4, <2>1
  <2>3. /\ E[Local(o, "shape")].type = AttrType /\ E[Local(o, "shape")].val = <<1, oc, 1, os>>
    BY <1>4, <1>5, <2>2
  <2>4. StatementOK(E, b[1])
    BY <1>4, ConstChecks DEF Consts
  <2>5. StatementOK(E, b[2])
    BY <1>1, <1>14, <2>3, ReshapeChecks
  <2> QED BY <1>6, <2>4, <2>5
<1>15. /\ Neat(b, o, {in}) /\ FilesIn(b, {}) /\ b[Len(b)].type = T(oc, os)
       /\ ic \in Nat /\ is \in Nat /\ oc \in Nat /\ os \in Nat /\ ic * is = oc * os =>
            \A E : Full(E, in, ic, is) => Fine(b, E)
  BY <1>11, <1>12, <1>13, <1>14, <1>2, Zenon DEF Fine
<1> QED BY <1>15, Zenon DEF Pos, SameSize, Makes

\* PIXEL_SHUFFLE.
LEMMA PixelShuffleFragment ==
    ASSUME NEW oc, NEW is, NEW r, NEW in, NEW o, NEW b,
           b = pixel_shuffle_fragment(oc, is, r, in, <<o>>).body,
           NEW ic, NEW os, Pos(oc), Pos(is), Pos(r), Times(ic, oc, r), Times(os, is, r)
    PROVE  Makes(b, o, in, {}, ic, is, oc, os)
<1>1. /\ b[1] = Attr(Local(o, "sh1"), <<1, oc, r, is>>)
      /\ b[2] = LetWith(Fp16(<<1, oc, r, is>>), Local(o, "r1"), "reshape", <<in>>, Local(o, "sh1"))
      /\ b[3] = Attr(Local(o, "pm"), <<0, 1, 3, 2>>)
      /\ b[4] = LetWith(Fp16(<<1, oc, is, r>>), Local(o, "tr"), "transpose", <<Local(o, "r1")>>, Local(o, "pm"))
      /\ b[5] = Attr(Local(o, "sh2"), <<1, oc, 1, is * r>>)
      /\ b[6] = LetWith(T(oc, is * r), <<o>>, "reshape", <<Local(o, "tr")>>, Local(o, "sh2"))
  BY DEF pixel_shuffle_fragment, Frag, Local
<1>2. Len(b) = 6 /\ Sequence(b)
  BY DEF pixel_shuffle_fragment, Frag, Sequence
<1>3. /\ Is(b[1], Local(o, "sh1"), AttrType, "attr", {})
      /\ Is(b[2], Local(o, "r1"), Fp16(<<1, oc, r, is>>), "reshape", {in, Local(o, "sh1")})
      /\ Is(b[3], Local(o, "pm"), AttrType, "attr", {})
      /\ Is(b[4], Local(o, "tr"), Fp16(<<1, oc, is, r>>), "transpose", {Local(o, "r1"), Local(o, "pm")})
      /\ Is(b[5], Local(o, "sh2"), AttrType, "attr", {})
      /\ Is(b[6], <<o>>, T(oc, is * r), "reshape", {Local(o, "tr"), Local(o, "sh2")})
  BY <1>1, LetWithOne, AttrIs
<1>4. /\ b[1].name = Local(o, "sh1") /\ b[1].type = AttrType /\ b[1].op = "attr"
      /\ b[2].name = Local(o, "r1") /\ b[2].type = Fp16(<<1, oc, r, is>>) /\ b[2].op = "reshape"
      /\ b[3].name = Local(o, "pm") /\ b[3].type = AttrType /\ b[3].op = "attr"
      /\ b[4].name = Local(o, "tr") /\ b[4].type = Fp16(<<1, oc, is, r>>) /\ b[4].op = "transpose"
      /\ b[5].name = Local(o, "sh2") /\ b[5].type = AttrType /\ b[5].op = "attr"
      /\ b[6].name = <<o>> /\ b[6].type = T(oc, is * r) /\ b[6].op = "reshape"
  BY <1>3 DEF Is
<1>5. /\ b[1].val = <<1, oc, r, is>>
      /\ b[3].val = <<0, 1, 3, 2>>
      /\ b[5].val = <<1, oc, 1, is * r>>
  BY <1>1, AttrIs
<1>6. \A k \in 1 .. 6 : k \in {1, 2, 3, 4, 5, 6}
  OBVIOUS
<1>7. Supply(b, {in})
  <2>1. /\ Fed(b, {in}, 1)
        /\ Fed(b, {in}, 2)
        /\ Fed(b, {in}, 3)
        /\ Fed(b, {in}, 4)
        /\ Fed(b, {in}, 5)
        /\ Fed(b, {in}, 6)
    BY <1>3, <1>4 DEF Is, Fed
  <2>2. \A k \in 1 .. 6 : Fed(b, {in}, k)
    BY <1>6, <2>1
  <2> QED BY <1>2, <2>2, SupplyIs, Zenon
<1> DEFINE N == <<"sh1", "r1", "pm", "tr", "sh2">>
           at == [sh1 |-> 1, r1 |-> 2, pm |-> 3, tr |-> 4, sh2 |-> 5]
<1>8. \A k \in 1 .. (6 - 1) : b[k].name = Local(o, N[k]) /\ at[N[k]] = k
  BY <1>4, <1>6
<1>9. b[6].name = <<o>> /\ 6 \in Nat \ {0}
  BY <1>4
<1> HIDE DEF N, at
<1>10. Len(b) \in Nat \ {0} /\ b[Len(b)].name = <<o>> /\ Named(b, o, N, at)
  BY <1>2, <1>8, <1>9, Zenon DEF Named
<1>11. Neat(b, o, {in})
  BY <1>2, <1>7, <1>10, NeatIs
<1>12. FilesIn(b, {})
  BY <1>2, <1>4, <1>6, Zenon DEF FilesIn
<1>13. b[Len(b)].type = T(oc, is * r)
  BY <1>2, <1>4, Zenon
<1>14. ASSUME oc \in Nat /\ is \in Nat /\ r \in Nat, NEW E, Full(E, in, oc * r, is), Declared(E, b)
       PROVE  \A k \in 1 .. 6 : StatementOK(E, b[k])
  <2>1. \A k \in 1 .. 6 : /\ E[b[k].name].type = b[k].type
                          /\ (b[k].op = "attr" => E[b[k].name].val = b[k].val)
    BY <1>2, <1>14 DEF Declared
  <2>2. /\ E[b[1].name].type = b[1].type /\ E[b[1].name].val = b[1].val
        /\ E[b[2].name].type = b[2].type
        /\ E[b[3].name].type = b[3].type /\ E[b[3].name].val = b[3].val
        /\ E[b[4].name].type = b[4].type
        /\ E[b[5].name].type = b[5].type /\ E[b[5].name].val = b[5].val
        /\ E[b[6].name].type = b[6].type
    BY <1>4, <2>1
  <2>3. /\ E[Local(o, "sh1")].type = AttrType /\ E[Local(o, "sh1")].val = <<1, oc, r, is>>
        /\ E[Local(o, "r1")].type = Fp16(<<1, oc, r, is>>)
        /\ E[Local(o, "pm")].type = AttrType /\ E[Local(o, "pm")].val = <<0, 1, 3, 2>>
        /\ E[Local(o, "tr")].type = Fp16(<<1, oc, is, r>>)
        /\ E[Local(o, "sh2")].type = AttrType /\ E[Local(o, "sh2")].val = <<1, oc, 1, is * r>>
    BY <1>4, <1>5, <2>2
  <2>4. StatementOK(E, b[1])
    BY <1>4, ConstChecks DEF Consts
  <2>5. StatementOK(E, b[2])
    BY <1>1, <1>14, <2>3, SplitChecks
  <2>6. StatementOK(E, b[3])
    BY <1>4, ConstChecks DEF Consts
  <2>7. StatementOK(E, b[4])
    BY <1>1, <1>14, <2>3, SwapChecks, Zenon
  <2>8. StatementOK(E, b[5])
    BY <1>4, ConstChecks DEF Consts
  <2>9. StatementOK(E, b[6])
    BY <1>1, <1>14, <2>3, JoinChecks
  <2> QED BY <1>6, <2>4, <2>5, <2>6, <2>7, <2>8, <2>9
<1>15. /\ Neat(b, o, {in}) /\ FilesIn(b, {}) /\ b[Len(b)].type = T(oc, is * r)
       /\ oc \in Nat /\ is \in Nat /\ r \in Nat =>
            \A E : Full(E, in, oc * r, is) => Fine(b, E)
  BY <1>11, <1>12, <1>13, <1>14, <1>2, Zenon DEF Fine
<1> QED BY <1>15, Zenon DEF Pos, Times, Makes

\* CONCAT, whose statements do not pass the type check.
LEMMA ConcatFragment ==
    ASSUME NEW c0, NEW c1, NEW s, NEW in, NEW arg, NEW o, NEW b,
           b = concat_fragment(c0, c1, s, in, arg, <<o>>).body
    PROVE  Joins(b, o, in, arg)
<1>1. /\ b[1] = Attr(Local(o, "ax"), 1)
      /\ b[2] = LetWith(T(c0 + c1, s), <<o>>, "concat", <<in, arg>>, Local(o, "ax"))
  BY DEF concat_fragment, Plain, Frag, Local
<1>2. Len(b) = 2 /\ Sequence(b)
  BY DEF concat_fragment, Plain, Frag, Sequence
<1>3. /\ Is(b[1], Local(o, "ax"), AttrType, "attr", {})
      /\ Is(b[2], <<o>>, T(c0 + c1, s), "concat", {in, arg, Local(o, "ax")})
  BY <1>1, LetWithTwo, AttrIs
<1>4. /\ b[1].name = Local(o, "ax") /\ b[1].type = AttrType /\ b[1].op = "attr"
      /\ b[2].name = <<o>> /\ b[2].type = T(c0 + c1, s) /\ b[2].op = "concat"
  BY <1>3 DEF Is
<1>5. /\ b[1].val = 1
  BY <1>1, AttrIs
<1>6. \A k \in 1 .. 2 : k \in {1, 2}
  OBVIOUS
<1>7. Supply(b, {in, arg})
  <2>1. /\ Fed(b, {in, arg}, 1)
        /\ Fed(b, {in, arg}, 2)
    BY <1>3, <1>4 DEF Is, Fed
  <2>2. \A k \in 1 .. 2 : Fed(b, {in, arg}, k)
    BY <1>6, <2>1
  <2> QED BY <1>2, <2>2, SupplyIs, Zenon
<1> DEFINE N == <<"ax">>
           at == [ax |-> 1]
<1>8. \A k \in 1 .. (2 - 1) : b[k].name = Local(o, N[k]) /\ at[N[k]] = k
  BY <1>4, <1>6
<1>9. b[2].name = <<o>> /\ 2 \in Nat \ {0}
  BY <1>4
<1> HIDE DEF N, at
<1>10. Len(b) \in Nat \ {0} /\ b[Len(b)].name = <<o>> /\ Named(b, o, N, at)
  BY <1>2, <1>8, <1>9, Zenon DEF Named
<1>11. Neat(b, o, {in, arg})
  BY <1>2, <1>7, <1>10, NeatIs
<1>12. FilesIn(b, {})
  BY <1>2, <1>4, <1>6 DEF FilesIn
<1>13. ASSUME NEW E, NEW blobs, NEW c, NEW d, NEW m, NEW t, Settled(E, b, blobs),
              Full(E, in, c, t), Full(E, arg, d, t), Plus(m, c, d)
       PROVE  E[<<o>>].type = T(m, t)
  <2>1. 1 \in 1 .. Len(b) /\ 2 \in 1 .. Len(b)
    <3>1. 1 \in 1 .. 2 /\ 2 \in 1 .. 2
      OBVIOUS
    <3> QED BY <1>2, <3>1, Zenon
  <2>2. /\ E[b[1].name] = Outcome(E, b[1], blobs)
        /\ E[b[2].name] = Outcome(E, b[2], blobs)
    BY <1>13, <2>1 DEF Settled
  <2>3. E[Local(o, "ax")].val = 1
    BY <1>4, <1>5, <2>2, OutcomeType
  <2>4. E[<<o>>] = Outcome(E, LetWith(T(c0 + c1, s), <<o>>, "concat", <<in, arg>>, Local(o, "ax")), blobs)
    BY <1>1, <1>4, <2>2
  <2>5. E[in].type.dims = <<1, c, 1, t>> /\ E[arg].type.dims = <<1, d, 1, t>>
    BY <1>13 DEF Full
  <2>6. E[<<o>>].type = T(c + d, t)
    BY <2>3, <2>4, <2>5, ConcatType
  <2> QED BY <1>13, <2>6 DEF Plus
<1> QED BY <1>11, <1>12, <1>13 DEF Joins

LEMMA GeluFragment ==
    ASSUME NEW c, NEW s, NEW in, NEW o, NEW b,
           b = gelu_fragment(c, s, in, <<o>>).body,
           Pos(c), Pos(s)
    PROVE  Makes(b, o, in, {}, c, s, c, s)
<1>1. /\ b[1] = Let(T(c, s), Local(o, "x2"), "mul", <<in, in>>)
      /\ b[2] = Let(T(c, s), Local(o, "x3"), "mul", <<Local(o, "x2"), in>>)
      /\ b[3] = Lit(Local(o, "c1"), Real("0.044715"))
      /\ b[4] = Let(T(c, s), Local(o, "cx3"), "mul", <<Local(o, "x3"), Local(o, "c1")>>)
      /\ b[5] = Let(T(c, s), Local(o, "inn"), "add", <<in, Local(o, "cx3")>>)
      /\ b[6] = Lit(Local(o, "c2"), Real("0.7979"))
      /\ b[7] = Let(T(c, s), Local(o, "sc"), "mul", <<Local(o, "inn"), Local(o, "c2")>>)
      /\ b[8] = Let(T(c, s), Local(o, "th"), "tanh", <<Local(o, "sc")>>)
      /\ b[9] = Lit(Local(o, "one"), Num(1))
      /\ b[10] = Let(T(c, s), Local(o, "onep"), "add", <<Local(o, "th"), Local(o, "one")>>)
      /\ b[11] = Lit(Local(o, "half"), Half)
      /\ b[12] = Let(T(c, s), Local(o, "hx"), "mul", <<in, Local(o, "half")>>)
      /\ b[13] = Let(T(c, s), <<o>>, "mul", <<Local(o, "hx"), Local(o, "onep")>>)
  BY DEF gelu_fragment, Plain, Frag, Local
<1>2. Len(b) = 13 /\ Sequence(b)
  BY DEF gelu_fragment, Plain, Frag, Sequence
<1>3. /\ Is(b[1], Local(o, "x2"), T(c, s), "mul", {in, in})
      /\ Is(b[2], Local(o, "x3"), T(c, s), "mul", {Local(o, "x2"), in})
      /\ Is(b[3], Local(o, "c1"), Scalar, "lit", {})
      /\ Is(b[4], Local(o, "cx3"), T(c, s), "mul", {Local(o, "x3"), Local(o, "c1")})
      /\ Is(b[5], Local(o, "inn"), T(c, s), "add", {in, Local(o, "cx3")})
      /\ Is(b[6], Local(o, "c2"), Scalar, "lit", {})
      /\ Is(b[7], Local(o, "sc"), T(c, s), "mul", {Local(o, "inn"), Local(o, "c2")})
      /\ Is(b[8], Local(o, "th"), T(c, s), "tanh", {Local(o, "sc")})
      /\ Is(b[9], Local(o, "one"), Scalar, "lit", {})
      /\ Is(b[10], Local(o, "onep"), T(c, s), "add", {Local(o, "th"), Local(o, "one")})
      /\ Is(b[11], Local(o, "half"), Scalar, "lit", {})
      /\ Is(b[12], Local(o, "hx"), T(c, s), "mul", {in, Local(o, "half")})
      /\ Is(b[13], <<o>>, T(c, s), "mul", {Local(o, "hx"), Local(o, "onep")})
  BY <1>1, LetOne, LetTwo, LitIs
<1>4. /\ b[1].name = Local(o, "x2") /\ b[1].type = T(c, s) /\ b[1].op = "mul"
      /\ b[2].name = Local(o, "x3") /\ b[2].type = T(c, s) /\ b[2].op = "mul"
      /\ b[3].name = Local(o, "c1") /\ b[3].type = Scalar /\ b[3].op = "lit"
      /\ b[4].name = Local(o, "cx3") /\ b[4].type = T(c, s) /\ b[4].op = "mul"
      /\ b[5].name = Local(o, "inn") /\ b[5].type = T(c, s) /\ b[5].op = "add"
      /\ b[6].name = Local(o, "c2") /\ b[6].type = Scalar /\ b[6].op = "lit"
      /\ b[7].name = Local(o, "sc") /\ b[7].type = T(c, s) /\ b[7].op = "mul"
      /\ b[8].name = Local(o, "th") /\ b[8].type = T(c, s) /\ b[8].op = "tanh"
      /\ b[9].name = Local(o, "one") /\ b[9].type = Scalar /\ b[9].op = "lit"
      /\ b[10].name = Local(o, "onep") /\ b[10].type = T(c, s) /\ b[10].op = "add"
      /\ b[11].name = Local(o, "half") /\ b[11].type = Scalar /\ b[11].op = "lit"
      /\ b[12].name = Local(o, "hx") /\ b[12].type = T(c, s) /\ b[12].op = "mul"
      /\ b[13].name = <<o>> /\ b[13].type = T(c, s) /\ b[13].op = "mul"
  BY <1>3 DEF Is
<1>5. \A k \in 1 .. 13 : k \in {1, 2, 3, 4, 5, 6, 7, 8, 9, 10, 11, 12, 13}
  OBVIOUS
<1>6. Supply(b, {in})
  <2>1. /\ Fed(b, {in}, 1)
        /\ Fed(b, {in}, 2)
        /\ Fed(b, {in}, 3)
        /\ Fed(b, {in}, 4)
        /\ Fed(b, {in}, 5)
        /\ Fed(b, {in}, 6)
        /\ Fed(b, {in}, 7)
        /\ Fed(b, {in}, 8)
        /\ Fed(b, {in}, 9)
        /\ Fed(b, {in}, 10)
        /\ Fed(b, {in}, 11)
        /\ Fed(b, {in}, 12)
        /\ Fed(b, {in}, 13)
    <3>1. /\ Fed(b, {in}, 1)
          /\ Fed(b, {in}, 2)
          /\ Fed(b, {in}, 3)
      BY <1>3, <1>4 DEF Is, Fed
    <3>2. /\ Fed(b, {in}, 4)
          /\ Fed(b, {in}, 5)
          /\ Fed(b, {in}, 6)
      BY <1>3, <1>4 DEF Is, Fed
    <3>3. /\ Fed(b, {in}, 7)
          /\ Fed(b, {in}, 8)
          /\ Fed(b, {in}, 9)
      BY <1>3, <1>4 DEF Is, Fed
    <3>4. /\ Fed(b, {in}, 10)
          /\ Fed(b, {in}, 11)
          /\ Fed(b, {in}, 12)
      BY <1>3, <1>4 DEF Is, Fed
    <3>5. /\ Fed(b, {in}, 13)
      BY <1>3, <1>4 DEF Is, Fed
    <3> QED BY <3>1, <3>2, <3>3, <3>4, <3>5, Zenon
  <2>2. \A k \in 1 .. 13 : Fed(b, {in}, k)
    BY <1>5, <2>1
  <2> QED BY <1>2, <2>2, SupplyIs, Zenon
<1> DEFINE N == <<"x2", "x3", "c1", "cx3", "inn", "c2", "sc", "th", "one", "onep", "half", "hx">>
           at == [x2 |-> 1, x3 |-> 2, c1 |-> 3, cx3 |-> 4, inn |-> 5, c2 |-> 6, sc |-> 7, th |-> 8,
                  one |-> 9, onep |-> 10, half |-> 11, hx |-> 12]
<1>7. \A k \in 1 .. (13 - 1) : b[k].name = Local(o, N[k]) /\ at[N[k]] = k
  BY <1>4, <1>5
<1>8. b[13].name = <<o>> /\ 13 \in Nat \ {0}
  BY <1>4
<1> HIDE DEF N, at
<1>9. Len(b) \in Nat \ {0} /\ b[Len(b)].name = <<o>> /\ Named(b, o, N, at)
  BY <1>2, <1>7, <1>8, Zenon DEF Named
<1>10. Neat(b, o, {in})
  BY <1>2, <1>6, <1>9, NeatIs
<1>11. FilesIn(b, {})
  BY <1>2, <1>4, <1>5, Zenon DEF FilesIn
<1>12. b[Len(b)].type = T(c, s)
  BY <1>2, <1>4, Zenon
<1>13. ASSUME c \in Nat \ {0} /\ s \in Nat \ {0}, NEW E, Full(E, in, c, s), Declared(E, b)
       PROVE  \A k \in 1 .. 13 : StatementOK(E, b[k])
  <2>1. \A k \in 1 .. 13 : /\ E[b[k].name].type = b[k].type
                           /\ (b[k].op = "attr" => E[b[k].name].val = b[k].val)
    BY <1>2, <1>13 DEF Declared
  <2>2. /\ E[b[1].name].type = b[1].type
        /\ E[b[2].name].type = b[2].type
        /\ E[b[3].name].type = b[3].type
        /\ E[b[4].name].type = b[4].type
        /\ E[b[5].name].type = b[5].type
        /\ E[b[6].name].type = b[6].type
        /\ E[b[7].name].type = b[7].type
        /\ E[b[8].name].type = b[8].type
        /\ E[b[9].name].type = b[9].type
        /\ E[b[10].name].type = b[10].type
        /\ E[b[11].name].type = b[11].type
        /\ E[b[12].name].type = b[12].type
        /\ E[b[13].name].type = b[13].type
    <3>1. /\ E[b[1].name].type = b[1].type
          /\ E[b[2].name].type = b[2].type
          /\ E[b[3].name].type = b[3].type
          /\ E[b[4].name].type = b[4].type
      BY <2>1
    <3>2. /\ E[b[5].name].type = b[5].type
          /\ E[b[6].name].type = b[6].type
          /\ E[b[7].name].type = b[7].type
          /\ E[b[8].name].type = b[8].type
      BY <2>1
    <3>3. /\ E[b[9].name].type = b[9].type
          /\ E[b[10].name].type = b[10].type
          /\ E[b[11].name].type = b[11].type
          /\ E[b[12].name].type = b[12].type
          /\ E[b[13].name].type = b[13].type
      BY <2>1
    <3> QED BY <3>1, <3>2, <3>3, Zenon
  <2>3. /\ E[Local(o, "x2")].type = T(c, s)
        /\ E[Local(o, "x3")].type = T(c, s)
        /\ E[Local(o, "c1")].type = Scalar
        /\ E[Local(o, "cx3")].type = T(c, s)
        /\ E[Local(o, "inn")].type = T(c, s)
        /\ E[Local(o, "c2")].type = Scalar
        /\ E[Local(o, "sc")].type = T(c, s)
        /\ E[Local(o, "th")].type = T(c, s)
        /\ E[Local(o, "one")].type = Scalar
        /\ E[Local(o, "onep")].type = T(c, s)
        /\ E[Local(o, "half")].type = Scalar
        /\ E[Local(o, "hx")].type = T(c, s)
    BY <1>4, <2>2
  <2>4. Plainly("mul") /\ Plainly("add") /\ Plainly("tanh")
    BY DEF Plainly, Elementwise, Reductions, Consts, Comparing
  <2>5. StatementOK(E, b[1])
    BY <1>1, <1>13, <2>3, <2>4, FullIsSlim, BinaryChecks
  <2>6. StatementOK(E, b[2])
    BY <1>1, <1>13, <2>3, <2>4, FullType, FullIsSlim, BinaryChecks
  <2>7. StatementOK(E, b[3])
    BY <1>4, ConstChecks DEF Consts
  <2>8. StatementOK(E, b[4])
    BY <1>1, <1>13, <2>3, <2>4, FullType, ScalarType, BinaryChecks
  <2>9. StatementOK(E, b[5])
    BY <1>1, <1>13, <2>3, <2>4, FullType, FullIsSlim, BinaryChecks
  <2>10. StatementOK(E, b[6])
    BY <1>4, ConstChecks DEF Consts
  <2>11. StatementOK(E, b[7])
    BY <1>1, <1>13, <2>3, <2>4, FullType, ScalarType, BinaryChecks
  <2>12. StatementOK(E, b[8])
    BY <1>1, <1>13, <2>3, <2>4, FullType, UnaryChecks
  <2>13. StatementOK(E, b[9])
    BY <1>4, ConstChecks DEF Consts
  <2>14. StatementOK(E, b[10])
    BY <1>1, <1>13, <2>3, <2>4, FullType, ScalarType, BinaryChecks
  <2>15. StatementOK(E, b[11])
    BY <1>4, ConstChecks DEF Consts
  <2>16. StatementOK(E, b[12])
    BY <1>1, <1>13, <2>3, <2>4, ScalarType, FullIsSlim, BinaryChecks
  <2>17. StatementOK(E, b[13])
    BY <1>1, <1>13, <2>3, <2>4, FullType, BinaryChecks
  <2> QED BY <1>5, <2>5, <2>6, <2>7, <2>8, <2>9, <2>10, <2>11, <2>12, <2>13, <2>14, <2>15, <2>16,
             <2>17
<1>14. /\ Neat(b, o, {in}) /\ FilesIn(b, {}) /\ b[Len(b)].type = T(c, s)
       /\ c \in Nat \ {0} /\ s \in Nat \ {0} =>
            \A E : Full(E, in, c, s) => Fine(b, E)
  BY <1>10, <1>11, <1>12, <1>13, <1>2, Zenon DEF Fine
<1> QED BY <1>14, Zenon DEF Pos, Makes

\* SILU.
LEMMA SiluFragment ==
    ASSUME NEW c, NEW s, NEW in, NEW o, NEW b,
           b = silu_fragment(c, s, in, <<o>>).body,
           Pos(c), Pos(s)
    PROVE  Makes(b, o, in, {}, c, s, c, s)
<1>1. /\ b[1] = Let(T(c, s), Local(o, "sig"), "sigmoid", <<in>>)
      /\ b[2] = Let(T(c, s), <<o>>, "mul", <<in, Local(o, "sig")>>)
  BY DEF silu_fragment, Plain, Frag, Local
<1>2. Len(b) = 2 /\ Sequence(b)
  BY DEF silu_fragment, Plain, Frag, Sequence
<1>3. /\ Is(b[1], Local(o, "sig"), T(c, s), "sigmoid", {in})
      /\ Is(b[2], <<o>>, T(c, s), "mul", {in, Local(o, "sig")})
  BY <1>1, LetOne, LetTwo
<1>4. /\ b[1].name = Local(o, "sig") /\ b[1].type = T(c, s) /\ b[1].op = "sigmoid"
      /\ b[2].name = <<o>> /\ b[2].type = T(c, s) /\ b[2].op = "mul"
  BY <1>3 DEF Is
<1>5. \A k \in 1 .. 2 : k \in {1, 2}
  OBVIOUS
<1>6. Supply(b, {in})
  <2>1. /\ Fed(b, {in}, 1)
        /\ Fed(b, {in}, 2)
    BY <1>3, <1>4 DEF Is, Fed
  <2>2. \A k \in 1 .. 2 : Fed(b, {in}, k)
    BY <1>5, <2>1
  <2> QED BY <1>2, <2>2, SupplyIs, Zenon
<1> DEFINE N == <<"sig">>
           at == [sig |-> 1]
<1>7. \A k \in 1 .. (2 - 1) : b[k].name = Local(o, N[k]) /\ at[N[k]] = k
  BY <1>4, <1>5
<1>8. b[2].name = <<o>> /\ 2 \in Nat \ {0}
  BY <1>4
<1> HIDE DEF N, at
<1>9. Len(b) \in Nat \ {0} /\ b[Len(b)].name = <<o>> /\ Named(b, o, N, at)
  BY <1>2, <1>7, <1>8, Zenon DEF Named
<1>10. Neat(b, o, {in})
  BY <1>2, <1>6, <1>9, NeatIs
<1>11. FilesIn(b, {})
  BY <1>2, <1>4, <1>5 DEF FilesIn
<1>12. b[Len(b)].type = T(c, s)
  BY <1>2, <1>4
<1>13. ASSUME c \in Nat \ {0} /\ s \in Nat \ {0}, NEW E, Full(E, in, c, s), Declared(E, b)
       PROVE  \A k \in 1 .. 2 : StatementOK(E, b[k])
  <2>1. \A k \in 1 .. 2 : /\ E[b[k].name].type = b[k].type
                          /\ (b[k].op = "attr" => E[b[k].name].val = b[k].val)
    BY <1>2, <1>13 DEF Declared
  <2>2. /\ E[b[1].name].type = b[1].type
        /\ E[b[2].name].type = b[2].type
    BY <2>1
  <2>3. /\ E[Local(o, "sig")].type = T(c, s)
    BY <1>4, <2>2
  <2>4. Plainly("sigmoid") /\ Plainly("mul")
    BY DEF Plainly, Elementwise, Reductions, Consts, Comparing
  <2>5. StatementOK(E, b[1])
    BY <1>1, <1>13, <2>3, <2>4, FullIsSlim, UnaryChecks
  <2>6. StatementOK(E, b[2])
    BY <1>1, <1>13, <2>3, <2>4, FullType, FullIsSlim, BinaryChecks
  <2> QED BY <1>5, <2>5, <2>6
<1>14. /\ Neat(b, o, {in}) /\ FilesIn(b, {}) /\ b[Len(b)].type = T(c, s)
       /\ c \in Nat \ {0} /\ s \in Nat \ {0} =>
            \A E : Full(E, in, c, s) => Fine(b, E)
  BY <1>10, <1>11, <1>12, <1>13, <1>2 DEF Fine
<1> QED BY <1>14, Zenon DEF Pos, Makes

\* SOFTMAX.
LEMMA SoftmaxFragment ==
    ASSUME NEW c, NEW s, NEW in, NEW o, NEW b,
           b = softmax_fragment(c, s, in, <<o>>).body,
           Pos(c), Pos(s)
    PROVE  Makes(b, o, in, {}, c, s, c, s)
<1>1. /\ b[1] = Attr(Local(o, "sax"), 1)
      /\ b[2] = LetWith(T(c, s), <<o>>, "softmax", <<in>>, Local(o, "sax"))
  BY DEF softmax_fragment, Plain, Frag, Local
<1>2. Len(b) = 2 /\ Sequence(b)
  BY DEF softmax_fragment, Plain, Frag, Sequence
<1>3. /\ Is(b[1], Local(o, "sax"), AttrType, "attr", {})
      /\ Is(b[2], <<o>>, T(c, s), "softmax", {in, Local(o, "sax")})
  BY <1>1, LetWithOne, AttrIs
<1>4. /\ b[1].name = Local(o, "sax") /\ b[1].type = AttrType /\ b[1].op = "attr"
      /\ b[2].name = <<o>> /\ b[2].type = T(c, s) /\ b[2].op = "softmax"
  BY <1>3 DEF Is
<1>5. /\ b[1].val = 1
  BY <1>1, AttrIs
<1>6. \A k \in 1 .. 2 : k \in {1, 2}
  OBVIOUS
<1>7. Supply(b, {in})
  <2>1. /\ Fed(b, {in}, 1)
        /\ Fed(b, {in}, 2)
    BY <1>3, <1>4 DEF Is, Fed
  <2>2. \A k \in 1 .. 2 : Fed(b, {in}, k)
    BY <1>6, <2>1
  <2> QED BY <1>2, <2>2, SupplyIs, Zenon
<1> DEFINE N == <<"sax">>
           at == [sax |-> 1]
<1>8. \A k \in 1 .. (2 - 1) : b[k].name = Local(o, N[k]) /\ at[N[k]] = k
  BY <1>4, <1>6
<1>9. b[2].name = <<o>> /\ 2 \in Nat \ {0}
  BY <1>4
<1> HIDE DEF N, at
<1>10. Len(b) \in Nat \ {0} /\ b[Len(b)].name = <<o>> /\ Named(b, o, N, at)
  BY <1>2, <1>8, <1>9, Zenon DEF Named
<1>11. Neat(b, o, {in})
  BY <1>2, <1>7, <1>10, NeatIs
<1>12. FilesIn(b, {})
  BY <1>2, <1>4, <1>6 DEF FilesIn
<1>13. b[Len(b)].type = T(c, s)
  BY <1>2, <1>4
<1>14. ASSUME c \in Nat \ {0} /\ s \in Nat \ {0}, NEW E, Full(E, in, c, s), Declared(E, b)
       PROVE  \A k \in 1 .. 2 : StatementOK(E, b[k])
  <2>1. \A k \in 1 .. 2 : /\ E[b[k].name].type = b[k].type
                          /\ (b[k].op = "attr" => E[b[k].name].val = b[k].val)
    BY <1>2, <1>14 DEF Declared
  <2>2. /\ E[b[1].name].type = b[1].type /\ E[b[1].name].val = b[1].val
        /\ E[b[2].name].type = b[2].type
    BY <1>4, <2>1
  <2>3. /\ E[Local(o, "sax")].type = AttrType /\ E[Local(o, "sax")].val = 1
    BY <1>4, <1>5, <2>2
  <2>4. StatementOK(E, b[1])
    BY <1>4, ConstChecks DEF Consts
  <2>5. StatementOK(E, b[2])
    BY <1>1, <1>14, <2>3, FullIsSlim, SoftmaxChecks
  <2> QED BY <1>6, <2>4, <2>5
<1>15. /\ Neat(b, o, {in}) /\ FilesIn(b, {}) /\ b[Len(b)].type = T(c, s)
       /\ c \in Nat \ {0} /\ s \in Nat \ {0} =>
            \A E : Full(E, in, c, s) => Fine(b, E)
  BY <1>11, <1>12, <1>13, <1>14, <1>2 DEF Fine
<1> QED BY <1>15, Zenon DEF Pos, Makes

\* NEG.
LEMMA NegFragment ==
    ASSUME NEW c, NEW s, NEW in, NEW o, NEW b,
           b = neg_fragment(c, s, in, <<o>>).body,
           Pos(c), Pos(s)
    PROVE  Makes(b, o, in, {}, c, s, c, s)
<1>1. /\ b[1] = Lit(Local(o, "n1"), Num(-1))
      /\ b[2] = Let(T(c, s), <<o>>, "mul", <<in, Local(o, "n1")>>)
  BY DEF neg_fragment, Plain, Frag, Local
<1>2. Len(b) = 2 /\ Sequence(b)
  BY DEF neg_fragment, Plain, Frag, Sequence
<1>3. /\ Is(b[1], Local(o, "n1"), Scalar, "lit", {})
      /\ Is(b[2], <<o>>, T(c, s), "mul", {in, Local(o, "n1")})
  BY <1>1, LetTwo, LitIs
<1>4. /\ b[1].name = Local(o, "n1") /\ b[1].type = Scalar /\ b[1].op = "lit"
      /\ b[2].name = <<o>> /\ b[2].type = T(c, s) /\ b[2].op = "mul"
  BY <1>3 DEF Is
<1>5. \A k \in 1 .. 2 : k \in {1, 2}
  OBVIOUS
<1>6. Supply(b, {in})
  <2>1. /\ Fed(b, {in}, 1)
        /\ Fed(b, {in}, 2)
    BY <1>3, <1>4 DEF Is, Fed
  <2>2. \A k \in 1 .. 2 : Fed(b, {in}, k)
    BY <1>5, <2>1
  <2> QED BY <1>2, <2>2, SupplyIs, Zenon
<1> DEFINE N == <<"n1">>
           at == [n1 |-> 1]
<1>7. \A k \in 1 .. (2 - 1) : b[k].name = Local(o, N[k]) /\ at[N[k]] = k
  BY <1>4, <1>5
<1>8. b[2].name = <<o>> /\ 2 \in Nat \ {0}
  BY <1>4
<1> HIDE DEF N, at
<1>9. Len(b) \in Nat \ {0} /\ b[Len(b)].name = <<o>> /\ Named(b, o, N, at)
  BY <1>2, <1>7, <1>8, Zenon DEF Named
<1>10. Neat(b, o, {in})
  BY <1>2, <1>6, <1>9, NeatIs
<1>11. FilesIn(b, {})
  BY <1>2, <1>4, <1>5 DEF FilesIn
<1>12. b[Len(b)].type = T(c, s)
  BY <1>2, <1>4
<1>13. ASSUME c \in Nat \ {0} /\ s \in Nat \ {0}, NEW E, Full(E, in, c, s), Declared(E, b)
       PROVE  \A k \in 1 .. 2 : StatementOK(E, b[k])
  <2>1. \A k \in 1 .. 2 : /\ E[b[k].name].type = b[k].type
                          /\ (b[k].op = "attr" => E[b[k].name].val = b[k].val)
    BY <1>2, <1>13 DEF Declared
  <2>2. /\ E[b[1].name].type = b[1].type
        /\ E[b[2].name].type = b[2].type
    BY <2>1
  <2>3. /\ E[Local(o, "n1")].type = Scalar
    BY <1>4, <2>2
  <2>4. Plainly("mul")
    BY DEF Plainly, Elementwise, Reductions, Consts, Comparing
  <2>5. StatementOK(E, b[1])
    BY <1>4, ConstChecks DEF Consts
  <2>6. StatementOK(E, b[2])
    BY <1>1, <1>13, <2>3, <2>4, ScalarType, FullIsSlim, BinaryChecks
  <2> QED BY <1>5, <2>5, <2>6
<1>14. /\ Neat(b, o, {in}) /\ FilesIn(b, {}) /\ b[Len(b)].type = T(c, s)
       /\ c \in Nat \ {0} /\ s \in Nat \ {0} =>
            \A E : Full(E, in, c, s) => Fine(b, E)
  BY <1>10, <1>11, <1>12, <1>13, <1>2 DEF Fine
<1> QED BY <1>14, Zenon DEF Pos, Makes

\* SINH.
LEMMA SinhFragment ==
    ASSUME NEW c, NEW s, NEW in, NEW o, NEW b,
           b = sinh_fragment(c, s, in, <<o>>).body,
           Pos(c), Pos(s)
    PROVE  Makes(b, o, in, {}, c, s, c, s)
<1>1. /\ b[1] = Lit(Local(o, "n1"), Num(-1))
      /\ b[2] = Lit(Local(o, "h"), Half)
      /\ b[3] = Let(T(c, s), Local(o, "nx"), "mul", <<in, Local(o, "n1")>>)
      /\ b[4] = Let(T(c, s), Local(o, "ex"), "exp", <<in>>)
      /\ b[5] = Let(T(c, s), Local(o, "enx"), "exp", <<Local(o, "nx")>>)
      /\ b[6] = Let(T(c, s), Local(o, "d"), "sub", <<Local(o, "ex"), Local(o, "enx")>>)
      /\ b[7] = Let(T(c, s), <<o>>, "mul", <<Local(o, "d"), Local(o, "h")>>)
  BY DEF sinh_fragment, Plain, Frag, Local
<1>2. Len(b) = 7 /\ Sequence(b)
  BY DEF sinh_fragment, Plain, Frag, Sequence
<1>3. /\ Is(b[1], Local(o, "n1"), Scalar, "lit", {})
      /\ Is(b[2], Local(o, "h"), Scalar, "lit", {})
      /\ Is(b[3], Local(o, "nx"), T(c, s), "mul", {in, Local(o, "n1")})
      /\ Is(b[4], Local(o, "ex"), T(c, s), "exp", {in})
      /\ Is(b[5], Local(o, "enx"), T(c, s), "exp", {Local(o, "nx")})
      /\ Is(b[6], Local(o, "d"), T(c, s), "sub", {Local(o, "ex"), Local(o, "enx")})
      /\ Is(b[7], <<o>>, T(c, s), "mul", {Local(o, "d"), Local(o, "h")})
  BY <1>1, LetOne, LetTwo, LitIs
<1>4. /\ b[1].name = Local(o, "n1") /\ b[1].type = Scalar /\ b[1].op = "lit"
      /\ b[2].name = Local(o, "h") /\ b[2].type = Scalar /\ b[2].op = "lit"
      /\ b[3].name = Local(o, "nx") /\ b[3].type = T(c, s) /\ b[3].op = "mul"
      /\ b[4].name = Local(o, "ex") /\ b[4].type = T(c, s) /\ b[4].op = "exp"
      /\ b[5].name = Local(o, "enx") /\ b[5].type = T(c, s) /\ b[5].op = "exp"
      /\ b[6].name = Local(o, "d") /\ b[6].type = T(c, s) /\ b[6].op = "sub"
      /\ b[7].name = <<o>> /\ b[7].type = T(c, s) /\ b[7].op = "mul"
  BY <1>3 DEF Is
<1>5. \A k \in 1 .. 7 : k \in {1, 2, 3, 4, 5, 6, 7}
  OBVIOUS
<1>6. Supply(b, {in})
  <2>1. /\ Fed(b, {in}, 1)
        /\ Fed(b, {in}, 2)
        /\ Fed(b, {in}, 3)
        /\ Fed(b, {in}, 4)
        /\ Fed(b, {in}, 5)
        /\ Fed(b, {in}, 6)
        /\ Fed(b, {in}, 7)
    BY <1>3, <1>4 DEF Is, Fed
  <2>2. \A k \in 1 .. 7 : Fed(b, {in}, k)
    BY <1>5, <2>1
  <2> QED BY <1>2, <2>2, SupplyIs, Zenon
<1> DEFINE N == <<"n1", "h", "nx", "ex", "enx", "d">>
           at == [n1 |-> 1, h |-> 2, nx |-> 3, ex |-> 4, enx |-> 5, d |-> 6]
<1>7. \A k \in 1 .. (7 - 1) : b[k].name = Local(o, N[k]) /\ at[N[k]] = k
  BY <1>4, <1>5
<1>8. b[7].name = <<o>> /\ 7 \in Nat \ {0}
  BY <1>4
<1> HIDE DEF N, at
<1>9. Len(b) \in Nat \ {0} /\ b[Len(b)].name = <<o>> /\ Named(b, o, N, at)
  BY <1>2, <1>7, <1>8, Zenon DEF Named
<1>10. Neat(b, o, {in})
  BY <1>2, <1>6, <1>9, NeatIs
<1>11. FilesIn(b, {})
  BY <1>2, <1>4, <1>5, Zenon DEF FilesIn
<1>12. b[Len(b)].type = T(c, s)
  BY <1>2, <1>4, Zenon
<1>13. ASSUME c \in Nat \ {0} /\ s \in Nat \ {0}, NEW E, Full(E, in, c, s), Declared(E, b)
       PROVE  \A k \in 1 .. 7 : StatementOK(E, b[k])
  <2>1. \A k \in 1 .. 7 : /\ E[b[k].name].type = b[k].type
                          /\ (b[k].op = "attr" => E[b[k].name].val = b[k].val)
    BY <1>2, <1>13 DEF Declared
  <2>2. /\ E[b[1].name].type = b[1].type
        /\ E[b[2].name].type = b[2].type
        /\ E[b[3].name].type = b[3].type
        /\ E[b[4].name].type = b[4].type
        /\ E[b[5].name].type = b[5].type
        /\ E[b[6].name].type = b[6].type
        /\ E[b[7].name].type = b[7].type
    BY <2>1
  <2>3. /\ E[Local(o, "n1")].type = Scalar
        /\ E[Local(o, "h")].type = Scalar
        /\ E[Local(o, "nx")].type = T(c, s)
        /\ E[Local(o, "ex")].type = T(c, s)
        /\ E[Local(o, "enx")].type = T(c, s)
        /\ E[Local(o, "d")].type = T(c, s)
    BY <1>4, <2>2
  <2>4. Plainly("mul") /\ Plainly("exp") /\ Plainly("sub")
    BY DEF Plainly, Elementwise, Reductions, Consts, Comparing
  <2>5. StatementOK(E, b[1])
    BY <1>4, ConstChecks DEF Consts
  <2>6. StatementOK(E, b[2])
    BY <1>4, ConstChecks DEF Consts
  <2>7. StatementOK(E, b[3])
    BY <1>1, <1>13, <2>3, <2>4, ScalarType, FullIsSlim, BinaryChecks
  <2>8. StatementOK(E, b[4])
    BY <1>1, <1>13, <2>3, <2>4, FullIsSlim, UnaryChecks
  <2>9. StatementOK(E, b[5])
    BY <1>1, <1>13, <2>3, <2>4, FullType, UnaryChecks
  <2>10. StatementOK(E, b[6])
    BY <1>1, <1>13, <2>3, <2>4, FullType, BinaryChecks
  <2>11. StatementOK(E, b[7])
    BY <1>1, <1>13, <2>3, <2>4, FullType, ScalarType, BinaryChecks
  <2> QED BY <1>5, <2>5, <2>6, <2>7, <2>8, <2>9, <2>10, <2>11
<1>14. /\ Neat(b, o, {in}) /\ FilesIn(b, {}) /\ b[Len(b)].type = T(c, s)
       /\ c \in Nat \ {0} /\ s \in Nat \ {0} =>
            \A E : Full(E, in, c, s) => Fine(b, E)
  BY <1>10, <1>11, <1>12, <1>13, <1>2, Zenon DEF Fine
<1> QED BY <1>14, Zenon DEF Pos, Makes

\* COSH.
LEMMA CoshFragment ==
    ASSUME NEW c, NEW s, NEW in, NEW o, NEW b,
           b = cosh_fragment(c, s, in, <<o>>).body,
           Pos(c), Pos(s)
    PROVE  Makes(b, o, in, {}, c, s, c, s)
<1>1. /\ b[1] = Lit(Local(o, "n1"), Num(-1))
      /\ b[2] = Lit(Local(o, "h"), Half)
      /\ b[3] = Let(T(c, s), Local(o, "nx"), "mul", <<in, Local(o, "n1")>>)
      /\ b[4] = Let(T(c, s), Local(o, "ex"), "exp", <<in>>)
      /\ b[5] = Let(T(c, s), Local(o, "enx"), "exp", <<Local(o, "nx")>>)
      /\ b[6] = Let(T(c, s), Local(o, "s"), "add", <<Local(o, "ex"), Local(o, "enx")>>)
      /\ b[7] = Let(T(c, s), <<o>>, "mul", <<Local(o, "s"), Local(o, "h")>>)
  BY DEF cosh_fragment, Plain, Frag, Local
<1>2. Len(b) = 7 /\ Sequence(b)
  BY DEF cosh_fragment, Plain, Frag, Sequence
<1>3. /\ Is(b[1], Local(o, "n1"), Scalar, "lit", {})
      /\ Is(b[2], Local(o, "h"), Scalar, "lit", {})
      /\ Is(b[3], Local(o, "nx"), T(c, s), "mul", {in, Local(o, "n1")})
      /\ Is(b[4], Local(o, "ex"), T(c, s), "exp", {in})
      /\ Is(b[5], Local(o, "enx"), T(c, s), "exp", {Local(o, "nx")})
      /\ Is(b[6], Local(o, "s"), T(c, s), "add", {Local(o, "ex"), Local(o, "enx")})
      /\ Is(b[7], <<o>>, T(c, s), "mul", {Local(o, "s"), Local(o, "h")})
  BY <1>1, LetOne, LetTwo, LitIs
<1>4. /\ b[1].name = Local(o, "n1") /\ b[1].type = Scalar /\ b[1].op = "lit"
      /\ b[2].name = Local(o, "h") /\ b[2].type = Scalar /\ b[2].op = "lit"
      /\ b[3].name = Local(o, "nx") /\ b[3].type = T(c, s) /\ b[3].op = "mul"
      /\ b[4].name = Local(o, "ex") /\ b[4].type = T(c, s) /\ b[4].op = "exp"
      /\ b[5].name = Local(o, "enx") /\ b[5].type = T(c, s) /\ b[5].op = "exp"
      /\ b[6].name = Local(o, "s") /\ b[6].type = T(c, s) /\ b[6].op = "add"
      /\ b[7].name = <<o>> /\ b[7].type = T(c, s) /\ b[7].op = "mul"
  BY <1>3 DEF Is
<1>5. \A k \in 1 .. 7 : k \in {1, 2, 3, 4, 5, 6, 7}
  OBVIOUS
<1>6. Supply(b, {in})
  <2>1. /\ Fed(b, {in}, 1)
        /\ Fed(b, {in}, 2)
        /\ Fed(b, {in}, 3)
        /\ Fed(b, {in}, 4)
        /\ Fed(b, {in}, 5)
        /\ Fed(b, {in}, 6)
        /\ Fed(b, {in}, 7)
    BY <1>3, <1>4 DEF Is, Fed
  <2>2. \A k \in 1 .. 7 : Fed(b, {in}, k)
    BY <1>5, <2>1
  <2> QED BY <1>2, <2>2, SupplyIs, Zenon
<1> DEFINE N == <<"n1", "h", "nx", "ex", "enx", "s">>
           at == [n1 |-> 1, h |-> 2, nx |-> 3, ex |-> 4, enx |-> 5, s |-> 6]
<1>7. \A k \in 1 .. (7 - 1) : b[k].name = Local(o, N[k]) /\ at[N[k]] = k
  BY <1>4, <1>5
<1>8. b[7].name = <<o>> /\ 7 \in Nat \ {0}
  BY <1>4
<1> HIDE DEF N, at
<1>9. Len(b) \in Nat \ {0} /\ b[Len(b)].name = <<o>> /\ Named(b, o, N, at)
  BY <1>2, <1>7, <1>8, Zenon DEF Named
<1>10. Neat(b, o, {in})
  BY <1>2, <1>6, <1>9, NeatIs
<1>11. FilesIn(b, {})
  BY <1>2, <1>4, <1>5, Zenon DEF FilesIn
<1>12. b[Len(b)].type = T(c, s)
  BY <1>2, <1>4, Zenon
<1>13. ASSUME c \in Nat \ {0} /\ s \in Nat \ {0}, NEW E, Full(E, in, c, s), Declared(E, b)
       PROVE  \A k \in 1 .. 7 : StatementOK(E, b[k])
  <2>1. \A k \in 1 .. 7 : /\ E[b[k].name].type = b[k].type
                          /\ (b[k].op = "attr" => E[b[k].name].val = b[k].val)
    BY <1>2, <1>13 DEF Declared
  <2>2. /\ E[b[1].name].type = b[1].type
        /\ E[b[2].name].type = b[2].type
        /\ E[b[3].name].type = b[3].type
        /\ E[b[4].name].type = b[4].type
        /\ E[b[5].name].type = b[5].type
        /\ E[b[6].name].type = b[6].type
        /\ E[b[7].name].type = b[7].type
    BY <2>1
  <2>3. /\ E[Local(o, "n1")].type = Scalar
        /\ E[Local(o, "h")].type = Scalar
        /\ E[Local(o, "nx")].type = T(c, s)
        /\ E[Local(o, "ex")].type = T(c, s)
        /\ E[Local(o, "enx")].type = T(c, s)
        /\ E[Local(o, "s")].type = T(c, s)
    BY <1>4, <2>2
  <2>4. Plainly("mul") /\ Plainly("exp") /\ Plainly("add")
    BY DEF Plainly, Elementwise, Reductions, Consts, Comparing
  <2>5. StatementOK(E, b[1])
    BY <1>4, ConstChecks DEF Consts
  <2>6. StatementOK(E, b[2])
    BY <1>4, ConstChecks DEF Consts
  <2>7. StatementOK(E, b[3])
    BY <1>1, <1>13, <2>3, <2>4, ScalarType, FullIsSlim, BinaryChecks
  <2>8. StatementOK(E, b[4])
    BY <1>1, <1>13, <2>3, <2>4, FullIsSlim, UnaryChecks
  <2>9. StatementOK(E, b[5])
    BY <1>1, <1>13, <2>3, <2>4, FullType, UnaryChecks
  <2>10. StatementOK(E, b[6])
    BY <1>1, <1>13, <2>3, <2>4, FullType, BinaryChecks
  <2>11. StatementOK(E, b[7])
    BY <1>1, <1>13, <2>3, <2>4, FullType, ScalarType, BinaryChecks
  <2> QED BY <1>5, <2>5, <2>6, <2>7, <2>8, <2>9, <2>10, <2>11
<1>14. /\ Neat(b, o, {in}) /\ FilesIn(b, {}) /\ b[Len(b)].type = T(c, s)
       /\ c \in Nat \ {0} /\ s \in Nat \ {0} =>
            \A E : Full(E, in, c, s) => Fine(b, E)
  BY <1>10, <1>11, <1>12, <1>13, <1>2, Zenon DEF Fine
<1> QED BY <1>14, Zenon DEF Pos, Makes

\* TAN.
LEMMA TanFragment ==
    ASSUME NEW c, NEW s, NEW in, NEW o, NEW b,
           b = tan_fragment(c, s, in, <<o>>).body,
           Pos(c), Pos(s)
    PROVE  Makes(b, o, in, {}, c, s, c, s)
<1>1. /\ b[1] = Lit(Local(o, "eps"), Eps)
      /\ b[2] = Let(T(c, s), Local(o, "sx"), "sin", <<in>>)
      /\ b[3] = Let(T(c, s), Local(o, "cx"), "cos", <<in>>)
      /\ b[4] = Let(T(c, s), Local(o, "cxe"), "add", <<Local(o, "cx"), Local(o, "eps")>>)
      /\ b[5] = Let(T(c, s), <<o>>, "real_div", <<Local(o, "sx"), Local(o, "cxe")>>)
  BY DEF tan_fragment, Plain, Frag, Local
<1>2. Len(b) = 5 /\ Sequence(b)
  BY DEF tan_fragment, Plain, Frag, Sequence
<1>3. /\ Is(b[1], Local(o, "eps"), Scalar, "lit", {})
      /\ Is(b[2], Local(o, "sx"), T(c, s), "sin", {in})
      /\ Is(b[3], Local(o, "cx"), T(c, s), "cos", {in})
      /\ Is(b[4], Local(o, "cxe"), T(c, s), "add", {Local(o, "cx"), Local(o, "eps")})
      /\ Is(b[5], <<o>>, T(c, s), "real_div", {Local(o, "sx"), Local(o, "cxe")})
  BY <1>1, LetOne, LetTwo, LitIs
<1>4. /\ b[1].name = Local(o, "eps") /\ b[1].type = Scalar /\ b[1].op = "lit"
      /\ b[2].name = Local(o, "sx") /\ b[2].type = T(c, s) /\ b[2].op = "sin"
      /\ b[3].name = Local(o, "cx") /\ b[3].type = T(c, s) /\ b[3].op = "cos"
      /\ b[4].name = Local(o, "cxe") /\ b[4].type = T(c, s) /\ b[4].op = "add"
      /\ b[5].name = <<o>> /\ b[5].type = T(c, s) /\ b[5].op = "real_div"
  BY <1>3 DEF Is
<1>5. \A k \in 1 .. 5 : k \in {1, 2, 3, 4, 5}
  OBVIOUS
<1>6. Supply(b, {in})
  <2>1. /\ Fed(b, {in}, 1)
        /\ Fed(b, {in}, 2)
        /\ Fed(b, {in}, 3)
        /\ Fed(b, {in}, 4)
        /\ Fed(b, {in}, 5)
    BY <1>3, <1>4 DEF Is, Fed
  <2>2. \A k \in 1 .. 5 : Fed(b, {in}, k)
    BY <1>5, <2>1
  <2> QED BY <1>2, <2>2, SupplyIs, Zenon
<1> DEFINE N == <<"eps", "sx", "cx", "cxe">>
           at == [eps |-> 1, sx |-> 2, cx |-> 3, cxe |-> 4]
<1>7. \A k \in 1 .. (5 - 1) : b[k].name = Local(o, N[k]) /\ at[N[k]] = k
  BY <1>4, <1>5
<1>8. b[5].name = <<o>> /\ 5 \in Nat \ {0}
  BY <1>4
<1> HIDE DEF N, at
<1>9. Len(b) \in Nat \ {0} /\ b[Len(b)].name = <<o>> /\ Named(b, o, N, at)
  BY <1>2, <1>7, <1>8, Zenon DEF Named
<1>10. Neat(b, o, {in})
  BY <1>2, <1>6, <1>9, NeatIs
<1>11. FilesIn(b, {})
  BY <1>2, <1>4, <1>5 DEF FilesIn
<1>12. b[Len(b)].type = T(c, s)
  BY <1>2, <1>4
<1>13. ASSUME c \in Nat \ {0} /\ s \in Nat \ {0}, NEW E, Full(E, in, c, s), Declared(E, b)
       PROVE  \A k \in 1 .. 5 : StatementOK(E, b[k])
  <2>1. \A k \in 1 .. 5 : /\ E[b[k].name].type = b[k].type
                          /\ (b[k].op = "attr" => E[b[k].name].val = b[k].val)
    BY <1>2, <1>13 DEF Declared
  <2>2. /\ E[b[1].name].type = b[1].type
        /\ E[b[2].name].type = b[2].type
        /\ E[b[3].name].type = b[3].type
        /\ E[b[4].name].type = b[4].type
        /\ E[b[5].name].type = b[5].type
    BY <2>1
  <2>3. /\ E[Local(o, "eps")].type = Scalar
        /\ E[Local(o, "sx")].type = T(c, s)
        /\ E[Local(o, "cx")].type = T(c, s)
        /\ E[Local(o, "cxe")].type = T(c, s)
    BY <1>4, <2>2
  <2>4. Plainly("sin") /\ Plainly("cos") /\ Plainly("add") /\ Plainly("real_div")
    BY DEF Plainly, Elementwise, Reductions, Consts, Comparing
  <2>5. StatementOK(E, b[1])
    BY <1>4, ConstChecks DEF Consts
  <2>6. StatementOK(E, b[2])
    BY <1>1, <1>13, <2>3, <2>4, FullIsSlim, UnaryChecks
  <2>7. StatementOK(E, b[3])
    BY <1>1, <1>13, <2>3, <2>4, FullIsSlim, UnaryChecks
  <2>8. StatementOK(E, b[4])
    BY <1>1, <1>13, <2>3, <2>4, FullType, ScalarType, BinaryChecks
  <2>9. StatementOK(E, b[5])
    BY <1>1, <1>13, <2>3, <2>4, FullType, BinaryChecks
  <2> QED BY <1>5, <2>5, <2>6, <2>7, <2>8, <2>9
<1>14. /\ Neat(b, o, {in}) /\ FilesIn(b, {}) /\ b[Len(b)].type = T(c, s)
       /\ c \in Nat \ {0} /\ s \in Nat \ {0} =>
            \A E : Full(E, in, c, s) => Fine(b, E)
  BY <1>10, <1>11, <1>12, <1>13, <1>2, Zenon DEF Fine
<1> QED BY <1>14, Zenon DEF Pos, Makes

\* ASIN.
LEMMA AsinFragment ==
    ASSUME NEW c, NEW s, NEW in, NEW o, NEW b,
           b = asin_fragment(c, s, in, <<o>>).body,
           Pos(c), Pos(s)
    PROVE  Makes(b, o, in, {}, c, s, c, s)
<1>1. /\ b[1] = Lit(Local(o, "one"), Num(1))
      /\ b[2] = Lit(Local(o, "eps"), Eps)
      /\ b[3] = Let(T(c, s), Local(o, "xsq"), "mul", <<in, in>>)
      /\ b[4] = Let(T(c, s), Local(o, "d2"), "sub", <<Local(o, "one"), Local(o, "xsq")>>)
      /\ b[5] = Let(T(c, s), Local(o, "d2e"), "add", <<Local(o, "d2"), Local(o, "eps")>>)
      /\ b[6] = Let(T(c, s), Local(o, "d"), "sqrt", <<Local(o, "d2e")>>)
      /\ b[7] = Let(T(c, s), Local(o, "r"), "real_div", <<in, Local(o, "d")>>)
      /\ b[8] = Let(T(c, s), <<o>>, "atan", <<Local(o, "r")>>)
  BY DEF asin_fragment, Plain, Frag, Local
<1>2. Len(b) = 8 /\ Sequence(b)
  BY DEF asin_fragment, Plain, Frag, Sequence
<1>3. /\ Is(b[1], Local(o, "one"), Scalar, "lit", {})
      /\ Is(b[2], Local(o, "eps"), Scalar, "lit", {})
      /\ Is(b[3], Local(o, "xsq"), T(c, s), "mul", {in, in})
      /\ Is(b[4], Local(o, "d2"), T(c, s), "sub", {Local(o, "one"), Local(o, "xsq")})
      /\ Is(b[5], Local(o, "d2e"), T(c, s), "add", {Local(o, "d2"), Local(o, "eps")})
      /\ Is(b[6], Local(o, "d"), T(c, s), "sqrt", {Local(o, "d2e")})
      /\ Is(b[7], Local(o, "r"), T(c, s), "real_div", {in, Local(o, "d")})
      /\ Is(b[8], <<o>>, T(c, s), "atan", {Local(o, "r")})
  BY <1>1, LetOne, LetTwo, LitIs
<1>4. /\ b[1].name = Local(o, "one") /\ b[1].type = Scalar /\ b[1].op = "lit"
      /\ b[2].name = Local(o, "eps") /\ b[2].type = Scalar /\ b[2].op = "lit"
      /\ b[3].name = Local(o, "xsq") /\ b[3].type = T(c, s) /\ b[3].op = "mul"
      /\ b[4].name = Local(o, "d2") /\ b[4].type = T(c, s) /\ b[4].op = "sub"
      /\ b[5].name = Local(o, "d2e") /\ b[5].type = T(c, s) /\ b[5].op = "add"
      /\ b[6].name = Local(o, "d") /\ b[6].type = T(c, s) /\ b[6].op = "sqrt"
      /\ b[7].name = Local(o, "r") /\ b[7].type = T(c, s) /\ b[7].op = "real_div"
      /\ b[8].name = <<o>> /\ b[8].type = T(c, s) /\ b[8].op = "atan"
  BY <1>3 DEF Is
<1>5. \A k \in 1 .. 8 : k \in {1, 2, 3, 4, 5, 6, 7, 8}
  OBVIOUS
<1>6. Supply(b, {in})
  <2>1. /\ Fed(b, {in}, 1)
        /\ Fed(b, {in}, 2)
        /\ Fed(b, {in}, 3)
        /\ Fed(b, {in}, 4)
        /\ Fed(b, {in}, 5)
        /\ Fed(b, {in}, 6)
        /\ Fed(b, {in}, 7)
        /\ Fed(b, {in}, 8)
    BY <1>3, <1>4 DEF Is, Fed
  <2>2. \A k \in 1 .. 8 : Fed(b, {in}, k)
    BY <1>5, <2>1
  <2> QED BY <1>2, <2>2, SupplyIs, Zenon
<1> DEFINE N == <<"one", "eps", "xsq", "d2", "d2e", "d", "r">>
           at == [one |-> 1, eps |-> 2, xsq |-> 3, d2 |-> 4, d2e |-> 5, d |-> 6, r |-> 7]
<1>7. \A k \in 1 .. (8 - 1) : b[k].name = Local(o, N[k]) /\ at[N[k]] = k
  BY <1>4, <1>5
<1>8. b[8].name = <<o>> /\ 8 \in Nat \ {0}
  BY <1>4
<1> HIDE DEF N, at
<1>9. Len(b) \in Nat \ {0} /\ b[Len(b)].name = <<o>> /\ Named(b, o, N, at)
  BY <1>2, <1>7, <1>8, Zenon DEF Named
<1>10. Neat(b, o, {in})
  BY <1>2, <1>6, <1>9, NeatIs
<1>11. FilesIn(b, {})
  BY <1>2, <1>4, <1>5, Zenon DEF FilesIn
<1>12. b[Len(b)].type = T(c, s)
  BY <1>2, <1>4, Zenon
<1>13. ASSUME c \in Nat \ {0} /\ s \in Nat \ {0}, NEW E, Full(E, in, c, s), Declared(E, b)
       PROVE  \A k \in 1 .. 8 : StatementOK(E, b[k])
  <2>1. \A k \in 1 .. 8 : /\ E[b[k].name].type = b[k].type
                          /\ (b[k].op = "attr" => E[b[k].name].val = b[k].val)
    BY <1>2, <1>13 DEF Declared
  <2>2. /\ E[b[1].name].type = b[1].type
        /\ E[b[2].name].type = b[2].type
        /\ E[b[3].name].type = b[3].type
        /\ E[b[4].name].type = b[4].type
        /\ E[b[5].name].type = b[5].type
        /\ E[b[6].name].type = b[6].type
        /\ E[b[7].name].type = b[7].type
        /\ E[b[8].name].type = b[8].type
    BY <2>1
  <2>3. /\ E[Local(o, "one")].type = Scalar
        /\ E[Local(o, "eps")].type = Scalar
        /\ E[Local(o, "xsq")].type = T(c, s)
        /\ E[Local(o, "d2")].type = T(c, s)
        /\ E[Local(o, "d2e")].type = T(c, s)
        /\ E[Local(o, "d")].type = T(c, s)
        /\ E[Local(o, "r")].type = T(c, s)
    BY <1>4, <2>2
  <2>4. Plainly("mul") /\ Plainly("sub") /\ Plainly("add") /\ Plainly("sqrt") /\ Plainly("real_div") /\ Plainly("atan")
    BY DEF Plainly, Elementwise, Reductions, Consts, Comparing
  <2>5. StatementOK(E, b[1])
    BY <1>4, ConstChecks DEF Consts
  <2>6. StatementOK(E, b[2])
    BY <1>4, ConstChecks DEF Consts
  <2>7. StatementOK(E, b[3])
    BY <1>1, <1>13, <2>3, <2>4, FullIsSlim, BinaryChecks
  <2>8. StatementOK(E, b[4])
    BY <1>1, <1>13, <2>3, <2>4, FullType, ScalarType, BinaryChecks
  <2>9. StatementOK(E, b[5])
    BY <1>1, <1>13, <2>3, <2>4, FullType, ScalarType, BinaryChecks
  <2>10. StatementOK(E, b[6])
    BY <1>1, <1>13, <2>3, <2>4, FullType, UnaryChecks
  <2>11. StatementOK(E, b[7])
    BY <1>1, <1>13, <2>3, <2>4, FullType, FullIsSlim, BinaryChecks
  <2>12. StatementOK(E, b[8])
    BY <1>1, <1>13, <2>3, <2>4, FullType, UnaryChecks
  <2> QED BY <1>5, <2>5, <2>6, <2>7, <2>8, <2>9, <2>10, <2>11, <2>12
<1>14. /\ Neat(b, o, {in}) /\ FilesIn(b, {}) /\ b[Len(b)].type = T(c, s)
       /\ c \in Nat \ {0} /\ s \in Nat \ {0} =>
            \A E : Full(E, in, c, s) => Fine(b, E)
  BY <1>10, <1>11, <1>12, <1>13, <1>2, Zenon DEF Fine
<1> QED BY <1>14, Zenon DEF Pos, Makes

\* ACOS.
LEMMA AcosFragment ==
    ASSUME NEW c, NEW s, NEW in, NEW o, NEW b,
           b = acos_fragment(c, s, in, <<o>>).body,
           Pos(c), Pos(s)
    PROVE  Makes(b, o, in, {}, c, s, c, s)
<1>1. /\ b[1] = Lit(Local(o, "hp"), Real("1.5703125"))
      /\ b[2] = Lit(Local(o, "one"), Num(1))
      /\ b[3] = Lit(Local(o, "eps"), Eps)
      /\ b[4] = Let(T(c, s), Local(o, "xsq"), "mul", <<in, in>>)
      /\ b[5] = Let(T(c, s), Local(o, "d2"), "sub", <<Local(o, "one"), Local(o, "xsq")>>)
      /\ b[6] = Let(T(c, s), Local(o, "d2e"), "add", <<Local(o, "d2"), Local(o, "eps")>>)
      /\ b[7] = Let(T(c, s), Local(o, "d"), "sqrt", <<Local(o, "d2e")>>)
      /\ b[8] = Let(T(c, s), Local(o, "r"), "real_div", <<in, Local(o, "d")>>)
      /\ b[9] = Let(T(c, s), Local(o, "asv"), "atan", <<Local(o, "r")>>)
      /\ b[10] = Let(T(c, s), <<o>>, "sub", <<Local(o, "hp"), Local(o, "asv")>>)
  BY DEF acos_fragment, Plain, Frag, Local
<1>2. Len(b) = 10 /\ Sequence(b)
  BY DEF acos_fragment, Plain, Frag, Sequence
<1>3. /\ Is(b[1], Local(o, "hp"), Scalar, "lit", {})
      /\ Is(b[2], Local(o, "one"), Scalar, "lit", {})
      /\ Is(b[3], Local(o, "eps"), Scalar, "lit", {})
      /\ Is(b[4], Local(o, "xsq"), T(c, s), "mul", {in, in})
      /\ Is(b[5], Local(o, "d2"), T(c, s), "sub", {Local(o, "one"), Local(o, "xsq")})
      /\ Is(b[6], Local(o, "d2e"), T(c, s), "add", {Local(o, "d2"), Local(o, "eps")})
      /\ Is(b[7], Local(o, "d"), T(c, s), "sqrt", {Local(o, "d2e")})
      /\ Is(b[8], Local(o, "r"), T(c, s), "real_div", {in, Local(o, "d")})
      /\ Is(b[9], Local(o, "asv"), T(c, s), "atan", {Local(o, "r")})
      /\ Is(b[10], <<o>>, T(c, s), "sub", {Local(o, "hp"), Local(o, "asv")})
  BY <1>1, LetOne, LetTwo, LitIs
<1>4. /\ b[1].name = Local(o, "hp") /\ b[1].type = Scalar /\ b[1].op = "lit"
      /\ b[2].name = Local(o, "one") /\ b[2].type = Scalar /\ b[2].op = "lit"
      /\ b[3].name = Local(o, "eps") /\ b[3].type = Scalar /\ b[3].op = "lit"
      /\ b[4].name = Local(o, "xsq") /\ b[4].type = T(c, s) /\ b[4].op = "mul"
      /\ b[5].name = Local(o, "d2") /\ b[5].type = T(c, s) /\ b[5].op = "sub"
      /\ b[6].name = Local(o, "d2e") /\ b[6].type = T(c, s) /\ b[6].op = "add"
      /\ b[7].name = Local(o, "d") /\ b[7].type = T(c, s) /\ b[7].op = "sqrt"
      /\ b[8].name = Local(o, "r") /\ b[8].type = T(c, s) /\ b[8].op = "real_div"
      /\ b[9].name = Local(o, "asv") /\ b[9].type = T(c, s) /\ b[9].op = "atan"
      /\ b[10].name = <<o>> /\ b[10].type = T(c, s) /\ b[10].op = "sub"
  BY <1>3 DEF Is
<1>5. \A k \in 1 .. 10 : k \in {1, 2, 3, 4, 5, 6, 7, 8, 9, 10}
  OBVIOUS
<1>6. Supply(b, {in})
  <2>1. /\ Fed(b, {in}, 1)
        /\ Fed(b, {in}, 2)
        /\ Fed(b, {in}, 3)
        /\ Fed(b, {in}, 4)
        /\ Fed(b, {in}, 5)
        /\ Fed(b, {in}, 6)
        /\ Fed(b, {in}, 7)
        /\ Fed(b, {in}, 8)
        /\ Fed(b, {in}, 9)
        /\ Fed(b, {in}, 10)
    BY <1>3, <1>4 DEF Is, Fed
  <2>2. \A k \in 1 .. 10 : Fed(b, {in}, k)
    BY <1>5, <2>1
  <2> QED BY <1>2, <2>2, SupplyIs, Zenon
<1> DEFINE N == <<"hp", "one", "eps", "xsq", "d2", "d2e", "d", "r", "asv">>
           at == [hp |-> 1, one |-> 2, eps |-> 3, xsq |-> 4, d2 |-> 5, d2e |-> 6, d |-> 7, r |-> 8,
                  asv |-> 9]
<1>7. \A k \in 1 .. (10 - 1) : b[k].name = Local(o, N[k]) /\ at[N[k]] = k
  BY <1>4, <1>5
<1>8. b[10].name = <<o>> /\ 10 \in Nat \ {0}
  BY <1>4
<1> HIDE DEF N, at
<1>9. Len(b) \in Nat \ {0} /\ b[Len(b)].name = <<o>> /\ Named(b, o, N, at)
  BY <1>2, <1>7, <1>8, Zenon DEF Named
<1>10. Neat(b, o, {in})
  BY <1>2, <1>6, <1>9, NeatIs
<1>11. FilesIn(b, {})
  BY <1>2, <1>4, <1>5, Zenon DEF FilesIn
<1>12. b[Len(b)].type = T(c, s)
  BY <1>2, <1>4, Zenon
<1>13. ASSUME c \in Nat \ {0} /\ s \in Nat \ {0}, NEW E, Full(E, in, c, s), Declared(E, b)
       PROVE  \A k \in 1 .. 10 : StatementOK(E, b[k])
  <2>1. \A k \in 1 .. 10 : /\ E[b[k].name].type = b[k].type
                           /\ (b[k].op = "attr" => E[b[k].name].val = b[k].val)
    BY <1>2, <1>13, Zenon DEF Declared
  <2>2. /\ E[b[1].name].type = b[1].type
        /\ E[b[2].name].type = b[2].type
        /\ E[b[3].name].type = b[3].type
        /\ E[b[4].name].type = b[4].type
        /\ E[b[5].name].type = b[5].type
        /\ E[b[6].name].type = b[6].type
        /\ E[b[7].name].type = b[7].type
        /\ E[b[8].name].type = b[8].type
        /\ E[b[9].name].type = b[9].type
        /\ E[b[10].name].type = b[10].type
    BY <2>1
  <2>3. /\ E[Local(o, "hp")].type = Scalar
        /\ E[Local(o, "one")].type = Scalar
        /\ E[Local(o, "eps")].type = Scalar
        /\ E[Local(o, "xsq")].type = T(c, s)
        /\ E[Local(o, "d2")].type = T(c, s)
        /\ E[Local(o, "d2e")].type = T(c, s)
        /\ E[Local(o, "d")].type = T(c, s)
        /\ E[Local(o, "r")].type = T(c, s)
        /\ E[Local(o, "asv")].type = T(c, s)
    BY <1>4, <2>2
  <2>4. Plainly("mul") /\ Plainly("sub") /\ Plainly("add") /\ Plainly("sqrt") /\ Plainly("real_div") /\ Plainly("atan")
    BY DEF Plainly, Elementwise, Reductions, Consts, Comparing
  <2>5. StatementOK(E, b[1])
    BY <1>4, ConstChecks DEF Consts
  <2>6. StatementOK(E, b[2])
    BY <1>4, ConstChecks DEF Consts
  <2>7. StatementOK(E, b[3])
    BY <1>4, ConstChecks DEF Consts
  <2>8. StatementOK(E, b[4])
    BY <1>1, <1>13, <2>3, <2>4, FullIsSlim, BinaryChecks
  <2>9. StatementOK(E, b[5])
    BY <1>1, <1>13, <2>3, <2>4, FullType, ScalarType, BinaryChecks
  <2>10. StatementOK(E, b[6])
    BY <1>1, <1>13, <2>3, <2>4, FullType, ScalarType, BinaryChecks
  <2>11. StatementOK(E, b[7])
    BY <1>1, <1>13, <2>3, <2>4, FullType, UnaryChecks
  <2>12. StatementOK(E, b[8])
    BY <1>1, <1>13, <2>3, <2>4, FullType, FullIsSlim, BinaryChecks
  <2>13. StatementOK(E, b[9])
    BY <1>1, <1>13, <2>3, <2>4, FullType, UnaryChecks
  <2>14. StatementOK(E, b[10])
    BY <1>1, <1>13, <2>3, <2>4, FullType, ScalarType, BinaryChecks
  <2> QED BY <1>5, <2>5, <2>6, <2>7, <2>8, <2>9, <2>10, <2>11, <2>12, <2>13, <2>14
<1>14. /\ Neat(b, o, {in}) /\ FilesIn(b, {}) /\ b[Len(b)].type = T(c, s)
       /\ c \in Nat \ {0} /\ s \in Nat \ {0} =>
            \A E : Full(E, in, c, s) => Fine(b, E)
  BY <1>10, <1>11, <1>12, <1>13, <1>2, Zenon DEF Fine
<1> QED BY <1>14, Zenon DEF Pos, Makes

\* LOG.
LEMMA LogFragment ==
    ASSUME NEW c, NEW s, NEW in, NEW o, NEW b,
           b = log_fragment(c, s, in, <<o>>).body,
           Pos(c), Pos(s)
    PROVE  Makes(b, o, in, {}, c, s, c, s)
<1>1. /\ b[1] = Lit(Local(o, "eps"), Eps)
      /\ b[2] = Let(T(c, s), <<o>>, "log", <<in, Local(o, "eps")>>)
  BY DEF log_fragment, Plain, Frag, Local
<1>2. Len(b) = 2 /\ Sequence(b)
  BY DEF log_fragment, Plain, Frag, Sequence
<1>3. /\ Is(b[1], Local(o, "eps"), Scalar, "lit", {})
      /\ Is(b[2], <<o>>, T(c, s), "log", {in, Local(o, "eps")})
  BY <1>1, LetTwo, LitIs
<1>4. /\ b[1].name = Local(o, "eps") /\ b[1].type = Scalar /\ b[1].op = "lit"
      /\ b[2].name = <<o>> /\ b[2].type = T(c, s) /\ b[2].op = "log"
  BY <1>3 DEF Is
<1>5. \A k \in 1 .. 2 : k \in {1, 2}
  OBVIOUS
<1>6. Supply(b, {in})
  <2>1. /\ Fed(b, {in}, 1)
        /\ Fed(b, {in}, 2)
    BY <1>3, <1>4 DEF Is, Fed
  <2>2. \A k \in 1 .. 2 : Fed(b, {in}, k)
    BY <1>5, <2>1
  <2> QED BY <1>2, <2>2, SupplyIs, Zenon
<1> DEFINE N == <<"eps">>
           at == [eps |-> 1]
<1>7. \A k \in 1 .. (2 - 1) : b[k].name = Local(o, N[k]) /\ at[N[k]] = k
  BY <1>4, <1>5
<1>8. b[2].name = <<o>> /\ 2 \in Nat \ {0}
  BY <1>4
<1> HIDE DEF N, at
<1>9. Len(b) \in Nat \ {0} /\ b[Len(b)].name = <<o>> /\ Named(b, o, N, at)
  BY <1>2, <1>7, <1>8, Zenon DEF Named
<1>10. Neat(b, o, {in})
  BY <1>2, <1>6, <1>9, NeatIs
<1>11. FilesIn(b, {})
  BY <1>2, <1>4, <1>5 DEF FilesIn
<1>12. b[Len(b)].type = T(c, s)
  BY <1>2, <1>4
<1>13. ASSUME c \in Nat \ {0} /\ s \in Nat \ {0}, NEW E, Full(E, in, c, s), Declared(E, b)
       PROVE  \A k \in 1 .. 2 : StatementOK(E, b[k])
  <2>1. \A k \in 1 .. 2 : /\ E[b[k].name].type = b[k].type
                          /\ (b[k].op = "attr" => E[b[k].name].val = b[k].val)
    BY <1>2, <1>13 DEF Declared
  <2>2. /\ E[b[1].name].type = b[1].type
        /\ E[b[2].name].type = b[2].type
    BY <2>1
  <2>3. /\ E[Local(o, "eps")].type = Scalar
    BY <1>4, <2>2
  <2>4. Plainly("log")
    BY DEF Plainly, Elementwise, Reductions, Consts, Comparing
  <2>5. StatementOK(E, b[1])
    BY <1>4, ConstChecks DEF Consts
  <2>6. StatementOK(E, b[2])
    BY <1>1, <1>13, <2>3, <2>4, ScalarType, FullIsSlim, BinaryChecks
  <2> QED BY <1>5, <2>5, <2>6
<1>14. /\ Neat(b, o, {in}) /\ FilesIn(b, {}) /\ b[Len(b)].type = T(c, s)
       /\ c \in Nat \ {0} /\ s \in Nat \ {0} =>
            \A E : Full(E, in, c, s) => Fine(b, E)
  BY <1>10, <1>11, <1>12, <1>13, <1>2 DEF Fine
<1> QED BY <1>14, Zenon DEF Pos, Makes

\* RSQRT.
LEMMA RsqrtFragment ==
    ASSUME NEW c, NEW s, NEW in, NEW o, NEW b,
           b = rsqrt_fragment(c, s, in, <<o>>).body,
           Pos(c), Pos(s)
    PROVE  Makes(b, o, in, {}, c, s, c, s)
<1>1. /\ b[1] = Lit(Local(o, "eps"), Eps)
      /\ b[2] = Let(T(c, s), <<o>>, "rsqrt", <<in, Local(o, "eps")>>)
  BY DEF rsqrt_fragment, Plain, Frag, Local
<1>2. Len(b) = 2 /\ Sequence(b)
  BY DEF rsqrt_fragment, Plain, Frag, Sequence
<1>3. /\ Is(b[1], Local(o, "eps"), Scalar, "lit", {})
      /\ Is(b[2], <<o>>, T(c, s), "rsqrt", {in, Local(o, "eps")})
  BY <1>1, LetTwo, LitIs
<1>4. /\ b[1].name = Local(o, "eps") /\ b[1].type = Scalar /\ b[1].op = "lit"
      /\ b[2].name = <<o>> /\ b[2].type = T(c, s) /\ b[2].op = "rsqrt"
  BY <1>3 DEF Is
<1>5. \A k \in 1 .. 2 : k \in {1, 2}
  OBVIOUS
<1>6. Supply(b, {in})
  <2>1. /\ Fed(b, {in}, 1)
        /\ Fed(b, {in}, 2)
    BY <1>3, <1>4 DEF Is, Fed
  <2>2. \A k \in 1 .. 2 : Fed(b, {in}, k)
    BY <1>5, <2>1
  <2> QED BY <1>2, <2>2, SupplyIs, Zenon
<1> DEFINE N == <<"eps">>
           at == [eps |-> 1]
<1>7. \A k \in 1 .. (2 - 1) : b[k].name = Local(o, N[k]) /\ at[N[k]] = k
  BY <1>4, <1>5
<1>8. b[2].name = <<o>> /\ 2 \in Nat \ {0}
  BY <1>4
<1> HIDE DEF N, at
<1>9. Len(b) \in Nat \ {0} /\ b[Len(b)].name = <<o>> /\ Named(b, o, N, at)
  BY <1>2, <1>7, <1>8, Zenon DEF Named
<1>10. Neat(b, o, {in})
  BY <1>2, <1>6, <1>9, NeatIs
<1>11. FilesIn(b, {})
  BY <1>2, <1>4, <1>5 DEF FilesIn
<1>12. b[Len(b)].type = T(c, s)
  BY <1>2, <1>4
<1>13. ASSUME c \in Nat \ {0} /\ s \in Nat \ {0}, NEW E, Full(E, in, c, s), Declared(E, b)
       PROVE  \A k \in 1 .. 2 : StatementOK(E, b[k])
  <2>1. \A k \in 1 .. 2 : /\ E[b[k].name].type = b[k].type
                          /\ (b[k].op = "attr" => E[b[k].name].val = b[k].val)
    BY <1>2, <1>13 DEF Declared
  <2>2. /\ E[b[1].name].type = b[1].type
        /\ E[b[2].name].type = b[2].type
    BY <2>1
  <2>3. /\ E[Local(o, "eps")].type = Scalar
    BY <1>4, <2>2
  <2>4. Plainly("rsqrt")
    BY DEF Plainly, Elementwise, Reductions, Consts, Comparing
  <2>5. StatementOK(E, b[1])
    BY <1>4, ConstChecks DEF Consts
  <2>6. StatementOK(E, b[2])
    BY <1>1, <1>13, <2>3, <2>4, ScalarType, FullIsSlim, BinaryChecks
  <2> QED BY <1>5, <2>5, <2>6
<1>14. /\ Neat(b, o, {in}) /\ FilesIn(b, {}) /\ b[Len(b)].type = T(c, s)
       /\ c \in Nat \ {0} /\ s \in Nat \ {0} =>
            \A E : Full(E, in, c, s) => Fine(b, E)
  BY <1>10, <1>11, <1>12, <1>13, <1>2 DEF Fine
<1> QED BY <1>14, Zenon DEF Pos, Makes

\* HARDSWISH.
LEMMA HardswishFragment ==
    ASSUME NEW c, NEW s, NEW in, NEW o, NEW b,
           b = hardswish_fragment(c, s, in, <<o>>).body,
           Pos(c), Pos(s)
    PROVE  Makes(b, o, in, {}, c, s, c, s)
<1>1. /\ b[1] = Lit(Local(o, "c3"), Num(3))
      /\ b[2] = Lit(Local(o, "c6"), Num(6))
      /\ b[3] = Lit(Local(o, "inv6"), Real("0.16667"))
      /\ b[4] = Let(T(c, s), Local(o, "sh"), "add", <<in, Local(o, "c3")>>)
      /\ b[5] = Let(T(c, s), Local(o, "r1"), "relu", <<Local(o, "sh")>>)
      /\ b[6] = Let(T(c, s), Local(o, "sh2"), "add", <<in, Local(o, "c3")>>)
      /\ b[7] = Let(T(c, s), Local(o, "d6"), "sub", <<Local(o, "sh2"), Local(o, "c6")>>)
      /\ b[8] = Let(T(c, s), Local(o, "r2"), "relu", <<Local(o, "d6")>>)
      /\ b[9] = Let(T(c, s), Local(o, "cl"), "sub", <<Local(o, "r1"), Local(o, "r2")>>)
      /\ b[10] = Let(T(c, s), Local(o, "sc"), "mul", <<Local(o, "cl"), Local(o, "inv6")>>)
      /\ b[11] = Let(T(c, s), <<o>>, "mul", <<in, Local(o, "sc")>>)
  BY DEF hardswish_fragment, Plain, Frag, Local
<1>2. Len(b) = 11 /\ Sequence(b)
  BY DEF hardswish_fragment, Plain, Frag, Sequence
<1>3. /\ Is(b[1], Local(o, "c3"), Scalar, "lit", {})
      /\ Is(b[2], Local(o, "c6"), Scalar, "lit", {})
      /\ Is(b[3], Local(o, "inv6"), Scalar, "lit", {})
      /\ Is(b[4], Local(o, "sh"), T(c, s), "add", {in, Local(o, "c3")})
      /\ Is(b[5], Local(o, "r1"), T(c, s), "relu", {Local(o, "sh")})
      /\ Is(b[6], Local(o, "sh2"), T(c, s), "add", {in, Local(o, "c3")})
      /\ Is(b[7], Local(o, "d6"), T(c, s), "sub", {Local(o, "sh2"), Local(o, "c6")})
      /\ Is(b[8], Local(o, "r2"), T(c, s), "relu", {Local(o, "d6")})
      /\ Is(b[9], Local(o, "cl"), T(c, s), "sub", {Local(o, "r1"), Local(o, "r2")})
      /\ Is(b[10], Local(o, "sc"), T(c, s), "mul", {Local(o, "cl"), Local(o, "inv6")})
      /\ Is(b[11], <<o>>, T(c, s), "mul", {in, Local(o, "sc")})
  BY <1>1, LetOne, LetTwo, LitIs
<1>4. /\ b[1].name = Local(o, "c3") /\ b[1].type = Scalar /\ b[1].op = "lit"
      /\ b[2].name = Local(o, "c6") /\ b[2].type = Scalar /\ b[2].op = "lit"
      /\ b[3].name = Local(o, "inv6") /\ b[3].type = Scalar /\ b[3].op = "lit"
      /\ b[4].name = Local(o, "sh") /\ b[4].type = T(c, s) /\ b[4].op = "add"
      /\ b[5].name = Local(o, "r1") /\ b[5].type = T(c, s) /\ b[5].op = "relu"
      /\ b[6].name = Local(o, "sh2") /\ b[6].type = T(c, s) /\ b[6].op = "add"
      /\ b[7].name = Local(o, "d6") /\ b[7].type = T(c, s) /\ b[7].op = "sub"
      /\ b[8].name = Local(o, "r2") /\ b[8].type = T(c, s) /\ b[8].op = "relu"
      /\ b[9].name = Local(o, "cl") /\ b[9].type = T(c, s) /\ b[9].op = "sub"
      /\ b[10].name = Local(o, "sc") /\ b[10].type = T(c, s) /\ b[10].op = "mul"
      /\ b[11].name = <<o>> /\ b[11].type = T(c, s) /\ b[11].op = "mul"
  BY <1>3 DEF Is
<1>5. \A k \in 1 .. 11 : k \in {1, 2, 3, 4, 5, 6, 7, 8, 9, 10, 11}
  OBVIOUS
<1>6. Supply(b, {in})
  <2>1. /\ Fed(b, {in}, 1)
        /\ Fed(b, {in}, 2)
        /\ Fed(b, {in}, 3)
        /\ Fed(b, {in}, 4)
        /\ Fed(b, {in}, 5)
        /\ Fed(b, {in}, 6)
        /\ Fed(b, {in}, 7)
        /\ Fed(b, {in}, 8)
        /\ Fed(b, {in}, 9)
        /\ Fed(b, {in}, 10)
        /\ Fed(b, {in}, 11)
    BY <1>3, <1>4 DEF Is, Fed
  <2>2. \A k \in 1 .. 11 : Fed(b, {in}, k)
    BY <1>5, <2>1
  <2> QED BY <1>2, <2>2, SupplyIs, Zenon
<1> DEFINE N == <<"c3", "c6", "inv6", "sh", "r1", "sh2", "d6", "r2", "cl", "sc">>
           at == [c3 |-> 1, c6 |-> 2, inv6 |-> 3, sh |-> 4, r1 |-> 5, sh2 |-> 6, d6 |-> 7, r2 |-> 8,
                  cl |-> 9, sc |-> 10]
<1>7. \A k \in 1 .. (11 - 1) : b[k].name = Local(o, N[k]) /\ at[N[k]] = k
  BY <1>4, <1>5
<1>8. b[11].name = <<o>> /\ 11 \in Nat \ {0}
  BY <1>4
<1> HIDE DEF N, at
<1>9. Len(b) \in Nat \ {0} /\ b[Len(b)].name = <<o>> /\ Named(b, o, N, at)
  BY <1>2, <1>7, <1>8, Zenon DEF Named
<1>10. Neat(b, o, {in})
  BY <1>2, <1>6, <1>9, NeatIs
<1>11. FilesIn(b, {})
  BY <1>2, <1>4, <1>5, Zenon DEF FilesIn
<1>12. b[Len(b)].type = T(c, s)
  BY <1>2, <1>4, Zenon
<1>13. ASSUME c \in Nat \ {0} /\ s \in Nat \ {0}, NEW E, Full(E, in, c, s), Declared(E, b)
       PROVE  \A k \in 1 .. 11 : StatementOK(E, b[k])
  <2>1. \A k \in 1 .. 11 : /\ E[b[k].name].type = b[k].type
                           /\ (b[k].op = "attr" => E[b[k].name].val = b[k].val)
    BY <1>2, <1>13, Zenon DEF Declared
  <2>2. /\ E[b[1].name].type = b[1].type
        /\ E[b[2].name].type = b[2].type
        /\ E[b[3].name].type = b[3].type
        /\ E[b[4].name].type = b[4].type
        /\ E[b[5].name].type = b[5].type
        /\ E[b[6].name].type = b[6].type
        /\ E[b[7].name].type = b[7].type
        /\ E[b[8].name].type = b[8].type
        /\ E[b[9].name].type = b[9].type
        /\ E[b[10].name].type = b[10].type
        /\ E[b[11].name].type = b[11].type
    BY <2>1
  <2>3. /\ E[Local(o, "c3")].type = Scalar
        /\ E[Local(o, "c6")].type = Scalar
        /\ E[Local(o, "inv6")].type = Scalar
        /\ E[Local(o, "sh")].type = T(c, s)
        /\ E[Local(o, "r1")].type = T(c, s)
        /\ E[Local(o, "sh2")].type = T(c, s)
        /\ E[Local(o, "d6")].type = T(c, s)
        /\ E[Local(o, "r2")].type = T(c, s)
        /\ E[Local(o, "cl")].type = T(c, s)
        /\ E[Local(o, "sc")].type = T(c, s)
    BY <1>4, <2>2
  <2>4. Plainly("add") /\ Plainly("relu") /\ Plainly("sub") /\ Plainly("mul")
    BY DEF Plainly, Elementwise, Reductions, Consts, Comparing
  <2>5. StatementOK(E, b[1])
    BY <1>4, ConstChecks DEF Consts
  <2>6. StatementOK(E, b[2])
    BY <1>4, ConstChecks DEF Consts
  <2>7. StatementOK(E, b[3])
    BY <1>4, ConstChecks DEF Consts
  <2>8. StatementOK(E, b[4])
    BY <1>1, <1>13, <2>3, <2>4, ScalarType, FullIsSlim, BinaryChecks
  <2>9. StatementOK(E, b[5])
    BY <1>1, <1>13, <2>3, <2>4, FullType, UnaryChecks
  <2>10. StatementOK(E, b[6])
    BY <1>1, <1>13, <2>3, <2>4, ScalarType, FullIsSlim, BinaryChecks
  <2>11. StatementOK(E, b[7])
    BY <1>1, <1>13, <2>3, <2>4, FullType, ScalarType, BinaryChecks
  <2>12. StatementOK(E, b[8])
    BY <1>1, <1>13, <2>3, <2>4, FullType, UnaryChecks
  <2>13. StatementOK(E, b[9])
    BY <1>1, <1>13, <2>3, <2>4, FullType, BinaryChecks
  <2>14. StatementOK(E, b[10])
    BY <1>1, <1>13, <2>3, <2>4, FullType, ScalarType, BinaryChecks
  <2>15. StatementOK(E, b[11])
    BY <1>1, <1>13, <2>3, <2>4, FullType, FullIsSlim, BinaryChecks
  <2> QED BY <1>5, <2>5, <2>6, <2>7, <2>8, <2>9, <2>10, <2>11, <2>12, <2>13, <2>14, <2>15
<1>14. /\ Neat(b, o, {in}) /\ FilesIn(b, {}) /\ b[Len(b)].type = T(c, s)
       /\ c \in Nat \ {0} /\ s \in Nat \ {0} =>
            \A E : Full(E, in, c, s) => Fine(b, E)
  BY <1>10, <1>11, <1>12, <1>13, <1>2, Zenon DEF Fine
<1> QED BY <1>14, Zenon DEF Pos, Makes

\* LEAKY_RELU.
LEMMA LeakyReluFragment ==
    ASSUME NEW c, NEW s, NEW in, NEW o, NEW b,
           b = leaky_relu_fragment(c, s, in, <<o>>).body,
           Pos(c), Pos(s)
    PROVE  Makes(b, o, in, {}, c, s, c, s)
<1>1. /\ b[1] = Lit(Local(o, "alpha"), Real("0.01"))
      /\ b[2] = Let(T(c, s), <<o>>, "leaky_relu", <<in, Local(o, "alpha")>>)
  BY DEF leaky_relu_fragment, Plain, Frag, Local
<1>2. Len(b) = 2 /\ Sequence(b)
  BY DEF leaky_relu_fragment, Plain, Frag, Sequence
<1>3. /\ Is(b[1], Local(o, "alpha"), Scalar, "lit", {})
      /\ Is(b[2], <<o>>, T(c, s), "leaky_relu", {in, Local(o, "alpha")})
  BY <1>1, LetTwo, LitIs
<1>4. /\ b[1].name = Local(o, "alpha") /\ b[1].type = Scalar /\ b[1].op = "lit"
      /\ b[2].name = <<o>> /\ b[2].type = T(c, s) /\ b[2].op = "leaky_relu"
  BY <1>3 DEF Is
<1>5. \A k \in 1 .. 2 : k \in {1, 2}
  OBVIOUS
<1>6. Supply(b, {in})
  <2>1. /\ Fed(b, {in}, 1)
        /\ Fed(b, {in}, 2)
    BY <1>3, <1>4 DEF Is, Fed
  <2>2. \A k \in 1 .. 2 : Fed(b, {in}, k)
    BY <1>5, <2>1
  <2> QED BY <1>2, <2>2, SupplyIs, Zenon
<1> DEFINE N == <<"alpha">>
           at == [alpha |-> 1]
<1>7. \A k \in 1 .. (2 - 1) : b[k].name = Local(o, N[k]) /\ at[N[k]] = k
  BY <1>4, <1>5
<1>8. b[2].name = <<o>> /\ 2 \in Nat \ {0}
  BY <1>4
<1> HIDE DEF N, at
<1>9. Len(b) \in Nat \ {0} /\ b[Len(b)].name = <<o>> /\ Named(b, o, N, at)
  BY <1>2, <1>7, <1>8, Zenon DEF Named
<1>10. Neat(b, o, {in})
  BY <1>2, <1>6, <1>9, NeatIs
<1>11. FilesIn(b, {})
  BY <1>2, <1>4, <1>5 DEF FilesIn
<1>12. b[Len(b)].type = T(c, s)
  BY <1>2, <1>4
<1>13. ASSUME c \in Nat \ {0} /\ s \in Nat \ {0}, NEW E, Full(E, in, c, s), Declared(E, b)
       PROVE  \A k \in 1 .. 2 : StatementOK(E, b[k])
  <2>1. \A k \in 1 .. 2 : /\ E[b[k].name].type = b[k].type
                          /\ (b[k].op = "attr" => E[b[k].name].val = b[k].val)
    BY <1>2, <1>13 DEF Declared
  <2>2. /\ E[b[1].name].type = b[1].type
        /\ E[b[2].name].type = b[2].type
    BY <2>1
  <2>3. /\ E[Local(o, "alpha")].type = Scalar
    BY <1>4, <2>2
  <2>4. Plainly("leaky_relu")
    BY DEF Plainly, Elementwise, Reductions, Consts, Comparing
  <2>5. StatementOK(E, b[1])
    BY <1>4, ConstChecks DEF Consts
  <2>6. StatementOK(E, b[2])
    BY <1>1, <1>13, <2>3, <2>4, ScalarType, FullIsSlim, BinaryChecks
  <2> QED BY <1>5, <2>5, <2>6
<1>14. /\ Neat(b, o, {in}) /\ FilesIn(b, {}) /\ b[Len(b)].type = T(c, s)
       /\ c \in Nat \ {0} /\ s \in Nat \ {0} =>
            \A E : Full(E, in, c, s) => Fine(b, E)
  BY <1>10, <1>11, <1>12, <1>13, <1>2 DEF Fine
<1> QED BY <1>14, Zenon DEF Pos, Makes

\* ELU.
LEMMA EluFragment ==
    ASSUME NEW c, NEW s, NEW in, NEW o, NEW b,
           b = elu_fragment(c, s, in, <<o>>).body,
           Pos(c), Pos(s)
    PROVE  Makes(b, o, in, {}, c, s, c, s)
<1>1. /\ b[1] = Lit(Local(o, "zero"), Num(0))
      /\ b[2] = Lit(Local(o, "one"), Num(1))
      /\ b[3] = Let(TB(c, s), Local(o, "mask"), "greater", <<in, Local(o, "zero")>>)
      /\ b[4] = Let(T(c, s), Local(o, "ex"), "exp", <<in>>)
      /\ b[5] = Let(T(c, s), Local(o, "em1"), "sub", <<Local(o, "ex"), Local(o, "one")>>)
      /\ b[6] = Let(T(c, s), <<o>>, "select", <<Local(o, "mask"), in, Local(o, "em1")>>)
  BY DEF elu_fragment, Plain, Frag, Local
<1>2. Len(b) = 6 /\ Sequence(b)
  BY DEF elu_fragment, Plain, Frag, Sequence
<1>3. /\ Is(b[1], Local(o, "zero"), Scalar, "lit", {})
      /\ Is(b[2], Local(o, "one"), Scalar, "lit", {})
      /\ Is(b[3], Local(o, "mask"), TB(c, s), "greater", {in, Local(o, "zero")})
      /\ Is(b[4], Local(o, "ex"), T(c, s), "exp", {in})
      /\ Is(b[5], Local(o, "em1"), T(c, s), "sub", {Local(o, "ex"), Local(o, "one")})
      /\ Is(b[6], <<o>>, T(c, s), "select", {Local(o, "mask"), in, Local(o, "em1")})
  BY <1>1, LetOne, LetTwo, LetThree, LitIs
<1>4. /\ b[1].name = Local(o, "zero") /\ b[1].type = Scalar /\ b[1].op = "lit"
      /\ b[2].name = Local(o, "one") /\ b[2].type = Scalar /\ b[2].op = "lit"
      /\ b[3].name = Local(o, "mask") /\ b[3].type = TB(c, s) /\ b[3].op = "greater"
      /\ b[4].name = Local(o, "ex") /\ b[4].type = T(c, s) /\ b[4].op = "exp"
      /\ b[5].name = Local(o, "em1") /\ b[5].type = T(c, s) /\ b[5].op = "sub"
      /\ b[6].name = <<o>> /\ b[6].type = T(c, s) /\ b[6].op = "select"
  BY <1>3 DEF Is
<1>5. \A k \in 1 .. 6 : k \in {1, 2, 3, 4, 5, 6}
  OBVIOUS
<1>6. Supply(b, {in})
  <2>1. /\ Fed(b, {in}, 1)
        /\ Fed(b, {in}, 2)
        /\ Fed(b, {in}, 3)
        /\ Fed(b, {in}, 4)
        /\ Fed(b, {in}, 5)
        /\ Fed(b, {in}, 6)
    BY <1>3, <1>4 DEF Is, Fed
  <2>2. \A k \in 1 .. 6 : Fed(b, {in}, k)
    BY <1>5, <2>1
  <2> QED BY <1>2, <2>2, SupplyIs, Zenon
<1> DEFINE N == <<"zero", "one", "mask", "ex", "em1">>
           at == [zero |-> 1, one |-> 2, mask |-> 3, ex |-> 4, em1 |-> 5]
<1>7. \A k \in 1 .. (6 - 1) : b[k].name = Local(o, N[k]) /\ at[N[k]] = k
  BY <1>4, <1>5
<1>8. b[6].name = <<o>> /\ 6 \in Nat \ {0}
  BY <1>4
<1> HIDE DEF N, at
<1>9. Len(b) \in Nat \ {0} /\ b[Len(b)].name = <<o>> /\ Named(b, o, N, at)
  BY <1>2, <1>7, <1>8, Zenon DEF Named
<1>10. Neat(b, o, {in})
  BY <1>2, <1>6, <1>9, NeatIs
<1>11. FilesIn(b, {})
  BY <1>2, <1>4, <1>5, Zenon DEF FilesIn
<1>12. b[Len(b)].type = T(c, s)
  BY <1>2, <1>4
<1>13. ASSUME c \in Nat \ {0} /\ s \in Nat \ {0}, NEW E, Full(E, in, c, s), Declared(E, b)
       PROVE  \A k \in 1 .. 6 : StatementOK(E, b[k])
  <2>1. \A k \in 1 .. 6 : /\ E[b[k].name].type = b[k].type
                          /\ (b[k].op = "attr" => E[b[k].name].val = b[k].val)
    BY <1>2, <1>13 DEF Declared
  <2>2. /\ E[b[1].name].type = b[1].type
        /\ E[b[2].name].type = b[2].type
        /\ E[b[3].name].type = b[3].type
        /\ E[b[4].name].type = b[4].type
        /\ E[b[5].name].type = b[5].type
        /\ E[b[6].name].type = b[6].type
    BY <2>1
  <2>3. /\ E[Local(o, "zero")].type = Scalar
        /\ E[Local(o, "one")].type = Scalar
        /\ E[Local(o, "mask")].type = TB(c, s)
        /\ E[Local(o, "ex")].type = T(c, s)
        /\ E[Local(o, "em1")].type = T(c, s)
    BY <1>4, <2>2
  <2>4. Plainly("exp") /\ Plainly("sub")
    BY DEF Plainly, Elementwise, Reductions, Consts, Comparing
  <2>5. StatementOK(E, b[1])
    BY <1>4, ConstChecks DEF Consts
  <2>6. StatementOK(E, b[2])
    BY <1>4, ConstChecks DEF Consts
  <2>7. StatementOK(E, b[3])
    BY <1>1, <1>13, <2>3, ScalarType, FullIsSlim, CompareChecks
  <2>8. StatementOK(E, b[4])
    BY <1>1, <1>13, <2>3, <2>4, FullIsSlim, UnaryChecks
  <2>9. StatementOK(E, b[5])
    BY <1>1, <1>13, <2>3, <2>4, FullType, ScalarType, BinaryChecks
  <2>10. StatementOK(E, b[6])
    BY <1>1, <1>13, <2>3, FullType, FullIsSlim, SelectChecks
  <2> QED BY <1>5, <2>5, <2>6, <2>7, <2>8, <2>9, <2>10
<1>14. /\ Neat(b, o, {in}) /\ FilesIn(b, {}) /\ b[Len(b)].type = T(c, s)
       /\ c \in Nat \ {0} /\ s \in Nat \ {0} =>
            \A E : Full(E, in, c, s) => Fine(b, E)
  BY <1>10, <1>11, <1>12, <1>13, <1>2, Zenon DEF Fine
<1> QED BY <1>14, Zenon DEF Pos, Makes

\* MOD.
LEMMA ModFragment ==
    ASSUME NEW c, NEW s, NEW in, NEW arg, NEW o, NEW b,
           b = mod_fragment(c, s, in, arg, <<o>>).body,
           Pos(c), Pos(s)
    PROVE  Makes2(b, o, in, arg, {}, c, s)
<1>1. /\ b[1] = Let(T(c, s), Local(o, "q"), "floor_div", <<in, arg>>)
      /\ b[2] = Let(T(c, s), Local(o, "qy"), "mul", <<Local(o, "q"), arg>>)
      /\ b[3] = Let(T(c, s), <<o>>, "sub", <<in, Local(o, "qy")>>)
  BY DEF mod_fragment, Plain, Frag, Local
<1>2. Len(b) = 3 /\ Sequence(b)
  BY DEF mod_fragment, Plain, Frag, Sequence
<1>3. /\ Is(b[1], Local(o, "q"), T(c, s), "floor_div", {in, arg})
      /\ Is(b[2], Local(o, "qy"), T(c, s), "mul", {Local(o, "q"), arg})
      /\ Is(b[3], <<o>>, T(c, s), "sub", {in, Local(o, "qy")})
  BY <1>1, LetTwo
<1>4. /\ b[1].name = Local(o, "q") /\ b[1].type = T(c, s) /\ b[1].op = "floor_div"
      /\ b[2].name = Local(o, "qy") /\ b[2].type = T(c, s) /\ b[2].op = "mul"
      /\ b[3].name = <<o>> /\ b[3].type = T(c, s) /\ b[3].op = "sub"
  BY <1>3 DEF Is
<1>5. \A k \in 1 .. 3 : k \in {1, 2, 3}
  OBVIOUS
<1>6. Supply(b, {in, arg})
  <2>1. /\ Fed(b, {in, arg}, 1)
        /\ Fed(b, {in, arg}, 2)
        /\ Fed(b, {in, arg}, 3)
    BY <1>3, <1>4 DEF Is, Fed
  <2>2. \A k \in 1 .. 3 : Fed(b, {in, arg}, k)
    BY <1>5, <2>1
  <2> QED BY <1>2, <2>2, SupplyIs, Zenon
<1> DEFINE N == <<"q", "qy">>
           at == [q |-> 1, qy |-> 2]
<1>7. \A k \in 1 .. (3 - 1) : b[k].name = Local(o, N[k]) /\ at[N[k]] = k
  BY <1>4, <1>5
<1>8. b[3].name = <<o>> /\ 3 \in Nat \ {0}
  BY <1>4
<1> HIDE DEF N, at
<1>9. Len(b) \in Nat \ {0} /\ b[Len(b)].name = <<o>> /\ Named(b, o, N, at)
  BY <1>2, <1>7, <1>8, Zenon DEF Named
<1>10. Neat(b, o, {in, arg})
  BY <1>2, <1>6, <1>9, NeatIs
<1>11. FilesIn(b, {})
  BY <1>2, <1>4, <1>5 DEF FilesIn
<1>12. b[Len(b)].type = T(c, s)
  BY <1>2, <1>4
<1>13. ASSUME c \in Nat \ {0} /\ s \in Nat \ {0}, NEW E, Full(E, in, c, s) /\ Full(E, arg, c, s), Declared(E, b)
       PROVE  \A k \in 1 .. 3 : StatementOK(E, b[k])
  <2>1. \A k \in 1 .. 3 : /\ E[b[k].name].type = b[k].type
                          /\ (b[k].op = "attr" => E[b[k].name].val = b[k].val)
    BY <1>2, <1>13 DEF Declared
  <2>2. /\ E[b[1].name].type = b[1].type
        /\ E[b[2].name].type = b[2].type
        /\ E[b[3].name].type = b[3].type
    BY <2>1
  <2>3. /\ E[Local(o, "q")].type = T(c, s)
        /\ E[Local(o, "qy")].type = T(c, s)
    BY <1>4, <2>2
  <2>4. Plainly("floor_div") /\ Plainly("mul") /\ Plainly("sub")
    BY DEF Plainly, Elementwise, Reductions, Consts, Comparing
  <2>5. StatementOK(E, b[1])
    BY <1>1, <1>13, <2>3, <2>4, FullIsSlim, BinaryChecks
  <2>6. StatementOK(E, b[2])
    BY <1>1, <1>13, <2>3, <2>4, FullType, FullIsSlim, BinaryChecks
  <2>7. StatementOK(E, b[3])
    BY <1>1, <1>13, <2>3, <2>4, FullType, FullIsSlim, BinaryChecks
  <2> QED BY <1>5, <2>5, <2>6, <2>7
<1>14. /\ Neat(b, o, {in, arg}) /\ FilesIn(b, {}) /\ b[Len(b)].type = T(c, s)
       /\ c \in Nat \ {0} /\ s \in Nat \ {0} =>
            \A E : Full(E, in, c, s) /\ Full(E, arg, c, s) => Fine(b, E)
  BY <1>10, <1>11, <1>12, <1>13, <1>2, Zenon DEF Fine
<1> QED BY <1>14, Zenon DEF Pos, Makes2

\* SELECT.
LEMMA SelectFragment ==
    ASSUME NEW c, NEW s, NEW cond, NEW x, NEW y, NEW o, NEW b,
           b = select_fragment(c, s, cond, x, y, <<o>>).body,
           Pos(c), Pos(s)
    PROVE  Makes3(b, o, cond, x, y, c, s)
<1>1. /\ b[1] = Let(TB(c, s), Local(o, "cb"), "bool", <<cond>>)
      /\ b[2] = Let(T(c, s), <<o>>, "select", <<Local(o, "cb"), x, y>>)
  BY DEF select_fragment, Plain, Frag, Local
<1>2. Len(b) = 2 /\ Sequence(b)
  BY DEF select_fragment, Plain, Frag, Sequence
<1>3. /\ Is(b[1], Local(o, "cb"), TB(c, s), "bool", {cond})
      /\ Is(b[2], <<o>>, T(c, s), "select", {Local(o, "cb"), x, y})
  BY <1>1, LetOne, LetThree
<1>4. /\ b[1].name = Local(o, "cb") /\ b[1].type = TB(c, s) /\ b[1].op = "bool"
      /\ b[2].name = <<o>> /\ b[2].type = T(c, s) /\ b[2].op = "select"
  BY <1>3 DEF Is
<1>5. \A k \in 1 .. 2 : k \in {1, 2}
  OBVIOUS
<1>6. Supply(b, {cond, x, y})
  <2>1. /\ Fed(b, {cond, x, y}, 1)
        /\ Fed(b, {cond, x, y}, 2)
    BY <1>3, <1>4 DEF Is, Fed
  <2>2. \A k \in 1 .. 2 : Fed(b, {cond, x, y}, k)
    BY <1>5, <2>1
  <2> QED BY <1>2, <2>2, SupplyIs, Zenon
<1> DEFINE N == <<"cb">>
           at == [cb |-> 1]
<1>7. \A k \in 1 .. (2 - 1) : b[k].name = Local(o, N[k]) /\ at[N[k]] = k
  BY <1>4, <1>5
<1>8. b[2].name = <<o>> /\ 2 \in Nat \ {0}
  BY <1>4
<1> HIDE DEF N, at
<1>9. Len(b) \in Nat \ {0} /\ b[Len(b)].name = <<o>> /\ Named(b, o, N, at)
  BY <1>2, <1>7, <1>8, Zenon DEF Named
<1>10. Neat(b, o, {cond, x, y})
  BY <1>2, <1>6, <1>9, NeatIs
<1>11. FilesIn(b, {})
  BY <1>2, <1>4, <1>5 DEF FilesIn
<1>12. b[Len(b)].type = T(c, s)
  BY <1>2, <1>4
<1>13. ASSUME c \in Nat \ {0} /\ s \in Nat \ {0}, NEW E, Full(E, cond, c, s) /\ Full(E, x, c, s) /\ Full(E, y, c, s), Declared(E, b)
       PROVE  \A k \in 1 .. 2 : StatementOK(E, b[k])
  <2>1. \A k \in 1 .. 2 : /\ E[b[k].name].type = b[k].type
                          /\ (b[k].op = "attr" => E[b[k].name].val = b[k].val)
    BY <1>2, <1>13 DEF Declared
  <2>2. /\ E[b[1].name].type = b[1].type
        /\ E[b[2].name].type = b[2].type
    BY <2>1
  <2>3. /\ E[Local(o, "cb")].type = TB(c, s)
    BY <1>4, <2>2
  <2>4. StatementOK(E, b[1])
    BY <1>1, <1>13, <2>3, FullIsSlim, BoolChecks
  <2>5. StatementOK(E, b[2])
    BY <1>1, <1>13, <2>3, FullIsSlim, SelectChecks
  <2> QED BY <1>5, <2>4, <2>5
<1>14. /\ Neat(b, o, {cond, x, y}) /\ FilesIn(b, {}) /\ b[Len(b)].type = T(c, s)
       /\ c \in Nat \ {0} /\ s \in Nat \ {0} =>
            \A E : Full(E, cond, c, s) /\ Full(E, x, c, s) /\ Full(E, y, c, s) => Fine(b, E)
  BY <1>10, <1>11, <1>12, <1>13, <1>2 DEF Fine
<1> QED BY <1>14, Zenon DEF Pos, Makes3

\* RMSNORM.
LEMMA RmsnormFragment ==
    ASSUME NEW c, NEW s, NEW in, NEW f, NEW o, NEW b,
           b = rmsnorm_fragment(c, s, in, <<o>>, f).body,
           Pos(c), Pos(s)
    PROVE  Makes(b, o, in, {<<f, <<1, c, 1, 1>>>>}, c, s, c, s)
<1>1. /\ b[1] = Let(T(c, s), Local(o, "sq"), "mul", <<in, in>>)
      /\ b[2] = Attr(Local(o, "ax"), 1)
      /\ b[3] = LetWith(Row(s), Local(o, "ss"), "reduce_sum", <<Local(o, "sq")>>, Local(o, "ax"))
      /\ b[4] = Lit(Local(o, "invd"), App("1/C", <<Num(c)>>))
      /\ b[5] = Let(Row(s), Local(o, "ms"), "mul", <<Local(o, "ss"), Local(o, "invd")>>)
      /\ b[6] = Lit(Local(o, "eps"), Real("9.765625e-4"))
      /\ b[7] = Let(Row(s), Local(o, "mse"), "add", <<Local(o, "ms"), Local(o, "eps")>>)
      /\ b[8] = Lit(Local(o, "nh"), Real("-0.5"))
      /\ b[9] = Let(Row(s), Local(o, "rr"), "pow", <<Local(o, "mse"), Local(o, "nh")>>)
      /\ b[10] = Let(T(c, s), Local(o, "xr"), "mul", <<in, Local(o, "rr")>>)
      /\ b[11] = File(Col(c), Local(o, "w"), f)
      /\ b[12] = Let(T(c, s), <<o>>, "mul", <<Local(o, "xr"), Local(o, "w")>>)
  BY DEF rmsnorm_fragment, Plain, Frag, Local
<1>2. Len(b) = 12 /\ Sequence(b)
  BY DEF rmsnorm_fragment, Plain, Frag, Sequence
<1>3. /\ Is(b[1], Local(o, "sq"), T(c, s), "mul", {in, in})
      /\ Is(b[2], Local(o, "ax"), AttrType, "attr", {})
      /\ Is(b[3], Local(o, "ss"), Row(s), "reduce_sum", {Local(o, "sq"), Local(o, "ax")})
      /\ Is(b[4], Local(o, "invd"), Scalar, "lit", {})
      /\ Is(b[5], Local(o, "ms"), Row(s), "mul", {Local(o, "ss"), Local(o, "invd")})
      /\ Is(b[6], Local(o, "eps"), Scalar, "lit", {})
      /\ Is(b[7], Local(o, "mse"), Row(s), "add", {Local(o, "ms"), Local(o, "eps")})
      /\ Is(b[8], Local(o, "nh"), Scalar, "lit", {})
      /\ Is(b[9], Local(o, "rr"), Row(s), "pow", {Local(o, "mse"), Local(o, "nh")})
      /\ Is(b[10], Local(o, "xr"), T(c, s), "mul", {in, Local(o, "rr")})
      /\ Is(b[11], Local(o, "w"), Col(c), "file", {})
      /\ Is(b[12], <<o>>, T(c, s), "mul", {Local(o, "xr"), Local(o, "w")})
  BY <1>1, LetTwo, LetWithOne, LitIs, AttrIs, FileIs
<1>4. /\ b[1].name = Local(o, "sq") /\ b[1].type = T(c, s) /\ b[1].op = "mul"
      /\ b[2].name = Local(o, "ax") /\ b[2].type = AttrType /\ b[2].op = "attr"
      /\ b[3].name = Local(o, "ss") /\ b[3].type = Row(s) /\ b[3].op = "reduce_sum"
      /\ b[4].name = Local(o, "invd") /\ b[4].type = Scalar /\ b[4].op = "lit"
      /\ b[5].name = Local(o, "ms") /\ b[5].type = Row(s) /\ b[5].op = "mul"
      /\ b[6].name = Local(o, "eps") /\ b[6].type = Scalar /\ b[6].op = "lit"
      /\ b[7].name = Local(o, "mse") /\ b[7].type = Row(s) /\ b[7].op = "add"
      /\ b[8].name = Local(o, "nh") /\ b[8].type = Scalar /\ b[8].op = "lit"
      /\ b[9].name = Local(o, "rr") /\ b[9].type = Row(s) /\ b[9].op = "pow"
      /\ b[10].name = Local(o, "xr") /\ b[10].type = T(c, s) /\ b[10].op = "mul"
      /\ b[11].name = Local(o, "w") /\ b[11].type = Col(c) /\ b[11].op = "file"
      /\ b[12].name = <<o>> /\ b[12].type = T(c, s) /\ b[12].op = "mul"
  BY <1>3 DEF Is
<1>5. /\ b[2].val = 1
      /\ b[11].val = f
  BY <1>1, AttrIs, FileIs
<1>6. \A k \in 1 .. 12 : k \in {1, 2, 3, 4, 5, 6, 7, 8, 9, 10, 11, 12}
  OBVIOUS
<1>7. Supply(b, {in})
  <2>1. /\ Fed(b, {in}, 1)
        /\ Fed(b, {in}, 2)
        /\ Fed(b, {in}, 3)
        /\ Fed(b, {in}, 4)
        /\ Fed(b, {in}, 5)
        /\ Fed(b, {in}, 6)
        /\ Fed(b, {in}, 7)
        /\ Fed(b, {in}, 8)
        /\ Fed(b, {in}, 9)
        /\ Fed(b, {in}, 10)
        /\ Fed(b, {in}, 11)
        /\ Fed(b, {in}, 12)
    <3>1. /\ Fed(b, {in}, 1)
          /\ Fed(b, {in}, 2)
          /\ Fed(b, {in}, 3)
      BY <1>3, <1>4 DEF Is, Fed
    <3>2. /\ Fed(b, {in}, 4)
          /\ Fed(b, {in}, 5)
          /\ Fed(b, {in}, 6)
      BY <1>3, <1>4 DEF Is, Fed
    <3>3. /\ Fed(b, {in}, 7)
          /\ Fed(b, {in}, 8)
          /\ Fed(b, {in}, 9)
      BY <1>3, <1>4 DEF Is, Fed
    <3>4. /\ Fed(b, {in}, 10)
          /\ Fed(b, {in}, 11)
          /\ Fed(b, {in}, 12)
      BY <1>3, <1>4 DEF Is, Fed
    <3> QED BY <3>1, <3>2, <3>3, <3>4, Zenon
  <2>2. \A k \in 1 .. 12 : Fed(b, {in}, k)
    BY <1>6, <2>1
  <2> QED BY <1>2, <2>2, SupplyIs, Zenon
<1> DEFINE N == <<"sq", "ax", "ss", "invd", "ms", "eps", "mse", "nh", "rr", "xr", "w">>
           at == [sq |-> 1, ax |-> 2, ss |-> 3, invd |-> 4, ms |-> 5, eps |-> 6, mse |-> 7,
                  nh |-> 8, rr |-> 9, xr |-> 10, w |-> 11]
<1>8. \A k \in 1 .. (12 - 1) : b[k].name = Local(o, N[k]) /\ at[N[k]] = k
  BY <1>4, <1>6
<1>9. b[12].name = <<o>> /\ 12 \in Nat \ {0}
  BY <1>4
<1> HIDE DEF N, at
<1>10. Len(b) \in Nat \ {0} /\ b[Len(b)].name = <<o>> /\ Named(b, o, N, at)
  BY <1>2, <1>8, <1>9, Zenon DEF Named
<1>11. Neat(b, o, {in})
  BY <1>2, <1>7, <1>10, NeatIs
<1>12. FilesIn(b, {<<f, <<1, c, 1, 1>>>>})
  <2>1. \A k \in 1 .. 12 : b[k].op = "file" => k \in {11}
    BY <1>6, <1>4
  <2>2. /\ <<b[11].val, b[11].type.dims>> \in {<<f, <<1, c, 1, 1>>>>}
    BY <1>4, <1>5 DEF T, Fp16, Col, ConvW
  <2> QED BY <1>2, <2>1, <2>2, Zenon DEF FilesIn
<1>13. b[Len(b)].type = T(c, s)
  BY <1>2, <1>4, Zenon
<1>14. ASSUME c \in Nat \ {0} /\ s \in Nat \ {0}, NEW E, Full(E, in, c, s), Declared(E, b)
       PROVE  \A k \in 1 .. 12 : StatementOK(E, b[k])
  <2>1. \A k \in 1 .. 12 : /\ E[b[k].name].type = b[k].type
                           /\ (b[k].op = "attr" => E[b[k].name].val = b[k].val)
    BY <1>2, <1>14, Zenon DEF Declared
  <2>2. /\ E[b[1].name].type = b[1].type
        /\ E[b[2].name].type = b[2].type /\ E[b[2].name].val = b[2].val
        /\ E[b[3].name].type = b[3].type
        /\ E[b[4].name].type = b[4].type
        /\ E[b[5].name].type = b[5].type
        /\ E[b[6].name].type = b[6].type
        /\ E[b[7].name].type = b[7].type
        /\ E[b[8].name].type = b[8].type
        /\ E[b[9].name].type = b[9].type
        /\ E[b[10].name].type = b[10].type
        /\ E[b[11].name].type = b[11].type
        /\ E[b[12].name].type = b[12].type
    <3>0. \A k \in 1 .. 12 : E[b[k].name].type = b[k].type
      BY <2>1, Zenon
    <3>1. /\ E[b[1].name].type = b[1].type
          /\ E[b[2].name].type = b[2].type
          /\ E[b[3].name].type = b[3].type
          /\ E[b[4].name].type = b[4].type
      BY <3>0
    <3>2. /\ E[b[5].name].type = b[5].type
          /\ E[b[6].name].type = b[6].type
          /\ E[b[7].name].type = b[7].type
          /\ E[b[8].name].type = b[8].type
      BY <3>0
    <3>3. /\ E[b[9].name].type = b[9].type
          /\ E[b[10].name].type = b[10].type
          /\ E[b[11].name].type = b[11].type
          /\ E[b[12].name].type = b[12].type
      BY <3>0
    <3>4. E[b[2].name].val = b[2].val
      <4>1. 2 \in 1 .. 12 /\ b[2].op = "attr"
        BY <1>4
      <4> QED BY <2>1, <4>1, Zenon
    <3> QED BY <3>1, <3>2, <3>3, <3>4, Zenon
  <2>3. /\ E[Local(o, "sq")].type = T(c, s)
        /\ E[Local(o, "ax")].type = AttrType /\ E[Local(o, "ax")].val = 1
        /\ E[Local(o, "ss")].type = Row(s)
        /\ E[Local(o, "invd")].type = Scalar
        /\ E[Local(o, "ms")].type = Row(s)
        /\ E[Local(o, "eps")].type = Scalar
        /\ E[Local(o, "mse")].type = Row(s)
        /\ E[Local(o, "nh")].type = Scalar
        /\ E[Local(o, "rr")].type = Row(s)
        /\ E[Local(o, "xr")].type = T(c, s)
        /\ E[Local(o, "w")].type = Col(c)
    BY <1>4, <1>5, <2>2
  <2>4. Plainly("mul") /\ Plainly("add") /\ Plainly("pow")
    BY DEF Plainly, Elementwise, Reductions, Consts, Comparing
  <2>5. StatementOK(E, b[1])
    BY <1>1, <1>14, <2>3, <2>4, FullIsSlim, BinaryChecks
  <2>6. StatementOK(E, b[2])
    BY <1>4, ConstChecks DEF Consts
  <2>7. StatementOK(E, b[3])
    BY <1>1, <1>14, <2>3, FullType, ReduceChecks, Zenon DEF Reductions
  <2>8. StatementOK(E, b[4])
    BY <1>4, ConstChecks DEF Consts
  <2>9. StatementOK(E, b[5])
    BY <1>1, <1>14, <2>3, <2>4, RowType, ScalarType, RowBinaryChecks
  <2>10. StatementOK(E, b[6])
    BY <1>4, ConstChecks DEF Consts
  <2>11. StatementOK(E, b[7])
    BY <1>1, <1>14, <2>3, <2>4, RowType, ScalarType, RowBinaryChecks
  <2>12. StatementOK(E, b[8])
    BY <1>4, ConstChecks DEF Consts
  <2>13. StatementOK(E, b[9])
    BY <1>1, <1>14, <2>3, <2>4, RowType, ScalarType, RowBinaryChecks
  <2>14. StatementOK(E, b[10])
    BY <1>1, <1>14, <2>3, <2>4, RowType, FullIsSlim, BinaryChecks
  <2>15. StatementOK(E, b[11])
    BY <1>4, ConstChecks DEF Consts
  <2>16. StatementOK(E, b[12])
    BY <1>1, <1>14, <2>3, <2>4, FullType, ColType, BinaryChecks
  <2> QED BY <1>6, <2>5, <2>6, <2>7, <2>8, <2>9, <2>10, <2>11, <2>12, <2>13, <2>14, <2>15, <2>16
<1>15. /\ Neat(b, o, {in}) /\ FilesIn(b, {<<f, <<1, c, 1, 1>>>>}) /\ b[Len(b)].type = T(c, s)
       /\ c \in Nat \ {0} /\ s \in Nat \ {0} =>
            \A E : Full(E, in, c, s) => Fine(b, E)
  BY <1>11, <1>12, <1>13, <1>14, <1>2, Zenon DEF Fine
<1> QED BY <1>15, Zenon DEF Pos, Makes

\* LAYERNORM.
LEMMA LayernormFragment ==
    ASSUME NEW c, NEW s, NEW in, NEW gf, NEW bf, NEW o, NEW b,
           b = layernorm_fragment(c, s, in, <<o>>, gf, bf).body,
           Pos(c), Pos(s)
    PROVE  Makes(b, o, in, {<<gf, <<1, c, 1, 1>>>>, <<bf, <<1, c, 1, 1>>>>}, c, s, c, s)
<1>1. /\ b[1] = Attr(Local(o, "ax"), 1)
      /\ b[2] = LetWith(Row(s), Local(o, "mean"), "reduce_mean", <<in>>, Local(o, "ax"))
      /\ b[3] = Let(T(c, s), Local(o, "cent"), "sub", <<in, Local(o, "mean")>>)
      /\ b[4] = Let(T(c, s), Local(o, "sq"), "mul", <<Local(o, "cent"), Local(o, "cent")>>)
      /\ b[5] = LetWith(Row(s), Local(o, "var"), "reduce_mean", <<Local(o, "sq")>>, Local(o, "ax"))
      /\ b[6] = Lit(Local(o, "eps"), Real("eps"))
      /\ b[7] = Let(Row(s), Local(o, "veps"), "add", <<Local(o, "var"), Local(o, "eps")>>)
      /\ b[8] = Lit(Local(o, "nh"), Real("-0.5"))
      /\ b[9] = Let(Row(s), Local(o, "rstd"), "pow", <<Local(o, "veps"), Local(o, "nh")>>)
      /\ b[10] = Let(T(c, s), Local(o, "norm"), "mul", <<Local(o, "cent"), Local(o, "rstd")>>)
      /\ b[11] = File(Col(c), Local(o, "g"), gf)
      /\ b[12] = Let(T(c, s), Local(o, "sc"), "mul", <<Local(o, "norm"), Local(o, "g")>>)
      /\ b[13] = File(Col(c), Local(o, "beta"), bf)
      /\ b[14] = Let(T(c, s), <<o>>, "add", <<Local(o, "sc"), Local(o, "beta")>>)
  BY DEF layernorm_fragment, Plain, Frag, Local
<1>2. Len(b) = 14 /\ Sequence(b)
  BY DEF layernorm_fragment, Plain, Frag, Sequence
<1>3. /\ Is(b[1], Local(o, "ax"), AttrType, "attr", {})
      /\ Is(b[2], Local(o, "mean"), Row(s), "reduce_mean", {in, Local(o, "ax")})
      /\ Is(b[3], Local(o, "cent"), T(c, s), "sub", {in, Local(o, "mean")})
      /\ Is(b[4], Local(o, "sq"), T(c, s), "mul", {Local(o, "cent"), Local(o, "cent")})
      /\ Is(b[5], Local(o, "var"), Row(s), "reduce_mean", {Local(o, "sq"), Local(o, "ax")})
      /\ Is(b[6], Local(o, "eps"), Scalar, "lit", {})
      /\ Is(b[7], Local(o, "veps"), Row(s), "add", {Local(o, "var"), Local(o, "eps")})
      /\ Is(b[8], Local(o, "nh"), Scalar, "lit", {})
      /\ Is(b[9], Local(o, "rstd"), Row(s), "pow", {Local(o, "veps"), Local(o, "nh")})
      /\ Is(b[10], Local(o, "norm"), T(c, s), "mul", {Local(o, "cent"), Local(o, "rstd")})
      /\ Is(b[11], Local(o, "g"), Col(c), "file", {})
      /\ Is(b[12], Local(o, "sc"), T(c, s), "mul", {Local(o, "norm"), Local(o, "g")})
      /\ Is(b[13], Local(o, "beta"), Col(c), "file", {})
      /\ Is(b[14], <<o>>, T(c, s), "add", {Local(o, "sc"), Local(o, "beta")})
  BY <1>1, LetTwo, LetWithOne, LitIs, AttrIs, FileIs
<1>4. /\ b[1].name = Local(o, "ax") /\ b[1].type = AttrType /\ b[1].op = "attr"
      /\ b[2].name = Local(o, "mean") /\ b[2].type = Row(s) /\ b[2].op = "reduce_mean"
      /\ b[3].name = Local(o, "cent") /\ b[3].type = T(c, s) /\ b[3].op = "sub"
      /\ b[4].name = Local(o, "sq") /\ b[4].type = T(c, s) /\ b[4].op = "mul"
      /\ b[5].name = Local(o, "var") /\ b[5].type = Row(s) /\ b[5].op = "reduce_mean"
      /\ b[6].name = Local(o, "eps") /\ b[6].type = Scalar /\ b[6].op = "lit"
      /\ b[7].name = Local(o, "veps") /\ b[7].type = Row(s) /\ b[7].op = "add"
      /\ b[8].name = Local(o, "nh") /\ b[8].type = Scalar /\ b[8].op = "lit"
      /\ b[9].name = Local(o, "rstd") /\ b[9].type = Row(s) /\ b[9].op = "pow"
      /\ b[10].name = Local(o, "norm") /\ b[10].type = T(c, s) /\ b[10].op = "mul"
      /\ b[11].name = Local(o, "g") /\ b[11].type = Col(c) /\ b[11].op = "file"
      /\ b[12].name = Local(o, "sc") /\ b[12].type = T(c, s) /\ b[12].op = "mul"
      /\ b[13].name = Local(o, "beta") /\ b[13].type = Col(c) /\ b[13].op = "file"
      /\ b[14].name = <<o>> /\ b[14].type = T(c, s) /\ b[14].op = "add"
  BY <1>3 DEF Is
<1>5. /\ b[1].val = 1
      /\ b[11].val = gf
      /\ b[13].val = bf
  BY <1>1, AttrIs, FileIs
<1>6. \A k \in 1 .. 14 : k \in {1, 2, 3, 4, 5, 6, 7, 8, 9, 10, 11, 12, 13, 14}
  OBVIOUS
<1>7. Supply(b, {in})
  <2>1. /\ Fed(b, {in}, 1)
        /\ Fed(b, {in}, 2)
        /\ Fed(b, {in}, 3)
        /\ Fed(b, {in}, 4)
        /\ Fed(b, {in}, 5)
        /\ Fed(b, {in}, 6)
        /\ Fed(b, {in}, 7)
        /\ Fed(b, {in}, 8)
        /\ Fed(b, {in}, 9)
        /\ Fed(b, {in}, 10)
        /\ Fed(b, {in}, 11)
        /\ Fed(b, {in}, 12)
        /\ Fed(b, {in}, 13)
        /\ Fed(b, {in}, 14)
    <3>1. /\ Fed(b, {in}, 1)
          /\ Fed(b, {in}, 2)
          /\ Fed(b, {in}, 3)
      BY <1>3, <1>4 DEF Is, Fed
    <3>2. /\ Fed(b, {in}, 4)
          /\ Fed(b, {in}, 5)
          /\ Fed(b, {in}, 6)
      BY <1>3, <1>4 DEF Is, Fed
    <3>3. /\ Fed(b, {in}, 7)
          /\ Fed(b, {in}, 8)
          /\ Fed(b, {in}, 9)
      BY <1>3, <1>4 DEF Is, Fed
    <3>4. /\ Fed(b, {in}, 10)
          /\ Fed(b, {in}, 11)
          /\ Fed(b, {in}, 12)
      BY <1>3, <1>4 DEF Is, Fed
    <3>5. /\ Fed(b, {in}, 13)
          /\ Fed(b, {in}, 14)
      BY <1>3, <1>4 DEF Is, Fed
    <3> QED BY <3>1, <3>2, <3>3, <3>4, <3>5, Zenon
  <2>2. \A k \in 1 .. 14 : Fed(b, {in}, k)
    BY <1>6, <2>1
  <2> QED BY <1>2, <2>2, SupplyIs, Zenon
<1> DEFINE N == <<"ax", "mean", "cent", "sq", "var", "eps", "veps", "nh", "rstd", "norm", "g", "sc",
                  "beta">>
           at == [ax |-> 1, mean |-> 2, cent |-> 3, sq |-> 4, var |-> 5, eps |-> 6, veps |-> 7,
                  nh |-> 8, rstd |-> 9, norm |-> 10, g |-> 11, sc |-> 12, beta |-> 13]
<1>8. \A k \in 1 .. (14 - 1) : b[k].name = Local(o, N[k]) /\ at[N[k]] = k
  BY <1>4, <1>6
<1>9. b[14].name = <<o>> /\ 14 \in Nat \ {0}
  BY <1>4
<1> HIDE DEF N, at
<1>10. Len(b) \in Nat \ {0} /\ b[Len(b)].name = <<o>> /\ Named(b, o, N, at)
  BY <1>2, <1>8, <1>9, Zenon DEF Named
<1>11. Neat(b, o, {in})
  BY <1>2, <1>7, <1>10, NeatIs
<1>12. FilesIn(b, {<<gf, <<1, c, 1, 1>>>>, <<bf, <<1, c, 1, 1>>>>})
  <2>1. \A k \in 1 .. 14 : b[k].op = "file" => k \in {11, 13}
    BY <1>6, <1>4
  <2>2. /\ <<b[11].val, b[11].type.dims>> \in {<<gf, <<1, c, 1, 1>>>>, <<bf, <<1, c, 1, 1>>>>}
        /\ <<b[13].val, b[13].type.dims>> \in {<<gf, <<1, c, 1, 1>>>>, <<bf, <<1, c, 1, 1>>>>}
    BY <1>4, <1>5 DEF T, Fp16, Col, ConvW
  <2> QED BY <1>2, <2>1, <2>2, Zenon DEF FilesIn
<1>13. b[Len(b)].type = T(c, s)
  BY <1>2, <1>4, Zenon
<1>14. ASSUME c \in Nat \ {0} /\ s \in Nat \ {0}, NEW E, Full(E, in, c, s), Declared(E, b)
       PROVE  \A k \in 1 .. 14 : StatementOK(E, b[k])
  <2>1. \A k \in 1 .. 14 : /\ E[b[k].name].type = b[k].type
                           /\ (b[k].op = "attr" => E[b[k].name].val = b[k].val)
    BY <1>2, <1>14, Zenon DEF Declared
  <2>0. b[1].op = "attr"
    BY <1>4
  <2>2. /\ E[b[1].name].type = b[1].type /\ E[b[1].name].val = b[1].val
        /\ E[b[2].name].type = b[2].type
        /\ E[b[3].name].type = b[3].type
        /\ E[b[4].name].type = b[4].type
        /\ E[b[5].name].type = b[5].type
        /\ E[b[6].name].type = b[6].type
        /\ E[b[7].name].type = b[7].type
        /\ E[b[8].name].type = b[8].type
        /\ E[b[9].name].type = b[9].type
        /\ E[b[10].name].type = b[10].type
        /\ E[b[11].name].type = b[11].type
        /\ E[b[12].name].type = b[12].type
        /\ E[b[13].name].type = b[13].type
        /\ E[b[14].name].type = b[14].type
    <3>0. \A k \in 1 .. 14 : E[b[k].name].type = b[k].type
      BY <2>1, Zenon
    <3>1. /\ E[b[1].name].type = b[1].type
          /\ E[b[2].name].type = b[2].type
          /\ E[b[3].name].type = b[3].type
          /\ E[b[4].name].type = b[4].type
      BY <3>0
    <3>2. /\ E[b[5].name].type = b[5].type
          /\ E[b[6].name].type = b[6].type
          /\ E[b[7].name].type = b[7].type
          /\ E[b[8].name].type = b[8].type
          /\ E[b[9].name].type = b[9].type
      BY <3>0
    <3>3. /\ E[b[10].name].type = b[10].type
          /\ E[b[11].name].type = b[11].type
          /\ E[b[12].name].type = b[12].type
          /\ E[b[13].name].type = b[13].type
          /\ E[b[14].name].type = b[14].type
      BY <3>0
    <3>4. E[b[1].name].val = b[1].val
      <4>1. 1 \in 1 .. 14 /\ b[1].op = "attr"
        BY <2>0
      <4> QED BY <2>1, <4>1, Zenon
    <3> QED BY <3>1, <3>2, <3>3, <3>4, Zenon
  <2>3. /\ E[Local(o, "ax")].type = AttrType /\ E[Local(o, "ax")].val = 1
        /\ E[Local(o, "mean")].type = Row(s)
        /\ E[Local(o, "cent")].type = T(c, s)
        /\ E[Local(o, "sq")].type = T(c, s)
        /\ E[Local(o, "var")].type = Row(s)
        /\ E[Local(o, "eps")].type = Scalar
        /\ E[Local(o, "veps")].type = Row(s)
        /\ E[Local(o, "nh")].type = Scalar
        /\ E[Local(o, "rstd")].type = Row(s)
        /\ E[Local(o, "norm")].type = T(c, s)
        /\ E[Local(o, "g")].type = Col(c)
        /\ E[Local(o, "sc")].type = T(c, s)
        /\ E[Local(o, "beta")].type = Col(c)
    BY <1>4, <1>5, <2>2
  <2>4. Plainly("sub") /\ Plainly("mul") /\ Plainly("add") /\ Plainly("pow")
    BY DEF Plainly, Elementwise, Reductions, Consts, Comparing
  <2>5. StatementOK(E, b[1])
    BY <1>4, ConstChecks DEF Consts
  <2>6. StatementOK(E, b[2])
    BY <1>1, <1>14, <2>3, FullIsSlim, ReduceChecks, ZenonT(40) DEF Reductions
  <2>7. StatementOK(E, b[3])
    BY <1>1, <1>14, <2>3, <2>4, RowType, FullIsSlim, BinaryChecks
  <2>8. StatementOK(E, b[4])
    BY <1>1, <1>14, <2>3, <2>4, FullType, BinaryChecks
  <2>9. StatementOK(E, b[5])
    BY <1>1, <1>14, <2>3, FullType, ReduceChecks, ZenonT(40) DEF Reductions
  <2>10. StatementOK(E, b[6])
    BY <1>4, ConstChecks DEF Consts
  <2>11. StatementOK(E, b[7])
    BY <1>1, <1>14, <2>3, <2>4, RowType, ScalarType, RowBinaryChecks
  <2>12. StatementOK(E, b[8])
    BY <1>4, ConstChecks DEF Consts
  <2>13. StatementOK(E, b[9])
    BY <1>1, <1>14, <2>3, <2>4, RowType, ScalarType, RowBinaryChecks
  <2>14. StatementOK(E, b[10])
    BY <1>1, <1>14, <2>3, <2>4, FullType, RowType, BinaryChecks
  <2>15. StatementOK(E, b[11])
    BY <1>4, ConstChecks DEF Consts
  <2>16. StatementOK(E, b[12])
    BY <1>1, <1>14, <2>3, <2>4, FullType, ColType, BinaryChecks
  <2>17. StatementOK(E, b[13])
    BY <1>4, ConstChecks DEF Consts
  <2>18. StatementOK(E, b[14])
    BY <1>1, <1>14, <2>3, <2>4, FullType, ColType, BinaryChecks
  <2> QED BY <1>6, <2>5, <2>6, <2>7, <2>8, <2>9, <2>10, <2>11, <2>12, <2>13, <2>14, <2>15, <2>16,
             <2>17, <2>18
<1>15. /\ Neat(b, o, {in}) /\ FilesIn(b, {<<gf, <<1, c, 1, 1>>>>, <<bf, <<1, c, 1, 1>>>>}) /\ b[Len(b)].type = T(c, s)
       /\ c \in Nat \ {0} /\ s \in Nat \ {0} =>
            \A E : Full(E, in, c, s) => Fine(b, E)
  BY <1>11, <1>12, <1>13, <1>14, <1>2, Zenon DEF Fine
<1> QED BY <1>15, Zenon DEF Pos, Makes

\* REDUCE_PROD.
LEMMA ReduceProdFragment ==
    ASSUME NEW c, NEW s, NEW in, NEW o, NEW b,
           b = reduce_prod_fragment(c, s, in, <<o>>).body,
           Pos(c), Pos(s)
    PROVE  Makes(b, o, in, {}, c, s, 1, s)
<1>1. /\ b[1] = Lit(Local(o, "eps"), Eps)
      /\ b[2] = Let(T(c, s), Local(o, "x"), "add", <<in, Local(o, "eps")>>)
      /\ b[3] = Let(T(c, s), Local(o, "l"), "log", <<Local(o, "x"), Local(o, "eps")>>)
      /\ b[4] = Attr(Local(o, "ax"), 1)
      /\ b[5] = LetWith(Row(s), Local(o, "s"), "reduce_sum", <<Local(o, "l")>>, Local(o, "ax"))
      /\ b[6] = Let(Row(s), <<o>>, "exp", <<Local(o, "s")>>)
  BY DEF reduce_prod_fragment, Frag, Local
<1>2. Len(b) = 6 /\ Sequence(b)
  BY DEF reduce_prod_fragment, Frag, Sequence
<1>3. /\ Is(b[1], Local(o, "eps"), Scalar, "lit", {})
      /\ Is(b[2], Local(o, "x"), T(c, s), "add", {in, Local(o, "eps")})
      /\ Is(b[3], Local(o, "l"), T(c, s), "log", {Local(o, "x"), Local(o, "eps")})
      /\ Is(b[4], Local(o, "ax"), AttrType, "attr", {})
      /\ Is(b[5], Local(o, "s"), Row(s), "reduce_sum", {Local(o, "l"), Local(o, "ax")})
      /\ Is(b[6], <<o>>, Row(s), "exp", {Local(o, "s")})
  BY <1>1, LetOne, LetTwo, LetWithOne, LitIs, AttrIs
<1>4. /\ b[1].name = Local(o, "eps") /\ b[1].type = Scalar /\ b[1].op = "lit"
      /\ b[2].name = Local(o, "x") /\ b[2].type = T(c, s) /\ b[2].op = "add"
      /\ b[3].name = Local(o, "l") /\ b[3].type = T(c, s) /\ b[3].op = "log"
      /\ b[4].name = Local(o, "ax") /\ b[4].type = AttrType /\ b[4].op = "attr"
      /\ b[5].name = Local(o, "s") /\ b[5].type = Row(s) /\ b[5].op = "reduce_sum"
      /\ b[6].name = <<o>> /\ b[6].type = Row(s) /\ b[6].op = "exp"
  BY <1>3 DEF Is
<1>5. /\ b[4].val = 1
  BY <1>1, AttrIs
<1>6. \A k \in 1 .. 6 : k \in {1, 2, 3, 4, 5, 6}
  OBVIOUS
<1>7. Supply(b, {in})
  <2>1. /\ Fed(b, {in}, 1)
        /\ Fed(b, {in}, 2)
        /\ Fed(b, {in}, 3)
        /\ Fed(b, {in}, 4)
        /\ Fed(b, {in}, 5)
        /\ Fed(b, {in}, 6)
    BY <1>3, <1>4 DEF Is, Fed
  <2>2. \A k \in 1 .. 6 : Fed(b, {in}, k)
    BY <1>6, <2>1
  <2> QED BY <1>2, <2>2, SupplyIs, Zenon
<1> DEFINE N == <<"eps", "x", "l", "ax", "s">>
           at == [eps |-> 1, x |-> 2, l |-> 3, ax |-> 4, s |-> 5]
<1>8. \A k \in 1 .. (6 - 1) : b[k].name = Local(o, N[k]) /\ at[N[k]] = k
  BY <1>4, <1>6
<1>9. b[6].name = <<o>> /\ 6 \in Nat \ {0}
  BY <1>4
<1> HIDE DEF N, at
<1>10. Len(b) \in Nat \ {0} /\ b[Len(b)].name = <<o>> /\ Named(b, o, N, at)
  BY <1>2, <1>8, <1>9, Zenon DEF Named
<1>11. Neat(b, o, {in})
  BY <1>2, <1>7, <1>10, NeatIs
<1>12. FilesIn(b, {})
  BY <1>2, <1>4, <1>6, Zenon DEF FilesIn
<1>13. b[Len(b)].type = Row(s)
  BY <1>2, <1>4
<1>14. ASSUME c \in Nat \ {0} /\ s \in Nat \ {0}, NEW E, Full(E, in, c, s), Declared(E, b)
       PROVE  \A k \in 1 .. 6 : StatementOK(E, b[k])
  <2>1. \A k \in 1 .. 6 : /\ E[b[k].name].type = b[k].type
                          /\ (b[k].op = "attr" => E[b[k].name].val = b[k].val)
    BY <1>2, <1>14 DEF Declared
  <2>2. /\ E[b[1].name].type = b[1].type
        /\ E[b[2].name].type = b[2].type
        /\ E[b[3].name].type = b[3].type
        /\ E[b[4].name].type = b[4].type /\ E[b[4].name].val = b[4].val
        /\ E[b[5].name].type = b[5].type
        /\ E[b[6].name].type = b[6].type
    BY <1>4, <2>1
  <2>3. /\ E[Local(o, "eps")].type = Scalar
        /\ E[Local(o, "x")].type = T(c, s)
        /\ E[Local(o, "l")].type = T(c, s)
        /\ E[Local(o, "ax")].type = AttrType /\ E[Local(o, "ax")].val = 1
        /\ E[Local(o, "s")].type = Row(s)
    BY <1>4, <1>5, <2>2
  <2>4. Plainly("add") /\ Plainly("log") /\ Plainly("exp")
    BY DEF Plainly, Elementwise, Reductions, Consts, Comparing
  <2>5. StatementOK(E, b[1])
    BY <1>4, ConstChecks DEF Consts
  <2>6. StatementOK(E, b[2])
    BY <1>1, <1>14, <2>3, <2>4, ScalarType, FullIsSlim, BinaryChecks
  <2>7. StatementOK(E, b[3])
    BY <1>1, <1>14, <2>3, <2>4, FullType, ScalarType, BinaryChecks
  <2>8. StatementOK(E, b[4])
    BY <1>4, ConstChecks DEF Consts
  <2>9. StatementOK(E, b[5])
    BY <1>1, <1>14, <2>3, FullType, ReduceChecks, Zenon DEF Reductions
  <2>10. StatementOK(E, b[6])
    BY <1>1, <1>14, <2>3, <2>4, RowType, RowUnaryChecks
  <2> QED BY <1>6, <2>5, <2>6, <2>7, <2>8, <2>9, <2>10
<1>15. /\ Neat(b, o, {in}) /\ FilesIn(b, {}) /\ b[Len(b)].type = Row(s)
       /\ c \in Nat \ {0} /\ s \in Nat \ {0} =>
            \A E : Full(E, in, c, s) => Fine(b, E)
  BY <1>11, <1>12, <1>13, <1>14, <1>2, Zenon DEF Fine
<1> QED BY <1>15, Zenon DEF Pos, Makes, Row

\* SCATTER and its variants.
LEMMA ScatterStaticMaskFragment ==
    ASSUME NEW c, NEW s, NEW base, NEW updates, NEW f, NEW o, NEW b,
           b = scatter_static_mask_fragment(c, s, base, updates, <<o>>, f).body,
           Pos(c), Pos(s)
    PROVE  Makes2(b, o, base, updates, {<<f, <<1, c, 1, s>>>>}, c, s)
<1>1. /\ b[1] = File(T(c, s), Local(o, "m"), f)
      /\ b[2] = Lit(Local(o, "one"), Num(1))
      /\ b[3] = Let(T(c, s), Local(o, "inv"), "sub", <<Local(o, "one"), Local(o, "m")>>)
      /\ b[4] = Let(T(c, s), Local(o, "xb"), "mul", <<base, Local(o, "inv")>>)
      /\ b[5] = Let(T(c, s), Local(o, "uu"), "mul", <<updates, Local(o, "m")>>)
      /\ b[6] = Let(T(c, s), <<o>>, "add", <<Local(o, "xb"), Local(o, "uu")>>)
  BY DEF scatter_static_mask_fragment, Plain, Frag, Local
<1>2. Len(b) = 6 /\ Sequence(b)
  BY DEF scatter_static_mask_fragment, Plain, Frag, Sequence
<1>3. /\ Is(b[1], Local(o, "m"), T(c, s), "file", {})
      /\ Is(b[2], Local(o, "one"), Scalar, "lit", {})
      /\ Is(b[3], Local(o, "inv"), T(c, s), "sub", {Local(o, "one"), Local(o, "m")})
      /\ Is(b[4], Local(o, "xb"), T(c, s), "mul", {base, Local(o, "inv")})
      /\ Is(b[5], Local(o, "uu"), T(c, s), "mul", {updates, Local(o, "m")})
      /\ Is(b[6], <<o>>, T(c, s), "add", {Local(o, "xb"), Local(o, "uu")})
  BY <1>1, LetTwo, LitIs, FileIs
<1>4. /\ b[1].name = Local(o, "m") /\ b[1].type = T(c, s) /\ b[1].op = "file"
      /\ b[2].name = Local(o, "one") /\ b[2].type = Scalar /\ b[2].op = "lit"
      /\ b[3].name = Local(o, "inv") /\ b[3].type = T(c, s) /\ b[3].op = "sub"
      /\ b[4].name = Local(o, "xb") /\ b[4].type = T(c, s) /\ b[4].op = "mul"
      /\ b[5].name = Local(o, "uu") /\ b[5].type = T(c, s) /\ b[5].op = "mul"
      /\ b[6].name = <<o>> /\ b[6].type = T(c, s) /\ b[6].op = "add"
  BY <1>3 DEF Is
<1>5. /\ b[1].val = f
  BY <1>1, FileIs
<1>6. \A k \in 1 .. 6 : k \in {1, 2, 3, 4, 5, 6}
  OBVIOUS
<1>7. Supply(b, {base, updates})
  <2>1. /\ Fed(b, {base, updates}, 1)
        /\ Fed(b, {base, updates}, 2)
        /\ Fed(b, {base, updates}, 3)
        /\ Fed(b, {base, updates}, 4)
        /\ Fed(b, {base, updates}, 5)
        /\ Fed(b, {base, updates}, 6)
    BY <1>3, <1>4 DEF Is, Fed
  <2>2. \A k \in 1 .. 6 : Fed(b, {base, updates}, k)
    BY <1>6, <2>1
  <2> QED BY <1>2, <2>2, SupplyIs, Zenon
<1> DEFINE N == <<"m", "one", "inv", "xb", "uu">>
           at == [m |-> 1, one |-> 2, inv |-> 3, xb |-> 4, uu |-> 5]
<1>8. \A k \in 1 .. (6 - 1) : b[k].name = Local(o, N[k]) /\ at[N[k]] = k
  BY <1>4, <1>6
<1>9. b[6].name = <<o>> /\ 6 \in Nat \ {0}
  BY <1>4
<1> HIDE DEF N, at
<1>10. Len(b) \in Nat \ {0} /\ b[Len(b)].name = <<o>> /\ Named(b, o, N, at)
  BY <1>2, <1>8, <1>9, Zenon DEF Named
<1>11. Neat(b, o, {base, updates})
  BY <1>2, <1>7, <1>10, NeatIs
<1>12. FilesIn(b, {<<f, <<1, c, 1, s>>>>})
  <2>1. \A k \in 1 .. 6 : b[k].op = "file" => k \in {1}
    BY <1>6, <1>4
  <2>2. /\ <<b[1].val, b[1].type.dims>> \in {<<f, <<1, c, 1, s>>>>}
    BY <1>4, <1>5 DEF T, Fp16, Col, ConvW
  <2> QED BY <1>2, <2>1, <2>2, Zenon DEF FilesIn
<1>13. b[Len(b)].type = T(c, s)
  BY <1>2, <1>4, Zenon
<1>14. ASSUME c \in Nat \ {0} /\ s \in Nat \ {0}, NEW E, Full(E, base, c, s) /\ Full(E, updates, c, s), Declared(E, b)
       PROVE  \A k \in 1 .. 6 : StatementOK(E, b[k])
  <2>1. \A k \in 1 .. 6 : /\ E[b[k].name].type = b[k].type
                          /\ (b[k].op = "attr" => E[b[k].name].val = b[k].val)
    BY <1>2, <1>14 DEF Declared
  <2>2. /\ E[b[1].name].type = b[1].type
        /\ E[b[2].name].type = b[2].type
        /\ E[b[3].name].type = b[3].type
        /\ E[b[4].name].type = b[4].type
        /\ E[b[5].name].type = b[5].type
        /\ E[b[6].name].type = b[6].type
    BY <2>1
  <2>3. /\ E[Local(o, "m")].type = T(c, s)
        /\ E[Local(o, "one")].type = Scalar
        /\ E[Local(o, "inv")].type = T(c, s)
        /\ E[Local(o, "xb")].type = T(c, s)
        /\ E[Local(o, "uu")].type = T(c, s)
    BY <1>4, <2>2
  <2>4. Plainly("sub") /\ Plainly("mul") /\ Plainly("add")
    BY DEF Plainly, Elementwise, Reductions, Consts, Comparing
  <2>5. StatementOK(E, b[1])
    BY <1>4, ConstChecks DEF Consts
  <2>6. StatementOK(E, b[2])
    BY <1>4, ConstChecks DEF Consts
  <2>7. StatementOK(E, b[3])
    BY <1>1, <1>14, <2>3, <2>4, FullType, ScalarType, BinaryChecks
  <2>8. StatementOK(E, b[4])
    BY <1>1, <1>14, <2>3, <2>4, FullType, FullIsSlim, BinaryChecks
  <2>9. StatementOK(E, b[5])
    BY <1>1, <1>14, <2>3, <2>4, FullType, FullIsSlim, BinaryChecks
  <2>10. StatementOK(E, b[6])
    BY <1>1, <1>14, <2>3, <2>4, FullType, BinaryChecks
  <2> QED BY <1>6, <2>5, <2>6, <2>7, <2>8, <2>9, <2>10
<1>15. /\ Neat(b, o, {base, updates}) /\ FilesIn(b, {<<f, <<1, c, 1, s>>>>}) /\ b[Len(b)].type = T(c, s)
       /\ c \in Nat \ {0} /\ s \in Nat \ {0} =>
            \A E : Full(E, base, c, s) /\ Full(E, updates, c, s) => Fine(b, E)
  BY <1>11, <1>12, <1>13, <1>14, <1>2, Zenon DEF Fine
<1> QED BY <1>15, Zenon DEF Pos, Makes2

\* GATHER with a mask of the caller.
LEMMA GatherStaticMaskFragment ==
    ASSUME NEW c, NEW s, NEW in, NEW f, NEW o, NEW b,
           b = gather_static_mask_fragment(c, s, in, <<o>>, f).body,
           Pos(c), Pos(s)
    PROVE  Makes(b, o, in, {<<f, <<1, c, 1, s>>>>}, c, s, c, s)
<1>1. /\ b[1] = File(T(c, s), Local(o, "m"), f)
      /\ b[2] = Let(T(c, s), <<o>>, "mul", <<in, Local(o, "m")>>)
  BY DEF gather_static_mask_fragment, Plain, Frag, Local
<1>2. Len(b) = 2 /\ Sequence(b)
  BY DEF gather_static_mask_fragment, Plain, Frag, Sequence
<1>3. /\ Is(b[1], Local(o, "m"), T(c, s), "file", {})
      /\ Is(b[2], <<o>>, T(c, s), "mul", {in, Local(o, "m")})
  BY <1>1, LetTwo, FileIs
<1>4. /\ b[1].name = Local(o, "m") /\ b[1].type = T(c, s) /\ b[1].op = "file"
      /\ b[2].name = <<o>> /\ b[2].type = T(c, s) /\ b[2].op = "mul"
  BY <1>3 DEF Is
<1>5. /\ b[1].val = f
  BY <1>1, FileIs
<1>6. \A k \in 1 .. 2 : k \in {1, 2}
  OBVIOUS
<1>7. Supply(b, {in})
  <2>1. /\ Fed(b, {in}, 1)
        /\ Fed(b, {in}, 2)
    BY <1>3, <1>4 DEF Is, Fed
  <2>2. \A k \in 1 .. 2 : Fed(b, {in}, k)
    BY <1>6, <2>1
  <2> QED BY <1>2, <2>2, SupplyIs, Zenon
<1> DEFINE N == <<"m">>
           at == [m |-> 1]
<1>8. \A k \in 1 .. (2 - 1) : b[k].name = Local(o, N[k]) /\ at[N[k]] = k
  BY <1>4, <1>6
<1>9. b[2].name = <<o>> /\ 2 \in Nat \ {0}
  BY <1>4
<1> HIDE DEF N, at
<1>10. Len(b) \in Nat \ {0} /\ b[Len(b)].name = <<o>> /\ Named(b, o, N, at)
  BY <1>2, <1>8, <1>9, Zenon DEF Named
<1>11. Neat(b, o, {in})
  BY <1>2, <1>7, <1>10, NeatIs
<1>12. FilesIn(b, {<<f, <<1, c, 1, s>>>>})
  <2>1. \A k \in 1 .. 2 : b[k].op = "file" => k \in {1}
    BY <1>6, <1>4
  <2>2. /\ <<b[1].val, b[1].type.dims>> \in {<<f, <<1, c, 1, s>>>>}
    BY <1>4, <1>5 DEF T, Fp16, Col, ConvW
  <2> QED BY <1>2, <2>1, <2>2, Zenon DEF FilesIn
<1>13. b[Len(b)].type = T(c, s)
  BY <1>2, <1>4
<1>14. ASSUME c \in Nat \ {0} /\ s \in Nat \ {0}, NEW E, Full(E, in, c, s), Declared(E, b)
       PROVE  \A k \in 1 .. 2 : StatementOK(E, b[k])
  <2>1. \A k \in 1 .. 2 : /\ E[b[k].name].type = b[k].type
                          /\ (b[k].op = "attr" => E[b[k].name].val = b[k].val)
    BY <1>2, <1>14 DEF Declared
  <2>2. /\ E[b[1].name].type = b[1].type
        /\ E[b[2].name].type = b[2].type
    BY <2>1
  <2>3. /\ E[Local(o, "m")].type = T(c, s)
    BY <1>4, <2>2
  <2>4. Plainly("mul")
    BY DEF Plainly, Elementwise, Reductions, Consts, Comparing
  <2>5. StatementOK(E, b[1])
    BY <1>4, ConstChecks DEF Consts
  <2>6. StatementOK(E, b[2])
    BY <1>1, <1>14, <2>3, <2>4, FullType, FullIsSlim, BinaryChecks
  <2> QED BY <1>6, <2>5, <2>6
<1>15. /\ Neat(b, o, {in}) /\ FilesIn(b, {<<f, <<1, c, 1, s>>>>}) /\ b[Len(b)].type = T(c, s)
       /\ c \in Nat \ {0} /\ s \in Nat \ {0} =>
            \A E : Full(E, in, c, s) => Fine(b, E)
  BY <1>11, <1>12, <1>13, <1>14, <1>2, Zenon DEF Fine
<1> QED BY <1>15, Zenon DEF Pos, Makes

\* LOGICAL_AND.
LEMMA LogicalAndFragment ==
    ASSUME NEW c, NEW s, NEW in, NEW arg, NEW o, NEW b,
           b = logical_and_fragment(c, s, in, arg, <<o>>).body,
           Pos(c), Pos(s)
    PROVE  Makes2(b, o, in, arg, {}, c, s)
<1>1. /\ b[1] = Let(TB(c, s), Local(o, "xb"), "bool", <<in>>)
      /\ b[2] = Let(TB(c, s), Local(o, "yb"), "bool", <<arg>>)
      /\ b[3] = Let(T(c, s), Local(o, "xf"), "fp16", <<Local(o, "xb")>>)
      /\ b[4] = Let(T(c, s), Local(o, "yf"), "fp16", <<Local(o, "yb")>>)
      /\ b[5] = Let(T(c, s), <<o>>, "mul", <<Local(o, "xf"), Local(o, "yf")>>)
  BY DEF logical_and_fragment, FragMasks, Plain, Frag, Local
<1>2. Len(b) = 5 /\ Sequence(b)
  BY DEF logical_and_fragment, FragMasks, Plain, Frag, Sequence
<1>3. /\ Is(b[1], Local(o, "xb"), TB(c, s), "bool", {in})
      /\ Is(b[2], Local(o, "yb"), TB(c, s), "bool", {arg})
      /\ Is(b[3], Local(o, "xf"), T(c, s), "fp16", {Local(o, "xb")})
      /\ Is(b[4], Local(o, "yf"), T(c, s), "fp16", {Local(o, "yb")})
      /\ Is(b[5], <<o>>, T(c, s), "mul", {Local(o, "xf"), Local(o, "yf")})
  BY <1>1, LetOne, LetTwo
<1>4. /\ b[1].name = Local(o, "xb") /\ b[1].type = TB(c, s) /\ b[1].op = "bool"
      /\ b[2].name = Local(o, "yb") /\ b[2].type = TB(c, s) /\ b[2].op = "bool"
      /\ b[3].name = Local(o, "xf") /\ b[3].type = T(c, s) /\ b[3].op = "fp16"
      /\ b[4].name = Local(o, "yf") /\ b[4].type = T(c, s) /\ b[4].op = "fp16"
      /\ b[5].name = <<o>> /\ b[5].type = T(c, s) /\ b[5].op = "mul"
  BY <1>3 DEF Is
<1>5. \A k \in 1 .. 5 : k \in {1, 2, 3, 4, 5}
  OBVIOUS
<1>6. Supply(b, {in, arg})
  <2>1. /\ Fed(b, {in, arg}, 1)
        /\ Fed(b, {in, arg}, 2)
        /\ Fed(b, {in, arg}, 3)
        /\ Fed(b, {in, arg}, 4)
        /\ Fed(b, {in, arg}, 5)
    BY <1>3, <1>4 DEF Is, Fed
  <2>2. \A k \in 1 .. 5 : Fed(b, {in, arg}, k)
    BY <1>5, <2>1
  <2> QED BY <1>2, <2>2, SupplyIs, Zenon
<1> DEFINE N == <<"xb", "yb", "xf", "yf">>
           at == [xb |-> 1, yb |-> 2, xf |-> 3, yf |-> 4]
<1>7. \A k \in 1 .. (5 - 1) : b[k].name = Local(o, N[k]) /\ at[N[k]] = k
  BY <1>4, <1>5
<1>8. b[5].name = <<o>> /\ 5 \in Nat \ {0}
  BY <1>4
<1> HIDE DEF N, at
<1>9. Len(b) \in Nat \ {0} /\ b[Len(b)].name = <<o>> /\ Named(b, o, N, at)
  BY <1>2, <1>7, <1>8, Zenon DEF Named
<1>10. Neat(b, o, {in, arg})
  BY <1>2, <1>6, <1>9, NeatIs
<1>11. FilesIn(b, {})
  BY <1>2, <1>4, <1>5 DEF FilesIn
<1>12. b[Len(b)].type = T(c, s)
  BY <1>2, <1>4
<1>13. ASSUME c \in Nat \ {0} /\ s \in Nat \ {0}, NEW E, Full(E, in, c, s) /\ Full(E, arg, c, s), Declared(E, b)
       PROVE  \A k \in 1 .. 5 : StatementOK(E, b[k])
  <2>1. \A k \in 1 .. 5 : /\ E[b[k].name].type = b[k].type
                          /\ (b[k].op = "attr" => E[b[k].name].val = b[k].val)
    BY <1>2, <1>13 DEF Declared
  <2>2. /\ E[b[1].name].type = b[1].type
        /\ E[b[2].name].type = b[2].type
        /\ E[b[3].name].type = b[3].type
        /\ E[b[4].name].type = b[4].type
        /\ E[b[5].name].type = b[5].type
    BY <2>1
  <2>3. /\ E[Local(o, "xb")].type = TB(c, s)
        /\ E[Local(o, "yb")].type = TB(c, s)
        /\ E[Local(o, "xf")].type = T(c, s)
        /\ E[Local(o, "yf")].type = T(c, s)
    BY <1>4, <2>2
  <2>4. Plainly("fp16") /\ Plainly("mul")
    BY DEF Plainly, Elementwise, Reductions, Consts, Comparing
  <2>5. StatementOK(E, b[1])
    BY <1>1, <1>13, <2>3, FullIsSlim, BoolChecks
  <2>6. StatementOK(E, b[2])
    BY <1>1, <1>13, <2>3, FullIsSlim, BoolChecks
  <2>7. StatementOK(E, b[3])
    BY <1>1, <1>13, <2>3, <2>4, BoolType, UnaryChecks
  <2>8. StatementOK(E, b[4])
    BY <1>1, <1>13, <2>3, <2>4, BoolType, UnaryChecks
  <2>9. StatementOK(E, b[5])
    BY <1>1, <1>13, <2>3, <2>4, FullType, BinaryChecks
  <2> QED BY <1>5, <2>5, <2>6, <2>7, <2>8, <2>9
<1>14. /\ Neat(b, o, {in, arg}) /\ FilesIn(b, {}) /\ b[Len(b)].type = T(c, s)
       /\ c \in Nat \ {0} /\ s \in Nat \ {0} =>
            \A E : Full(E, in, c, s) /\ Full(E, arg, c, s) => Fine(b, E)
  BY <1>10, <1>11, <1>12, <1>13, <1>2, Zenon DEF Fine
<1> QED BY <1>14, Zenon DEF Pos, Makes2

\* LOGICAL_OR.
LEMMA LogicalOrFragment ==
    ASSUME NEW c, NEW s, NEW in, NEW arg, NEW o, NEW b,
           b = logical_or_fragment(c, s, in, arg, <<o>>).body,
           Pos(c), Pos(s)
    PROVE  Makes2(b, o, in, arg, {}, c, s)
<1>1. /\ b[1] = Let(TB(c, s), Local(o, "xb"), "bool", <<in>>)
      /\ b[2] = Let(TB(c, s), Local(o, "yb"), "bool", <<arg>>)
      /\ b[3] = Let(T(c, s), Local(o, "xf"), "fp16", <<Local(o, "xb")>>)
      /\ b[4] = Let(T(c, s), Local(o, "yf"), "fp16", <<Local(o, "yb")>>)
      /\ b[5] = Let(T(c, s), <<o>>, "maximum", <<Local(o, "xf"), Local(o, "yf")>>)
  BY DEF logical_or_fragment, FragMasks, Plain, Frag, Local
<1>2. Len(b) = 5 /\ Sequence(b)
  BY DEF logical_or_fragment, FragMasks, Plain, Frag, Sequence
<1>3. /\ Is(b[1], Local(o, "xb"), TB(c, s), "bool", {in})
      /\ Is(b[2], Local(o, "yb"), TB(c, s), "bool", {arg})
      /\ Is(b[3], Local(o, "xf"), T(c, s), "fp16", {Local(o, "xb")})
      /\ Is(b[4], Local(o, "yf"), T(c, s), "fp16", {Local(o, "yb")})
      /\ Is(b[5], <<o>>, T(c, s), "maximum", {Local(o, "xf"), Local(o, "yf")})
  BY <1>1, LetOne, LetTwo
<1>4. /\ b[1].name = Local(o, "xb") /\ b[1].type = TB(c, s) /\ b[1].op = "bool"
      /\ b[2].name = Local(o, "yb") /\ b[2].type = TB(c, s) /\ b[2].op = "bool"
      /\ b[3].name = Local(o, "xf") /\ b[3].type = T(c, s) /\ b[3].op = "fp16"
      /\ b[4].name = Local(o, "yf") /\ b[4].type = T(c, s) /\ b[4].op = "fp16"
      /\ b[5].name = <<o>> /\ b[5].type = T(c, s) /\ b[5].op = "maximum"
  BY <1>3 DEF Is
<1>5. \A k \in 1 .. 5 : k \in {1, 2, 3, 4, 5}
  OBVIOUS
<1>6. Supply(b, {in, arg})
  <2>1. /\ Fed(b, {in, arg}, 1)
        /\ Fed(b, {in, arg}, 2)
        /\ Fed(b, {in, arg}, 3)
        /\ Fed(b, {in, arg}, 4)
        /\ Fed(b, {in, arg}, 5)
    BY <1>3, <1>4 DEF Is, Fed
  <2>2. \A k \in 1 .. 5 : Fed(b, {in, arg}, k)
    BY <1>5, <2>1
  <2> QED BY <1>2, <2>2, SupplyIs, Zenon
<1> DEFINE N == <<"xb", "yb", "xf", "yf">>
           at == [xb |-> 1, yb |-> 2, xf |-> 3, yf |-> 4]
<1>7. \A k \in 1 .. (5 - 1) : b[k].name = Local(o, N[k]) /\ at[N[k]] = k
  BY <1>4, <1>5
<1>8. b[5].name = <<o>> /\ 5 \in Nat \ {0}
  BY <1>4
<1> HIDE DEF N, at
<1>9. Len(b) \in Nat \ {0} /\ b[Len(b)].name = <<o>> /\ Named(b, o, N, at)
  BY <1>2, <1>7, <1>8, Zenon DEF Named
<1>10. Neat(b, o, {in, arg})
  BY <1>2, <1>6, <1>9, NeatIs
<1>11. FilesIn(b, {})
  BY <1>2, <1>4, <1>5 DEF FilesIn
<1>12. b[Len(b)].type = T(c, s)
  BY <1>2, <1>4
<1>13. ASSUME c \in Nat \ {0} /\ s \in Nat \ {0}, NEW E, Full(E, in, c, s) /\ Full(E, arg, c, s), Declared(E, b)
       PROVE  \A k \in 1 .. 5 : StatementOK(E, b[k])
  <2>1. \A k \in 1 .. 5 : /\ E[b[k].name].type = b[k].type
                          /\ (b[k].op = "attr" => E[b[k].name].val = b[k].val)
    BY <1>2, <1>13 DEF Declared
  <2>2. /\ E[b[1].name].type = b[1].type
        /\ E[b[2].name].type = b[2].type
        /\ E[b[3].name].type = b[3].type
        /\ E[b[4].name].type = b[4].type
        /\ E[b[5].name].type = b[5].type
    BY <2>1
  <2>3. /\ E[Local(o, "xb")].type = TB(c, s)
        /\ E[Local(o, "yb")].type = TB(c, s)
        /\ E[Local(o, "xf")].type = T(c, s)
        /\ E[Local(o, "yf")].type = T(c, s)
    BY <1>4, <2>2
  <2>4. Plainly("fp16") /\ Plainly("maximum")
    BY DEF Plainly, Elementwise, Reductions, Consts, Comparing
  <2>5. StatementOK(E, b[1])
    BY <1>1, <1>13, <2>3, FullIsSlim, BoolChecks
  <2>6. StatementOK(E, b[2])
    BY <1>1, <1>13, <2>3, FullIsSlim, BoolChecks
  <2>7. StatementOK(E, b[3])
    BY <1>1, <1>13, <2>3, <2>4, BoolType, UnaryChecks
  <2>8. StatementOK(E, b[4])
    BY <1>1, <1>13, <2>3, <2>4, BoolType, UnaryChecks
  <2>9. StatementOK(E, b[5])
    BY <1>1, <1>13, <2>3, <2>4, FullType, BinaryChecks
  <2> QED BY <1>5, <2>5, <2>6, <2>7, <2>8, <2>9
<1>14. /\ Neat(b, o, {in, arg}) /\ FilesIn(b, {}) /\ b[Len(b)].type = T(c, s)
       /\ c \in Nat \ {0} /\ s \in Nat \ {0} =>
            \A E : Full(E, in, c, s) /\ Full(E, arg, c, s) => Fine(b, E)
  BY <1>10, <1>11, <1>12, <1>13, <1>2, Zenon DEF Fine
<1> QED BY <1>14, Zenon DEF Pos, Makes2

\* LOGICAL_XOR.
LEMMA LogicalXorFragment ==
    ASSUME NEW c, NEW s, NEW in, NEW arg, NEW o, NEW b,
           b = logical_xor_fragment(c, s, in, arg, <<o>>).body,
           Pos(c), Pos(s)
    PROVE  Makes2(b, o, in, arg, {}, c, s)
<1>1. /\ b[1] = Let(TB(c, s), Local(o, "xb"), "bool", <<in>>)
      /\ b[2] = Let(TB(c, s), Local(o, "yb"), "bool", <<arg>>)
      /\ b[3] = Let(T(c, s), Local(o, "xf"), "fp16", <<Local(o, "xb")>>)
      /\ b[4] = Let(T(c, s), Local(o, "yf"), "fp16", <<Local(o, "yb")>>)
      /\ b[5] = Let(TB(c, s), Local(o, "zb"), "not_equal", <<Local(o, "xf"), Local(o, "yf")>>)
      /\ b[6] = Let(T(c, s), <<o>>, "fp16", <<Local(o, "zb")>>)
  BY DEF logical_xor_fragment, FragMasks, Plain, Frag, Local
<1>2. Len(b) = 6 /\ Sequence(b)
  BY DEF logical_xor_fragment, FragMasks, Plain, Frag, Sequence
<1>3. /\ Is(b[1], Local(o, "xb"), TB(c, s), "bool", {in})
      /\ Is(b[2], Local(o, "yb"), TB(c, s), "bool", {arg})
      /\ Is(b[3], Local(o, "xf"), T(c, s), "fp16", {Local(o, "xb")})
      /\ Is(b[4], Local(o, "yf"), T(c, s), "fp16", {Local(o, "yb")})
      /\ Is(b[5], Local(o, "zb"), TB(c, s), "not_equal", {Local(o, "xf"), Local(o, "yf")})
      /\ Is(b[6], <<o>>, T(c, s), "fp16", {Local(o, "zb")})
  BY <1>1, LetOne, LetTwo
<1>4. /\ b[1].name = Local(o, "xb") /\ b[1].type = TB(c, s) /\ b[1].op = "bool"
      /\ b[2].name = Local(o, "yb") /\ b[2].type = TB(c, s) /\ b[2].op = "bool"
      /\ b[3].name = Local(o, "xf") /\ b[3].type = T(c, s) /\ b[3].op = "fp16"
      /\ b[4].name = Local(o, "yf") /\ b[4].type = T(c, s) /\ b[4].op = "fp16"
      /\ b[5].name = Local(o, "zb") /\ b[5].type = TB(c, s) /\ b[5].op = "not_equal"
      /\ b[6].name = <<o>> /\ b[6].type = T(c, s) /\ b[6].op = "fp16"
  BY <1>3 DEF Is
<1>5. \A k \in 1 .. 6 : k \in {1, 2, 3, 4, 5, 6}
  OBVIOUS
<1>6. Supply(b, {in, arg})
  <2>1. /\ Fed(b, {in, arg}, 1)
        /\ Fed(b, {in, arg}, 2)
        /\ Fed(b, {in, arg}, 3)
        /\ Fed(b, {in, arg}, 4)
        /\ Fed(b, {in, arg}, 5)
        /\ Fed(b, {in, arg}, 6)
    BY <1>3, <1>4 DEF Is, Fed
  <2>2. \A k \in 1 .. 6 : Fed(b, {in, arg}, k)
    BY <1>5, <2>1
  <2> QED BY <1>2, <2>2, SupplyIs, Zenon
<1> DEFINE N == <<"xb", "yb", "xf", "yf", "zb">>
           at == [xb |-> 1, yb |-> 2, xf |-> 3, yf |-> 4, zb |-> 5]
<1>7. \A k \in 1 .. (6 - 1) : b[k].name = Local(o, N[k]) /\ at[N[k]] = k
  BY <1>4, <1>5
<1>8. b[6].name = <<o>> /\ 6 \in Nat \ {0}
  BY <1>4
<1> HIDE DEF N, at
<1>9. Len(b) \in Nat \ {0} /\ b[Len(b)].name = <<o>> /\ Named(b, o, N, at)
  BY <1>2, <1>7, <1>8, Zenon DEF Named
<1>10. Neat(b, o, {in, arg})
  BY <1>2, <1>6, <1>9, NeatIs
<1>11. FilesIn(b, {})
  BY <1>2, <1>4, <1>5, Zenon DEF FilesIn
<1>12. b[Len(b)].type = T(c, s)
  BY <1>2, <1>4
<1>13. ASSUME c \in Nat \ {0} /\ s \in Nat \ {0}, NEW E, Full(E, in, c, s) /\ Full(E, arg, c, s), Declared(E, b)
       PROVE  \A k \in 1 .. 6 : StatementOK(E, b[k])
  <2>1. \A k \in 1 .. 6 : /\ E[b[k].name].type = b[k].type
                          /\ (b[k].op = "attr" => E[b[k].name].val = b[k].val)
    BY <1>2, <1>13, Zenon DEF Declared
  <2>2. /\ E[b[1].name].type = b[1].type
        /\ E[b[2].name].type = b[2].type
        /\ E[b[3].name].type = b[3].type
        /\ E[b[4].name].type = b[4].type
        /\ E[b[5].name].type = b[5].type
        /\ E[b[6].name].type = b[6].type
    BY <2>1
  <2>3. /\ E[Local(o, "xb")].type = TB(c, s)
        /\ E[Local(o, "yb")].type = TB(c, s)
        /\ E[Local(o, "xf")].type = T(c, s)
        /\ E[Local(o, "yf")].type = T(c, s)
        /\ E[Local(o, "zb")].type = TB(c, s)
    BY <1>4, <2>2
  <2>4. Plainly("fp16")
    BY DEF Plainly, Elementwise, Reductions, Consts, Comparing
  <2>5. StatementOK(E, b[1])
    BY <1>1, <1>13, <2>3, FullIsSlim, BoolChecks
  <2>6. StatementOK(E, b[2])
    BY <1>1, <1>13, <2>3, FullIsSlim, BoolChecks
  <2>7. StatementOK(E, b[3])
    BY <1>1, <1>13, <2>3, <2>4, BoolType, UnaryChecks
  <2>8. StatementOK(E, b[4])
    BY <1>1, <1>13, <2>3, <2>4, BoolType, UnaryChecks
  <2>9. StatementOK(E, b[5])
    BY <1>1, <1>13, <2>3, FullType, CompareChecks
  <2>10. StatementOK(E, b[6])
    BY <1>1, <1>13, <2>3, <2>4, BoolType, UnaryChecks
  <2> QED BY <1>5, <2>5, <2>6, <2>7, <2>8, <2>9, <2>10
<1>14. /\ Neat(b, o, {in, arg}) /\ FilesIn(b, {}) /\ b[Len(b)].type = T(c, s)
       /\ c \in Nat \ {0} /\ s \in Nat \ {0} =>
            \A E : Full(E, in, c, s) /\ Full(E, arg, c, s) => Fine(b, E)
  BY <1>10, <1>11, <1>12, <1>13, <1>2, Zenon DEF Fine
<1> QED BY <1>14, Zenon DEF Pos, Makes2

-----------------------------------------------------------------------------
(* One body after another                                                   *)

LEMMA JoinIs ==
    ASSUME NEW a, NEW b, Sequence(a), Sequence(b), Len(a) \in Nat, Len(b) \in Nat
    PROVE  /\ Len(a \o b) = Len(a) + Len(b) /\ Sequence(a \o b)
           /\ \A k \in 1 .. Len(a) : (a \o b)[k] = a[k]
           /\ \A k \in 1 .. Len(b) : (a \o b)[Len(a) + k] = b[k]
<1> DEFINE Z == {a[k] : k \in DOMAIN a} \cup {b[k] : k \in DOMAIN b}
<1>1. a \in Seq({a[k] : k \in DOMAIN a}) /\ b \in Seq({b[k] : k \in DOMAIN b})
  BY SequenceIs
<1>2. \A X, Y : \A x \in Seq(X) : x \in Seq(X \cup Y) /\ x \in Seq(Y \cup X)
  OBVIOUS
<1>3. a \in Seq(Z) /\ b \in Seq(Z)
  BY <1>1, <1>2
<1> HIDE DEF Z
<1>4. a \o b \in Seq(Z)
  BY <1>3
<1>5. Sequence(a \o b)
  <2> DEFINE c == a \o b
  <2>1. c \in Seq(Z)
    BY <1>4
  <2> HIDE DEF c
  <2>2. c = [k \in 1 .. Len(c) |-> c[k]]
    BY <2>1
  <2> QED BY <2>2 DEF c, Sequence
<1>6. Len(a \o b) = Len(a) + Len(b)
  BY <1>3
<1>7. \A k \in 1 .. Len(a) : (a \o b)[k] = a[k]
  BY <1>3
<1>8. ASSUME NEW k \in 1 .. Len(b) PROVE (a \o b)[Len(a) + k] = b[k]
  <2>1. Len(a) \in Nat /\ Len(b) \in Nat
    BY <1>3
  <2>2. Len(a) + k \in 1 .. (Len(a) + Len(b)) /\ ~(Len(a) + k <= Len(a)) /\ (Len(a) + k) - Len(a) = k
    BY <2>1
  <2> QED BY <1>3, <2>2
<1> QED BY <1>5, <1>6, <1>7, <1>8

\* The body ab is a followed by b.
Joined(ab, a, b) ==
    /\ Len(a) \in Nat /\ Len(b) \in Nat /\ Len(ab) = Len(a) + Len(b) /\ Sequence(ab)
    /\ \A k \in 1 .. Len(a) : ab[k] = a[k]
    /\ \A k \in 1 .. Len(b) : ab[Len(a) + k] = b[k]

LEMMA JoinedIs ==
    ASSUME NEW a, NEW b, Sequence(a), Sequence(b), Len(a) \in Nat, Len(b) \in Nat
    PROVE  Joined(a \o b, a, b)
BY JoinIs DEF Joined

\* Every statement of ab is one of a or of b.
LEMMA JoinedSplit ==
    ASSUME NEW ab, NEW a, NEW b, Joined(ab, a, b)
    PROVE  \A k \in 1 .. Len(ab) :
             \/ k \in 1 .. Len(a) /\ ab[k] = a[k]
             \/ \E l \in 1 .. Len(b) : k = Len(a) + l /\ ab[k] = b[l]
<1> TAKE k \in 1 .. Len(ab)
<1>1. /\ Len(a) \in Nat /\ Len(b) \in Nat /\ Len(ab) = Len(a) + Len(b)
      /\ \A j \in 1 .. Len(a) : ab[j] = a[j]
      /\ \A j \in 1 .. Len(b) : ab[Len(a) + j] = b[j]
  BY DEF Joined
<1>2. CASE k <= Len(a)
  <2>1. k \in 1 .. Len(a)
    BY <1>1, <1>2
  <2> QED BY <1>1, <2>1
<1>3. CASE ~(k <= Len(a))
  <2>1. k - Len(a) \in 1 .. Len(b) /\ k = Len(a) + (k - Len(a))
    BY <1>1, <1>3
  <2>2. ab[Len(a) + (k - Len(a))] = b[k - Len(a)]
    BY <1>1, <2>1
  <2> QED BY <2>1, <2>2
<1> QED BY <1>2, <1>3

LEMMA JoinedApart ==
    ASSUME NEW ab, NEW a, NEW b, Joined(ab, a, b), Apart(a), Apart(b),
           \A k \in 1 .. Len(a), l \in 1 .. Len(b) : a[k].name # b[l].name
    PROVE  Apart(ab)
<1> SUFFICES ASSUME NEW k \in 1 .. Len(ab), NEW l \in 1 .. Len(ab), ab[k].name = ab[l].name
             PROVE  k = l
  BY DEF Apart
<1>1. ASSUME NEW m \in 1 .. Len(ab)
      PROVE  \/ m \in 1 .. Len(a) /\ ab[m] = a[m]
             \/ \E i \in 1 .. Len(b) : m = Len(a) + i /\ ab[m] = b[i]
  BY JoinedSplit
<1>2. CASE k \in 1 .. Len(a) /\ ab[k] = a[k]
  <2>1. CASE l \in 1 .. Len(a) /\ ab[l] = a[l]
    BY <1>2, <2>1 DEF Apart
  <2>2. ASSUME NEW i \in 1 .. Len(b), ab[l] = b[i] PROVE FALSE
    BY <1>2, <2>2
  <2> QED BY <1>1, <2>1, <2>2
<1>3. ASSUME NEW i \in 1 .. Len(b), k = Len(a) + i, ab[k] = b[i] PROVE k = l
  <2>1. CASE l \in 1 .. Len(a) /\ ab[l] = a[l]
    BY <1>3, <2>1
  <2>2. ASSUME NEW j \in 1 .. Len(b), l = Len(a) + j, ab[l] = b[j] PROVE i = j
    BY <1>3, <2>2 DEF Apart
  <2> QED BY <1>1, <1>3, <2>1, <2>2
<1> QED BY <1>1, <1>2, <1>3

LEMMA JoinedSupply ==
    ASSUME NEW ab, NEW a, NEW b, Joined(ab, a, b), NEW from, Supply(a, from), NEW to, Supply(b, to),
           \A n \in to : n \in from \/ \E l \in 1 .. Len(a) : a[l].name = n
    PROVE  Supply(ab, from)
<1> SUFFICES ASSUME NEW k \in 1 .. Len(ab), NEW n \in Reads(ab[k]), n \notin from
             PROVE  \E l \in 1 .. (k - 1) : ab[l].name = n
  BY DEF Supply
<1>0. /\ Len(a) \in Nat /\ Len(b) \in Nat /\ Len(ab) = Len(a) + Len(b)
      /\ \A j \in 1 .. Len(a) : ab[j] = a[j]
      /\ \A j \in 1 .. Len(b) : ab[Len(a) + j] = b[j]
  BY DEF Joined
<1>1. CASE k \in 1 .. Len(a) /\ ab[k] = a[k]
  <2>1. PICK l \in 1 .. (k - 1) : a[l].name = n
    BY <1>1 DEF Supply
  <2>2. l \in 1 .. Len(a)
    BY <1>0, <1>1
  <2> QED BY <1>0, <2>1, <2>2
<1>2. ASSUME NEW i \in 1 .. Len(b), k = Len(a) + i, ab[k] = b[i]
      PROVE  \E l \in 1 .. (k - 1) : ab[l].name = n
  <2>1. CASE \E l \in 1 .. Len(a) : a[l].name = n
    <3>1. PICK l \in 1 .. Len(a) : a[l].name = n
      BY <2>1
    <3>2. l \in 1 .. (k - 1)
      BY <1>0, <1>2
    <3> QED BY <1>0, <3>1, <3>2, Zenon
  <2>2. CASE \E l \in 1 .. (i - 1) : b[l].name = n
    <3>1. PICK l \in 1 .. (i - 1) : b[l].name = n
      BY <2>2
    <3>2. l \in 1 .. Len(b) /\ Len(a) + l \in 1 .. (k - 1)
      BY <1>0, <1>2
    <3> QED BY <1>0, <3>1, <3>2, Zenon
  <2>3. n \in to \/ \E l \in 1 .. (i - 1) : b[l].name = n
    BY <1>2 DEF Supply
  <2> QED BY <2>1, <2>2, <2>3
<1> QED BY <1>1, <1>2, JoinedSplit

-----------------------------------------------------------------------------
(* PWL_ACTIVATION, whose length depends on the count of samples             *)

\* The local variable m of segment i of the fragment for o.
Tag(o, m, i) == <<o>> \o <<m, i>>

LEMMA TagIs ==
    ASSUME NEW o, NEW m, NEW i
    PROVE  /\ Tag(o, m, i)[1] = o /\ Tag(o, m, i)[2] = m /\ Tag(o, m, i)[3] = i
           /\ Tag(o, m, i) # <<o>>
<1> DEFINE a == <<o>>
           b == <<m, i>>
<1>1. /\ Len(a) = 1 /\ Len(b) = 2 /\ a[1] = o /\ b[1] = m /\ b[2] = i
      /\ Sequence(a) /\ Sequence(b)
  BY DEF Sequence
<1> HIDE DEF a, b
<1>2. (a \o b)[1] = o /\ (a \o b)[2] = m /\ (a \o b)[3] = i /\ Len(a \o b) = 3
  <2>1. /\ Len(a \o b) = Len(a) + Len(b)
        /\ \A k \in 1 .. Len(a) : (a \o b)[k] = a[k]
        /\ \A k \in 1 .. Len(b) : (a \o b)[Len(a) + k] = b[k]
    <3>1. Len(a) \in Nat /\ Len(b) \in Nat
      BY <1>1
    <3>2. Sequence(a) /\ Sequence(b)
      BY <1>1
    <3> QED BY <3>1, <3>2, JoinIs
  <2>2. (a \o b)[1] = a[1] /\ (a \o b)[1 + 1] = b[1] /\ (a \o b)[1 + 2] = b[2]
    BY <1>1, <2>1
  <2> QED BY <1>1, <2>1, <2>2
<1>3. /\ Tag(o, m, i)[1] = o /\ Tag(o, m, i)[2] = m /\ Tag(o, m, i)[3] = i
      /\ Len(Tag(o, m, i)) = 3 /\ Len(<<o>>) = 1
  BY <1>1, <1>2 DEF Tag, a, b
<1>4. Tag(o, m, i) # <<o>>
  BY <1>3
<1> QED BY <1>3, <1>4

LEMMA JoinedFine ==
    ASSUME NEW ab, NEW a, NEW b, Joined(ab, a, b), NEW E, Declared(E, ab)
    PROVE  /\ Declared(E, a) /\ Declared(E, b)
           /\ (\A k \in 1 .. Len(a) : StatementOK(E, a[k])) /\ (\A k \in 1 .. Len(b) : StatementOK(E, b[k]))
                => \A k \in 1 .. Len(ab) : StatementOK(E, ab[k])
<1>0. /\ Len(a) \in Nat /\ Len(b) \in Nat /\ Len(ab) = Len(a) + Len(b)
      /\ \A j \in 1 .. Len(a) : ab[j] = a[j]
      /\ \A j \in 1 .. Len(b) : ab[Len(a) + j] = b[j]
  BY DEF Joined
<1>1. Declared(E, a)
  <2> SUFFICES ASSUME NEW k \in 1 .. Len(a)
               PROVE  /\ E[a[k].name].type = a[k].type
                      /\ a[k].op = "attr" => E[a[k].name].val = a[k].val
    BY DEF Declared
  <2>1. k \in 1 .. Len(ab) /\ ab[k] = a[k]
    BY <1>0
  <2> QED BY <2>1 DEF Declared
<1>2. Declared(E, b)
  <2> SUFFICES ASSUME NEW k \in 1 .. Len(b)
               PROVE  /\ E[b[k].name].type = b[k].type
                      /\ b[k].op = "attr" => E[b[k].name].val = b[k].val
    BY DEF Declared
  <2>1. Len(a) + k \in 1 .. Len(ab) /\ ab[Len(a) + k] = b[k]
    BY <1>0
  <2> DEFINE l == Len(a) + k
  <2>2. l \in 1 .. Len(ab) /\ ab[l] = b[k]
    BY <2>1
  <2> HIDE DEF l
  <2> QED BY <2>2 DEF Declared
<1>3. ASSUME \A k \in 1 .. Len(a) : StatementOK(E, a[k]), \A k \in 1 .. Len(b) : StatementOK(E, b[k]),
             NEW k \in 1 .. Len(ab)
      PROVE  StatementOK(E, ab[k])
  <2>1. \/ k \in 1 .. Len(a) /\ ab[k] = a[k]
        \/ \E l \in 1 .. Len(b) : k = Len(a) + l /\ ab[k] = b[l]
    BY JoinedSplit, SMTT(30)
  <2> QED BY <1>3, <2>1
<1> QED BY <1>1, <1>2, <1>3

\* Joining one piece after the other.
LEMMA JoinedTwice ==
    ASSUME NEW a, NEW l, NEW m, Sequence(a), Sequence(l), Sequence(m),
           Len(a) \in Nat, Len(l) \in Nat, Len(m) \in Nat
    PROVE  Joined((a \o l) \o m, a, l \o m)
<1> DEFINE al == a \o l
           lm == l \o m
           alm == al \o m
<1>1. Joined(al, a, l) /\ Joined(lm, l, m)
  BY JoinedIs
<1>2. /\ Len(al) = Len(a) + Len(l) /\ Sequence(al) /\ Len(lm) = Len(l) + Len(m)
      /\ \A k \in 1 .. Len(a) : al[k] = a[k]
      /\ \A k \in 1 .. Len(l) : al[Len(a) + k] = l[k]
  <2> HIDE DEF al, lm
  <2> QED BY <1>1 DEF Joined
<1>3. Joined(alm, al, m)
  <2>1. Len(al) \in Nat
    BY <1>2
  <2> HIDE DEF al
  <2> QED BY <1>2, <2>1, JoinedIs
<1> HIDE DEF al, lm, alm
<1>4. /\ Len(alm) = Len(al) + Len(m) /\ Sequence(alm)
      /\ \A k \in 1 .. Len(al) : alm[k] = al[k]
      /\ \A k \in 1 .. Len(m) : alm[Len(al) + k] = m[k]
  BY <1>3 DEF Joined
<1>5. Len(alm) = Len(a) + Len(lm) /\ Len(lm) \in Nat
  BY <1>2, <1>4
<1>6. ASSUME NEW k \in 1 .. Len(a) PROVE alm[k] = a[k]
  <2>1. k \in 1 .. Len(al)
    BY <1>2
  <2> QED BY <1>2, <1>4, <2>1
<1>7. ASSUME NEW k \in 1 .. Len(lm) PROVE alm[Len(a) + k] = lm[k]
  <2>1. CASE k \in 1 .. Len(l) /\ lm[k] = l[k]
    <3>1. Len(a) + k \in 1 .. Len(al)
      BY <1>2, <2>1
    <3>2. alm[Len(a) + k] = al[Len(a) + k] /\ al[Len(a) + k] = l[k]
      BY <1>2, <1>4, <2>1, <3>1
    <3> QED BY <2>1, <3>2
  <2>2. ASSUME NEW j \in 1 .. Len(m), k = Len(l) + j, lm[k] = m[j]
        PROVE  alm[Len(a) + k] = lm[k]
    <3>1. Len(a) + k = Len(al) + j
      BY <1>2, <2>2
    <3>2. alm[Len(al) + j] = m[j]
      BY <1>4
    <3> QED BY <2>2, <3>1, <3>2
  <2> QED BY <1>1, <2>1, <2>2, JoinedSplit
<1>8. Joined(alm, a, lm)
  BY <1>4, <1>5, <1>6, <1>7, Zenon DEF Joined
<1> QED BY <1>8 DEF al, lm, alm

\* The statements for the segments from the last down to i.
PwlPart(b, c, s, n, i, in, o) ==
    /\ Sequence(b) /\ Len(b) \in Nat \ {0}
    /\ \A k \in 1 .. Len(b) : \E m : \E j \in i .. (n - 2) : b[k].name = Tag(o, m, j)
    /\ \A k \in 1 .. Len(b) : b[k].op # "file"
    /\ b[Len(b)].name = Tag(o, "cr", i) /\ b[Len(b)].type = T(c, s)
    /\ Apart(b) /\ Supply(b, {in})
    /\ c \in Nat \ {0} /\ s \in Nat \ {0} => \A E : Full(E, in, c, s) => Fine(b, E)

LEMMA PwlLast ==
    ASSUME NEW c, NEW s, NEW n \in Nat, n >= 2, NEW in, NEW o, NEW b,
           b = PwlLine(c, s, n, n - 2, in, <<o>>, Tag(o, "cr", n - 2))
    PROVE  PwlPart(b, c, s, n, n - 2, in, o)
<1> DEFINE i == n - 2
           x == Num(Slope(n, i))
           y == Num(Intercept(n, i))
<1>0. b = PwlLine(c, s, n, i, in, <<o>>, Tag(o, "cr", i)) /\ i \in i .. (n - 2)
  OBVIOUS
<1> HIDE DEF i
<1>1. /\ b[1] = Lit(Tag(o, "a", i), x)
      /\ b[2] = Lit(Tag(o, "b", i), y)
      /\ b[3] = Let(T(c, s), Tag(o, "t", i), "mul", <<in, Tag(o, "a", i)>>)
      /\ b[4] = Let(T(c, s), Tag(o, "cr", i), "add", <<Tag(o, "t", i), Tag(o, "b", i)>>)
  BY <1>0 DEF PwlLine, Tag
<1>2. Len(b) = 4 /\ Sequence(b)
  BY <1>0 DEF PwlLine, Sequence
<1> HIDE DEF x, y
<1>3. /\ Is(b[1], Tag(o, "a", i), Scalar, "lit", {})
      /\ Is(b[2], Tag(o, "b", i), Scalar, "lit", {})
      /\ Is(b[3], Tag(o, "t", i), T(c, s), "mul", {in, Tag(o, "a", i)})
      /\ Is(b[4], Tag(o, "cr", i), T(c, s), "add", {Tag(o, "t", i), Tag(o, "b", i)})
  BY <1>1, LetTwo, LitIs
<1>4. /\ b[1].name = Tag(o, "a", i) /\ b[1].type = Scalar /\ b[1].op = "lit"
      /\ b[2].name = Tag(o, "b", i) /\ b[2].type = Scalar /\ b[2].op = "lit"
      /\ b[3].name = Tag(o, "t", i) /\ b[3].type = T(c, s) /\ b[3].op = "mul"
      /\ b[4].name = Tag(o, "cr", i) /\ b[4].type = T(c, s) /\ b[4].op = "add"
  BY <1>3 DEF Is
<1>5. \A k \in 1 .. 4 : k \in {1, 2, 3, 4}
  OBVIOUS
<1>6. Supply(b, {in})
  <2>1. Fed(b, {in}, 1) /\ Fed(b, {in}, 2) /\ Fed(b, {in}, 3) /\ Fed(b, {in}, 4)
    BY <1>3, <1>4 DEF Is, Fed
  <2>2. \A k \in 1 .. 4 : Fed(b, {in}, k)
    BY <1>5, <2>1
  <2> QED BY <1>2, <2>2, SupplyIs, Zenon
<1> DEFINE N == <<"a", "b", "t", "cr">>
           at == [a |-> 1, b |-> 2, t |-> 3, cr |-> 4]
<1>7. \A k \in 1 .. 4 : b[k].name = Tag(o, N[k], i) /\ at[N[k]] = k
  BY <1>4, <1>5
<1> HIDE DEF N, at
<1>8. Apart(b)
  <2> SUFFICES ASSUME NEW k \in 1 .. 4, NEW l \in 1 .. 4, b[k].name = b[l].name PROVE k = l
    BY <1>2 DEF Apart
  <2>1. N[k] = Tag(o, N[k], i)[2] /\ N[l] = Tag(o, N[l], i)[2]
    BY TagIs
  <2> QED BY <1>7, <2>1
<1>9. /\ \A k \in 1 .. 4 : \E m : \E j \in i .. (n - 2) : b[k].name = Tag(o, m, j)
      /\ \A k \in 1 .. 4 : b[k].op # "file"
  BY <1>0, <1>4, <1>5, <1>7
<1>10. ASSUME c \in Nat \ {0} /\ s \in Nat \ {0}, NEW E, Full(E, in, c, s), Declared(E, b)
       PROVE  \A k \in 1 .. 4 : StatementOK(E, b[k])
  <2>1. \A k \in 1 .. 4 : E[b[k].name].type = b[k].type
    BY <1>2, <1>10 DEF Declared
  <2>2. /\ E[Tag(o, "a", i)].type = Scalar
        /\ E[Tag(o, "b", i)].type = Scalar
        /\ E[Tag(o, "t", i)].type = T(c, s)
    BY <1>4, <2>1
  <2>3. Plainly("mul") /\ Plainly("add")
    BY DEF Plainly, Elementwise, Reductions, Consts, Comparing
  <2>4. StatementOK(E, b[1]) /\ StatementOK(E, b[2])
    BY <1>4, ConstChecks DEF Consts
  <2>5. StatementOK(E, b[3])
    BY <1>1, <1>10, <2>2, <2>3, ScalarType, FullIsSlim, BinaryChecks
  <2>6. StatementOK(E, b[4])
    BY <1>1, <1>10, <2>2, <2>3, FullType, ScalarType, BinaryChecks
  <2> QED BY <1>5, <2>4, <2>5, <2>6
<1>11. c \in Nat \ {0} /\ s \in Nat \ {0} => \A E : Full(E, in, c, s) => Fine(b, E)
  BY <1>2, <1>10, Zenon DEF Fine
<1>12. PwlPart(b, c, s, n, i, in, o)
  <2>1. /\ Len(b) \in Nat \ {0}
        /\ b[Len(b)].name = Tag(o, "cr", i) /\ b[Len(b)].type = T(c, s)
    BY <1>2, <1>4, SMTT(30)
  <2>2. /\ \A k \in 1 .. Len(b) : \E m : \E j \in i .. (n - 2) : b[k].name = Tag(o, m, j)
        /\ \A k \in 1 .. Len(b) : b[k].op # "file"
    BY <1>2, <1>9, Zenon
  <2> QED BY <1>2, <1>6, <1>8, <1>11, <2>1, <2>2, Zenon DEF PwlPart
<1> QED BY <1>12 DEF i

\* The statements of a segment that is not the last.
PwlSegment(c, s, n, i, in, o) ==
    PwlLine(c, s, n, i, in, <<o>>, Tag(o, "y", i))
      \o <<Lit(Tag(o, "th", i), Num(Upper(n, i))),
           Let(TB(c, s), Tag(o, "mk", i), "less", <<in, Tag(o, "th", i)>>),
           Let(T(c, s), Tag(o, "cr", i), "select",
               <<Tag(o, "mk", i), Tag(o, "y", i), Tag(o, "cr", i + 1)>>)>>

PwlStep(b, c, s, i, in, o) ==
    /\ Sequence(b) /\ Len(b) = 7
    /\ \A k \in 1 .. 7 : \E m : b[k].name = Tag(o, m, i)
    /\ \A k \in 1 .. 7 : b[k].op # "file"
    /\ b[7].name = Tag(o, "cr", i) /\ b[7].type = T(c, s)
    /\ Apart(b) /\ Supply(b, {in, Tag(o, "cr", i + 1)})
    /\ c \in Nat \ {0} /\ s \in Nat \ {0} =>
         \A E : Full(E, in, c, s) /\ E[Tag(o, "cr", i + 1)].type = T(c, s) => Fine(b, E)

LEMMA PwlSegmentIs ==
    ASSUME NEW c, NEW s, NEW n, NEW i, NEW in, NEW o, NEW b,
           b = PwlSegment(c, s, n, i, in, o)
    PROVE  PwlStep(b, c, s, i, in, o)
<1> DEFINE x == Num(Slope(n, i))
           y == Num(Intercept(n, i))
           z == Num(Upper(n, i))
           old == Tag(o, "cr", i + 1)
<1>1. /\ b[1] = Lit(Tag(o, "a", i), x)
      /\ b[2] = Lit(Tag(o, "b", i), y)
      /\ b[3] = Let(T(c, s), Tag(o, "t", i), "mul", <<in, Tag(o, "a", i)>>)
      /\ b[4] = Let(T(c, s), Tag(o, "y", i), "add", <<Tag(o, "t", i), Tag(o, "b", i)>>)
      /\ b[5] = Lit(Tag(o, "th", i), z)
      /\ b[6] = Let(TB(c, s), Tag(o, "mk", i), "less", <<in, Tag(o, "th", i)>>)
      /\ b[7] = Let(T(c, s), Tag(o, "cr", i), "select", <<Tag(o, "mk", i), Tag(o, "y", i), old>>)
  BY DEF PwlSegment, PwlLine, Tag
<1>2. Len(b) = 7 /\ Sequence(b)
  BY DEF PwlSegment, PwlLine, Sequence
<1> HIDE DEF x, y, z, old
<1>3. /\ Is(b[1], Tag(o, "a", i), Scalar, "lit", {})
      /\ Is(b[2], Tag(o, "b", i), Scalar, "lit", {})
      /\ Is(b[3], Tag(o, "t", i), T(c, s), "mul", {in, Tag(o, "a", i)})
      /\ Is(b[4], Tag(o, "y", i), T(c, s), "add", {Tag(o, "t", i), Tag(o, "b", i)})
      /\ Is(b[5], Tag(o, "th", i), Scalar, "lit", {})
      /\ Is(b[6], Tag(o, "mk", i), TB(c, s), "less", {in, Tag(o, "th", i)})
      /\ Is(b[7], Tag(o, "cr", i), T(c, s), "select", {Tag(o, "mk", i), Tag(o, "y", i), old})
  BY <1>1, LetTwo, LetThree, LitIs
<1>4. /\ b[1].name = Tag(o, "a", i) /\ b[1].type = Scalar /\ b[1].op = "lit"
      /\ b[2].name = Tag(o, "b", i) /\ b[2].type = Scalar /\ b[2].op = "lit"
      /\ b[3].name = Tag(o, "t", i) /\ b[3].type = T(c, s) /\ b[3].op = "mul"
      /\ b[4].name = Tag(o, "y", i) /\ b[4].type = T(c, s) /\ b[4].op = "add"
      /\ b[5].name = Tag(o, "th", i) /\ b[5].type = Scalar /\ b[5].op = "lit"
      /\ b[6].name = Tag(o, "mk", i) /\ b[6].type = TB(c, s) /\ b[6].op = "less"
      /\ b[7].name = Tag(o, "cr", i) /\ b[7].type = T(c, s) /\ b[7].op = "select"
  BY <1>3 DEF Is
<1>5. \A k \in 1 .. 7 : k \in {1, 2, 3, 4, 5, 6, 7}
  OBVIOUS
<1>6. Supply(b, {in, old})
  <2>1. /\ Fed(b, {in, old}, 1) /\ Fed(b, {in, old}, 2) /\ Fed(b, {in, old}, 3)
        /\ Fed(b, {in, old}, 4) /\ Fed(b, {in, old}, 5) /\ Fed(b, {in, old}, 6)
        /\ Fed(b, {in, old}, 7)
    BY <1>3, <1>4 DEF Is, Fed
  <2>2. \A k \in 1 .. 7 : Fed(b, {in, old}, k)
    BY <1>5, <2>1
  <2> QED BY <1>2, <2>2, SupplyIs, Zenon
<1> DEFINE N == <<"a", "b", "t", "y", "th", "mk", "cr">>
           at == [a |-> 1, b |-> 2, t |-> 3, y |-> 4, th |-> 5, mk |-> 6, cr |-> 7]
<1>7. \A k \in 1 .. 7 : b[k].name = Tag(o, N[k], i) /\ at[N[k]] = k
  BY <1>4, <1>5
<1> HIDE DEF N, at
<1>8. Apart(b)
  <2> SUFFICES ASSUME NEW k \in 1 .. 7, NEW l \in 1 .. 7, b[k].name = b[l].name PROVE k = l
    BY <1>2 DEF Apart
  <2>1. N[k] = Tag(o, N[k], i)[2] /\ N[l] = Tag(o, N[l], i)[2]
    BY TagIs
  <2> QED BY <1>7, <2>1
<1>9. /\ \A k \in 1 .. 7 : \E m : b[k].name = Tag(o, m, i)
      /\ \A k \in 1 .. 7 : b[k].op # "file"
  BY <1>4, <1>5, <1>7
<1>10. ASSUME c \in Nat \ {0} /\ s \in Nat \ {0}, NEW E, Full(E, in, c, s), E[old].type = T(c, s),
              Declared(E, b)
       PROVE  \A k \in 1 .. 7 : StatementOK(E, b[k])
  <2>1. \A k \in 1 .. 7 : E[b[k].name].type = b[k].type
    BY <1>2, <1>10 DEF Declared
  <2>2. /\ E[Tag(o, "a", i)].type = Scalar
        /\ E[Tag(o, "b", i)].type = Scalar
        /\ E[Tag(o, "t", i)].type = T(c, s)
        /\ E[Tag(o, "y", i)].type = T(c, s)
        /\ E[Tag(o, "th", i)].type = Scalar
        /\ E[Tag(o, "mk", i)].type = TB(c, s)
    BY <1>4, <2>1
  <2>3. Plainly("mul") /\ Plainly("add")
    BY DEF Plainly, Elementwise, Reductions, Consts, Comparing
  <2>4. StatementOK(E, b[1]) /\ StatementOK(E, b[2]) /\ StatementOK(E, b[5])
    BY <1>4, ConstChecks DEF Consts
  <2>5. StatementOK(E, b[3])
    BY <1>1, <1>10, <2>2, <2>3, ScalarType, FullIsSlim, BinaryChecks
  <2>6. StatementOK(E, b[4])
    BY <1>1, <1>10, <2>2, <2>3, FullType, ScalarType, BinaryChecks
  <2>7. StatementOK(E, b[6])
    BY <1>1, <1>10, <2>2, ScalarType, CompareChecks
  <2>8. StatementOK(E, b[7])
    BY <1>1, <1>10, <2>2, FullType, SelectChecks
  <2> QED BY <1>5, <2>4, <2>5, <2>6, <2>7, <2>8
<1>11. c \in Nat \ {0} /\ s \in Nat \ {0} =>
         \A E : Full(E, in, c, s) /\ E[old].type = T(c, s) => Fine(b, E)
  BY <1>2, <1>10 DEF Fine
<1> QED BY <1>2, <1>4, <1>6, <1>8, <1>9, <1>11 DEF old, PwlStep

\* The segments from i on, when those from i + 1 on are right.
LEMMA PwlGrows ==
    ASSUME NEW c, NEW s, NEW n \in Nat, NEW i \in 0 .. (n - 3), NEW in, NEW o, NEW a, NEW b, NEW ab,
           PwlPart(a, c, s, n, i + 1, in, o), PwlStep(b, c, s, i, in, o), Joined(ab, a, b)
    PROVE  PwlPart(ab, c, s, n, i, in, o)
<1> DEFINE old == Tag(o, "cr", i + 1)
<1>1. /\ Sequence(a) /\ Len(a) \in Nat \ {0}
      /\ \A k \in 1 .. Len(a) : \E m : \E j \in (i + 1) .. (n - 2) : a[k].name = Tag(o, m, j)
      /\ \A k \in 1 .. Len(a) : a[k].op # "file"
      /\ a[Len(a)].name = old /\ a[Len(a)].type = T(c, s)
      /\ Apart(a) /\ Supply(a, {in})
      /\ c \in Nat \ {0} /\ s \in Nat \ {0} => \A E : Full(E, in, c, s) => Fine(a, E)
  BY DEF PwlPart
<1>2. /\ Sequence(b) /\ Len(b) = 7
      /\ \A k \in 1 .. 7 : \E m : b[k].name = Tag(o, m, i)
      /\ \A k \in 1 .. 7 : b[k].op # "file"
      /\ b[7].name = Tag(o, "cr", i) /\ b[7].type = T(c, s)
      /\ Apart(b) /\ Supply(b, {in, old})
      /\ c \in Nat \ {0} /\ s \in Nat \ {0} =>
           \A E : Full(E, in, c, s) /\ E[old].type = T(c, s) => Fine(b, E)
  BY DEF PwlStep
<1> HIDE DEF old
<1>3. /\ Len(ab) = Len(a) + 7 /\ Sequence(ab)
      /\ \A k \in 1 .. Len(a) : ab[k] = a[k]
      /\ \A k \in 1 .. 7 : ab[Len(a) + k] = b[k]
  BY <1>2 DEF Joined
<1>4. ASSUME NEW k \in 1 .. Len(ab)
      PROVE  /\ \E m : \E j \in i .. (n - 2) : ab[k].name = Tag(o, m, j)
             /\ ab[k].op # "file"
  <2>1. CASE k \in 1 .. Len(a) /\ ab[k] = a[k]
    <3>1. PICK m : \E j \in (i + 1) .. (n - 2) : a[k].name = Tag(o, m, j)
      BY <1>1, <2>1
    <3>2. PICK j \in (i + 1) .. (n - 2) : a[k].name = Tag(o, m, j)
      BY <3>1
    <3>3. j \in i .. (n - 2)
      OBVIOUS
    <3> QED BY <1>1, <2>1, <3>2, <3>3
  <2>2. ASSUME NEW l \in 1 .. Len(b), ab[k] = b[l]
        PROVE  /\ \E m : \E j \in i .. (n - 2) : ab[k].name = Tag(o, m, j)
               /\ ab[k].op # "file"
    <3>1. l \in 1 .. 7 /\ i \in i .. (n - 2)
      BY <1>2
    <3> QED BY <1>2, <2>2, <3>1, Zenon
  <2>3. \/ k \in 1 .. Len(a) /\ ab[k] = a[k]
        \/ \E l \in 1 .. Len(b) : k = Len(a) + l /\ ab[k] = b[l]
    BY JoinedSplit
  <2> QED BY <2>1, <2>2, <2>3
<1>5. ab[Len(ab)].name = Tag(o, "cr", i) /\ ab[Len(ab)].type = T(c, s)
  <2>1. 7 \in 1 .. 7
    OBVIOUS
  <2> QED BY <1>2, <1>3, <2>1, Zenon
<1>6. Apart(ab)
  <2> SUFFICES ASSUME NEW k \in 1 .. Len(a), NEW l \in 1 .. Len(b), a[k].name = b[l].name PROVE FALSE
    BY <1>1, <1>2, JoinedApart, Zenon
  <2>1. PICK m : \E j \in (i + 1) .. (n - 2) : a[k].name = Tag(o, m, j)
    BY <1>1, Zenon
  <2>2. PICK j \in (i + 1) .. (n - 2) : a[k].name = Tag(o, m, j)
    BY <2>1
  <2>3. PICK q : b[l].name = Tag(o, q, i)
    BY <1>2, Zenon
  <2>4. Tag(o, m, j)[3] = j /\ Tag(o, q, i)[3] = i
    BY TagIs
  <2>5. j = i
    BY <2>2, <2>3, <2>4, Zenon
  <2> QED BY <2>5
<1>7. Supply(ab, {in})
  <2>1. Len(a) \in 1 .. Len(a)
    BY <1>1
  <2>2. \A m \in {in, old} : m \in {in} \/ \E l \in 1 .. Len(a) : a[l].name = m
    BY <1>1, <2>1
  <2> QED BY <1>1, <1>2, <2>2, JoinedSupply
<1>8. ASSUME c \in Nat \ {0} /\ s \in Nat \ {0}, NEW E, Full(E, in, c, s), Declared(E, ab)
      PROVE  \A k \in 1 .. Len(ab) : StatementOK(E, ab[k])
  <2>1. Declared(E, a) /\ Declared(E, b)
    BY <1>8, JoinedFine
  <2>2. Len(a) \in 1 .. Len(a)
    BY <1>1
  <2>3. E[old].type = T(c, s)
    BY <1>1, <2>1, <2>2 DEF Declared
  <2>4. \A k \in 1 .. Len(a) : StatementOK(E, a[k])
    BY <1>1, <1>8, <2>1 DEF Fine
  <2>5. \A k \in 1 .. Len(b) : StatementOK(E, b[k])
    BY <1>2, <1>8, <2>1, <2>3 DEF Fine
  <2> QED BY <1>8, <2>4, <2>5, JoinedFine
<1>9. c \in Nat \ {0} /\ s \in Nat \ {0} => \A E : Full(E, in, c, s) => Fine(ab, E)
  BY <1>8 DEF Fine
<1>10. Len(ab) \in Nat \ {0}
  BY <1>1, <1>3
<1> QED BY <1>3, <1>4, <1>5, <1>6, <1>7, <1>9, <1>10, Zenon DEF PwlPart

\* One turn of the recursion in PwlFrom.
PwlTurn(f, c, s, n, in, out) ==
    [i \in 0 .. (n - 2) |->
        IF i = n - 2 THEN PwlLine(c, s, n, i, in, out, out \o <<"cr", i>>)
        ELSE f[i + 1]
               \o PwlLine(c, s, n, i, in, out, out \o <<"y", i>>)
               \o <<Lit(out \o <<"th", i>>, Num(Upper(n, i))),
                    Let(TB(c, s), out \o <<"mk", i>>, "less", <<in, out \o <<"th", i>>>>),
                    Let(T(c, s), out \o <<"cr", i>>, "select",
                        <<out \o <<"mk", i>>, out \o <<"y", i>>, out \o <<"cr", i + 1>>>>)>>]

LEMMA PwlExists ==
    ASSUME NEW c, NEW s, NEW n \in Nat, n >= 2, NEW in, NEW out
    PROVE  \E f : f = PwlTurn(f, c, s, n, in, out)
<1> DEFINE L == PwlLine(c, s, n, n - 2, in, out, out \o <<"cr", n - 2>>)
           Y(i) == PwlLine(c, s, n, i, in, out, out \o <<"y", i>>)
           M(i) == <<Lit(out \o <<"th", i>>, Num(Upper(n, i))),
                     Let(TB(c, s), out \o <<"mk", i>>, "less", <<in, out \o <<"th", i>>>>),
                     Let(T(c, s), out \o <<"cr", i>>, "select",
                         <<out \o <<"mk", i>>, out \o <<"y", i>>, out \o <<"cr", i + 1>>>>)>>
           V(f, i) == IF i = n - 2 THEN L ELSE f[i + 1] \o Y(i) \o M(i)
           F(m, f) == [i \in (n - 2 - m) .. (n - 2) |-> V(f, i)]
           Bad == {m \in Nat : ~\E f : f = F(m, f)}
<1> HIDE DEF L, Y, M
<1>1. Bad = {}
  <2> SUFFICES ASSUME Bad # {} PROVE FALSE
    BY Zenon
  <2>1. PICK m \in Bad : \A j \in Bad : m <= j
    <3>1. Bad \in SUBSET Nat
      OBVIOUS
    <3> HIDE DEF Bad
    <3> QED BY <3>1, Least
  <2>2. m \in Nat /\ ~\E f : f = F(m, f)
    BY Zenon
  <2>3. CASE m = 0
    <3> DEFINE e == [i \in (n - 2 - 0) .. (n - 2) |-> L]
    <3>1. \A i \in (n - 2 - 0) .. (n - 2) : i = n - 2
      OBVIOUS
    <3>2. e = F(0, e)
      BY <3>1
    <3> QED BY <2>2, <2>3, <3>2, Zenon
  <2>4. CASE m # 0
    <3>1. m - 1 \in Nat /\ ~(m <= m - 1)
      BY <2>2, <2>4
    <3>2. m - 1 \notin Bad
      BY <2>1, <3>1, Zenon
    <3>3. PICK f : f = F(m - 1, f)
      BY <3>1, <3>2, Zenon
    <3> DEFINE g == F(m, f)
    <3>4. ASSUME NEW i \in (n - 2 - m) .. (n - 2), i # n - 2 PROVE g[i + 1] = f[i + 1]
      <4>1. i + 1 \in (n - 2 - (m - 1)) .. (n - 2) /\ i + 1 \in (n - 2 - m) .. (n - 2)
        BY <2>2, <3>4
      <4> HIDE DEF V
      <4>2. g[i + 1] = V(f, i + 1)
        BY <4>1
      <4>3. f[i + 1] = V(f, i + 1)
        BY <3>3, <4>1, Zenon
      <4> QED BY <4>2, <4>3
    <3>5. ASSUME NEW i \in (n - 2 - m) .. (n - 2) PROVE V(f, i) = V(g, i)
      <4> HIDE DEF g
      <4> QED BY <3>4
    <3>6. g = F(m, g)
      <4>1. F(m, f) = F(m, g)
        <5> HIDE DEF V, g
        <5> QED BY <3>5
      <4> QED BY <4>1, Zenon
    <3> QED BY <2>2, <3>6, Zenon
  <2> QED BY <2>3, <2>4
<1>2. n - 2 \in Nat /\ n - 2 - (n - 2) = 0
  OBVIOUS
<1>3. PICK f : f = F(n - 2, f)
  BY <1>1, <1>2, Zenon
<1>4. f = [i \in 0 .. (n - 2) |-> V(f, i)]
  BY <1>2, <1>3, Zenon
<1>5. \A i \in 0 .. (n - 2) : V(f, i) = IF i = n - 2 THEN PwlLine(c, s, n, i, in, out, out \o <<"cr", i>>)
                                        ELSE f[i + 1] \o Y(i) \o M(i)
  BY DEF L
<1> HIDE DEF V
<1>6. f = [i \in 0 .. (n - 2) |->
             IF i = n - 2 THEN PwlLine(c, s, n, i, in, out, out \o <<"cr", i>>)
             ELSE f[i + 1] \o Y(i) \o M(i)]
  BY <1>4, <1>5, Zenon
<1> QED BY <1>6, Zenon DEF Y, M, PwlTurn

\* The segments from i on, for every i.
LEMMA PwlFromIs ==
    ASSUME NEW c, NEW s, NEW n \in Nat, n >= 2, NEW in, NEW o
    PROVE  PwlPart(PwlFrom(c, s, n, in, <<o>>)[0], c, s, n, 0, in, o)
<1> DEFINE B == PwlFrom(c, s, n, in, <<o>>)
           Y(i) == PwlLine(c, s, n, i, in, <<o>>, Tag(o, "y", i))
           M(i) == <<Lit(Tag(o, "th", i), Num(Upper(n, i))),
                     Let(TB(c, s), Tag(o, "mk", i), "less", <<in, Tag(o, "th", i)>>),
                     Let(T(c, s), Tag(o, "cr", i), "select",
                         <<Tag(o, "mk", i), Tag(o, "y", i), Tag(o, "cr", i + 1)>>)>>
<1>0. B = CHOOSE f : f = PwlTurn(f, c, s, n, in, <<o>>)
  BY DEF PwlFrom, PwlTurn
<1>1. B = PwlTurn(B, c, s, n, in, <<o>>)
  <2> HIDE DEF B
  <2> QED BY <1>0, PwlExists
<1>2. ASSUME NEW i \in 0 .. (n - 2)
      PROVE  B[i] = IF i = n - 2 THEN PwlLine(c, s, n, i, in, <<o>>, Tag(o, "cr", i))
                    ELSE (B[i + 1] \o Y(i)) \o M(i)
  <2> HIDE DEF B
  <2> QED BY <1>1, Zenon DEF Tag, PwlTurn
<1> HIDE DEF B
<1> DEFINE P(i) == PwlPart(B[i], c, s, n, i, in, o)
           Bad == {m \in Nat : m <= n - 2 /\ ~P(n - 2 - m)}
<1>3. Bad = {}
  <2> SUFFICES ASSUME Bad # {} PROVE FALSE
    OBVIOUS
  <2>1. PICK m \in Bad : \A j \in Bad : m <= j
    <3>1. Bad \in SUBSET Nat
      OBVIOUS
    <3> HIDE DEF Bad
    <3> QED BY <3>1, Least
  <2>2. m \in Nat /\ m <= n - 2 /\ ~P(n - 2 - m)
    OBVIOUS
  <2>3. CASE m = 0
    <3>1. n - 2 \in 0 .. (n - 2) /\ n - 2 - 0 = n - 2
      OBVIOUS
    <3>2. B[n - 2] = PwlLine(c, s, n, n - 2, in, <<o>>, Tag(o, "cr", n - 2))
      BY <1>2, <3>1, Zenon
    <3>3. P(n - 2)
      BY <3>2, PwlLast
    <3> QED BY <2>2, <2>3, <3>1, <3>3
  <2>4. CASE m # 0
    <3> DEFINE i == n - 2 - m
    <3>1. /\ m - 1 \in Nat /\ ~(m <= m - 1) /\ m - 1 <= n - 2 /\ n - 2 - (m - 1) = i + 1
          /\ i \in 0 .. (n - 3) /\ i \in 0 .. (n - 2) /\ i # n - 2
      BY <2>2, <2>4
    <3> HIDE DEF i, P
    <3>2. P(i + 1)
      BY <2>1, <3>1
    <3>3. B[i] = (B[i + 1] \o Y(i)) \o M(i)
      BY <1>2, <3>1, Zenon
    <3>4. Sequence(B[i + 1]) /\ Len(B[i + 1]) \in Nat
      BY <3>2 DEF P, PwlPart
    <3>5. Sequence(Y(i)) /\ Len(Y(i)) = 4
      BY DEF PwlLine, Sequence
    <3>6. Sequence(M(i)) /\ Len(M(i)) = 3
      BY DEF Sequence
    <3>7. Y(i) \o M(i) = PwlSegment(c, s, n, i, in, o)
      BY DEF PwlSegment
    <3> HIDE DEF Y, M
    <3>8. Joined(B[i], B[i + 1], PwlSegment(c, s, n, i, in, o))
      <4>1. Joined((B[i + 1] \o Y(i)) \o M(i), B[i + 1], Y(i) \o M(i))
        BY <3>4, <3>5, <3>6, JoinedTwice
      <4> QED BY <3>3, <3>7, <4>1
    <3>9. PwlPart(B[i + 1], c, s, n, i + 1, in, o)
      BY <3>2 DEF P
    <3>10. PwlPart(B[i], c, s, n, i, in, o)
      BY <3>1, <3>8, <3>9, PwlGrows, PwlSegmentIs
    <3> QED BY <2>2, <3>10 DEF P, i
  <2> QED BY <2>3, <2>4
<1>4. n - 2 \in Nat /\ n - 2 <= n - 2 /\ n - 2 - (n - 2) = 0
  OBVIOUS
<1>5. P(n - 2 - (n - 2))
  BY <1>3, <1>4
<1>6. P(0)
  BY <1>4, <1>5
<1> QED BY <1>6 DEF B

LEMMA JoinedOne ==
    ASSUME NEW b, NEW a, NEW d, Len(d) = 1, Joined(b, a, d)
    PROVE  \A k \in 1 .. Len(b) : (k \in 1 .. Len(a) /\ b[k] = a[k]) \/ b[k] = d[1]
<1>1. /\ Len(a) \in Nat /\ Len(b) = Len(a) + 1
      /\ \A k \in 1 .. Len(a) : b[k] = a[k]
      /\ b[Len(a) + 1] = d[1]
  BY DEF Joined
<1>2. \A k \in 1 .. Len(b) : k \in 1 .. Len(a) \/ k = Len(a) + 1
  BY <1>1
<1> QED BY <1>1, <1>2

LEMMA PwlEnds ==
    ASSUME NEW c, NEW s, NEW n, NEW in, NEW o, NEW a, NEW b, NEW d, NEW st,
           PwlPart(a, c, s, n, 0, in, o), Joined(b, a, d),
           Sequence(d), Len(d) = 1, d[1] = st,
           st = Let(T(c, s), <<o>>, "identity", <<Tag(o, "cr", 0)>>)
    PROVE  /\ Neat(b, o, {in}) /\ FilesIn(b, {}) /\ b[Len(b)].type = T(c, s)
           /\ c \in Nat \ {0} /\ s \in Nat \ {0} =>
                \A E : Full(E, in, c, s) => Fine(b, E)
<1> DEFINE last == Tag(o, "cr", 0)
<1>3. Is(st, <<o>>, T(c, s), "identity", {last})
  BY LetOne
<1>4. Sequence(d) /\ Len(d) = 1 /\ d[1] = st
  OBVIOUS
<1>5. st.name = <<o>> /\ st.type = T(c, s) /\ st.op = "identity" /\ Reads(st) = {last}
  BY <1>3 DEF Is
<1>6. /\ Sequence(a) /\ Len(a) \in Nat \ {0}
      /\ \A k \in 1 .. Len(a) : \E m : \E j \in 0 .. (n - 2) : a[k].name = Tag(o, m, j)
      /\ \A k \in 1 .. Len(a) : a[k].op # "file"
      /\ a[Len(a)].name = last /\ a[Len(a)].type = T(c, s)
      /\ Apart(a) /\ Supply(a, {in})
      /\ c \in Nat \ {0} /\ s \in Nat \ {0} => \A E : Full(E, in, c, s) => Fine(a, E)
  BY DEF PwlPart
<1> HIDE DEF last
<1>8. \A k \in 1 .. Len(d) : k = 1
  BY <1>4
<1>9. /\ Len(b) = Len(a) + 1 /\ Sequence(b) /\ b[Len(b)] = st /\ Len(b) \in Nat \ {0}
      /\ \A k \in 1 .. Len(a) : b[k] = a[k]
  <2>1. 1 \in 1 .. Len(d)
    BY <1>4
  <2> QED BY <1>4, <1>6, <2>1 DEF Joined
<1>10. \A k \in 1 .. Len(b) : (k \in 1 .. Len(a) /\ b[k] = a[k]) \/ b[k] = st
  BY <1>4, <1>6, JoinedOne
<1>11. \A k \in 1 .. Len(b) : b[k].name[1] = o
  <2> TAKE k \in 1 .. Len(b)
  <2>1. CASE k \in 1 .. Len(a) /\ b[k] = a[k]
    <3>1. PICK m, j : a[k].name = Tag(o, m, j)
      BY <1>6, <2>1
    <3> QED BY <2>1, <3>1, TagIs
  <2>2. CASE b[k] = st
    BY <1>5, <2>2
  <2> QED BY <1>10, <2>1, <2>2
<1>12. Apart(b)
  <2>1. Apart(d)
    BY <1>8 DEF Apart
  <2>2. ASSUME NEW k \in 1 .. Len(a), NEW l \in 1 .. Len(d) PROVE a[k].name # d[l].name
    <3>1. PICK m, j : a[k].name = Tag(o, m, j)
      BY <1>6
    <3>2. d[l].name = <<o>>
      BY <1>4, <1>5, <1>8
    <3> QED BY <3>1, <3>2, TagIs
  <2> QED BY <1>6, <2>1, <2>2, JoinedApart, Zenon
<1>13. Supply(b, {in})
  <2>1. Len(a) \in 1 .. Len(a)
    BY <1>6
  <2>2. \A m \in {last} : m \in {in} \/ \E l \in 1 .. Len(a) : a[l].name = m
    BY <1>6, <2>1
  <2>3. Supply(d, {last})
    BY <1>4, <1>5, <1>8 DEF Supply
  <2> QED BY <1>6, <2>2, <2>3, JoinedSupply
<1>14. Neat(b, o, {in})
  BY <1>5, <1>9, <1>11, <1>12, <1>13 DEF Neat
<1>15. FilesIn(b, {})
  BY <1>5, <1>6, <1>10 DEF FilesIn
<1>16. ASSUME c \in Nat \ {0} /\ s \in Nat \ {0}, NEW E, Full(E, in, c, s), Declared(E, b)
       PROVE  \A k \in 1 .. Len(b) : StatementOK(E, b[k])
  <2>1. Declared(E, a) /\ Declared(E, d)
    BY <1>16, JoinedFine
  <2>2. Len(a) \in 1 .. Len(a)
    BY <1>6
  <2>3. E[last].type = T(c, s)
    BY <1>6, <2>1, <2>2 DEF Declared
  <2>4. \A k \in 1 .. Len(a) : StatementOK(E, a[k])
    BY <1>6, <1>16, <2>1 DEF Fine
  <2>5. Plainly("identity")
    BY DEF Plainly, Elementwise, Reductions, Consts, Comparing
  <2>6. StatementOK(E, st)
    BY <1>16, <2>3, <2>5, FullType, UnaryChecks DEF last
  <2>7. \A k \in 1 .. Len(d) : StatementOK(E, d[k])
    BY <1>4, <1>8, <2>6
  <2> QED BY <1>16, <2>4, <2>7, JoinedFine
<1> QED BY <1>5, <1>9, <1>14, <1>15, <1>16 DEF Fine

LEMMA PwlFragment ==
    ASSUME NEW c, NEW s, NEW n \in Nat, n >= 2, NEW in, NEW o, NEW b,
           b = pwl_activation_fragment(c, s, n, in, <<o>>).body,
           Pos(c), Pos(s)
    PROVE  Makes(b, o, in, {}, c, s, c, s)
<1> DEFINE a == PwlFrom(c, s, n, in, <<o>>)[0]
           st == Let(T(c, s), <<o>>, "identity", <<Tag(o, "cr", 0)>>)
<1>1. b = a \o <<st>>
  BY DEF pwl_activation_fragment, Plain, Frag, Tag
<1>2. PwlPart(a, c, s, n, 0, in, o)
  BY PwlFromIs
<1> HIDE DEF a
<1>3. Sequence(a) /\ Len(a) \in Nat
  BY <1>2 DEF PwlPart
<1> HIDE DEF st
<1>4. Sequence(<<st>>) /\ Len(<<st>>) = 1 /\ <<st>>[1] = st
  BY DEF Sequence
<1> DEFINE d == <<st>>
<1>5. Sequence(d) /\ Len(d) = 1 /\ d[1] = st /\ Len(d) \in Nat /\ b = a \o d
  BY <1>1, <1>4, Zenon
<1> HIDE DEF d
<1>6. Joined(a \o d, a, d)
  BY <1>3, <1>5, JoinedIs
<1>7. Joined(b, a, d)
  BY <1>5, <1>6, Zenon
<1>8. /\ Neat(b, o, {in}) /\ FilesIn(b, {}) /\ b[Len(b)].type = T(c, s)
      /\ c \in Nat \ {0} /\ s \in Nat \ {0} =>
           \A E : Full(E, in, c, s) => Fine(b, E)
  BY <1>2, <1>5, <1>7, PwlEnds, Zenon DEF st
<1> QED BY <1>8, Zenon DEF Pos, Makes
=============================================================================
