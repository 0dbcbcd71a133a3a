------------------------ MODULE GraphExecutorProofs -------------------------
(***************************************************************************)
(* Proofs about compiling and executing a planned graph, for graphs of any *)
(* size: no program outlives its CompiledGraph, an execution fails only    *)
(* when a dispatch did, and one that succeeds has computed the graph.      *)
(***************************************************************************)
EXTENDS GraphExecutor, FusionRulesProofs

-----------------------------------------------------------------------------
(* What the tensors should hold                                             *)

\* Expected, as a function of the lists of the graph: one step of it, and the
\* function that is its own step.
IdealStep(ts, ns, r, f, x) ==
    IF ts[x].producer = 0 THEN Data(x, r)
    ELSE Apply(ts[x].producer, [j \in DOMAIN ns[ts[x].producer].inputs |->
                                  f[ns[ts[x].producer].inputs[j]]])
Ideal(ts, ns, r) == CHOOSE V : V = [x \in 1 .. Len(ts) |-> IdealStep(ts, ns, r, V, x)]

LEMMA ExpectedIdeal ==
    ASSUME NEW r
    PROVE  /\ Expected(r) = Ideal(tensors, nodes, r)
           /\ Expected(r)' = Ideal(tensors', nodes', r)
BY DEF Expected, Ideal, IdealStep, TensorId

\* A step reads only tensors with smaller ids.
LEMMA StepReads ==
    ASSUME GraphInv, NEW r, NEW f, NEW g, NEW x \in TensorId,
           \A y \in 1 .. (x - 1) : f[y] = g[y]
    PROVE  IdealStep(tensors, nodes, r, f, x) = IdealStep(tensors, nodes, r, g, x)
<1> DEFINE i == tensors[x].producer
           F == [j \in DOMAIN nodes[i].inputs |-> f[nodes[i].inputs[j]]]
           G == [j \in DOMAIN nodes[i].inputs |-> g[nodes[i].inputs[j]]]
<1>1. CASE i = 0
  BY <1>1 DEF IdealStep
<1>2. CASE i # 0
  <2>1. i \in NodeId /\ nodes[i].output = x
    BY <1>2 DEF GraphInv, WellFormed
  <2>2. \A j \in DOMAIN nodes[i].inputs : nodes[i].inputs[j] \in 1 .. (x - 1)
    BY <2>1, Lists DEF GraphInv, WellFormed
  <2>3. F = G
    BY <2>2
  <2> HIDE DEF i, F, G
  <2>4. IdealStep(tensors, nodes, r, f, x) = Apply(i, F)
    BY <1>2 DEF IdealStep, i, F
  <2>5. IdealStep(tensors, nodes, r, g, x) = Apply(i, G)
    BY <1>2 DEF IdealStep, i, G
  <2> QED BY <2>3, <2>4, <2>5
<1> QED BY <1>1, <1>2

\* The graph has no cycle, so there is such a function.
LEMMA ExpectedIs ==
    ASSUME GraphInv, NEW r, NEW x \in TensorId
    PROVE  Expected(r)[x] = IdealStep(tensors, nodes, r, Expected(r), x)
<1> DEFINE Step(f, y) == IdealStep(tensors, nodes, r, f, y)
           Fixed(n, f) == f = [y \in 1 .. n |-> Step(f, y)]
           top == Len(tensors)
           Bad == {n \in 0 .. top : ~\E f : Fixed(n, f)}
<1>1. top \in Nat /\ TensorId = 1 .. top
  BY Lists DEF TensorId
<1>2. \A f, g : \A y \in 1 .. top : (\A z \in 1 .. (y - 1) : f[z] = g[z]) => Step(f, y) = Step(g, y)
  BY <1>1, StepReads
<1> HIDE DEF Step
<1>3. Bad = {}
  <2> SUFFICES ASSUME Bad # {} PROVE FALSE
    OBVIOUS
  <2>1. PICK n \in Bad : \A m \in Bad : n <= m
    <3>1. Bad \in SUBSET Nat
      BY <1>1
    <3> HIDE DEF Bad
    <3> QED BY <3>1, Least
  <2>2. n \in 0 .. top /\ ~\E f : Fixed(n, f)
    OBVIOUS
  <2>3. CASE n = 0
    <3> DEFINE e == [y \in 1 .. 0 |-> y]
    <3>1. e = [y \in 1 .. 0 |-> Step(e, y)]
      OBVIOUS
    <3> QED BY <2>2, <2>3, <3>1
  <2>4. CASE n # 0
    <3>1. n \in Nat /\ n - 1 \in 0 .. top /\ ~(n <= n - 1)
      BY <1>1, <2>2, <2>4
    <3>2. n - 1 \notin Bad
      BY <2>1, <3>1
    <3>3. PICK f : Fixed(n - 1, f)
      BY <3>1, <3>2
    <3> DEFINE f2 == [y \in 1 .. n |-> Step(f, y)]
    <3>4. \A y \in 1 .. (n - 1) : f2[y] = f[y]
      <4>1. \A y \in 1 .. (n - 1) : f[y] = Step(f, y)
        BY <3>3
      <4>2. \A y \in 1 .. (n - 1) : y \in 1 .. n
        BY <3>1
      <4> QED BY <4>1, <4>2
    <3>5. ASSUME NEW y \in 1 .. n PROVE Step(f2, y) = Step(f, y)
      <4>1. y \in 1 .. top /\ \A z \in 1 .. (y - 1) : z \in 1 .. (n - 1)
        BY <1>1, <2>2, <3>1
      <4> HIDE DEF f2
      <4> QED BY <1>2, <3>4, <4>1
    <3>6. f2 = [y \in 1 .. n |-> Step(f2, y)]
      BY <3>5
    <3>7. Fixed(n, f2)
      BY <3>6
    <3> QED BY <2>2, <3>7
  <2> QED BY <2>3, <2>4
<1>4. \E f : Fixed(top, f)
  <2>1. top \in 0 .. top
    BY <1>1
  <2> QED BY <1>3, <2>1
<1> DEFINE E == Ideal(tensors, nodes, r)
<1>5. E = CHOOSE f : Fixed(top, f)
  BY DEF Ideal, Step
<1>6. Fixed(top, E)
  <2> HIDE DEF E, Fixed
  <2> QED BY <1>4, <1>5
<1> HIDE DEF E
<1>7. E[x] = Step(E, x)
  BY <1>1, <1>6
<1> QED BY <1>7, ExpectedIdeal DEF E, Step

\* A node applied to values with the same column 0, or the same other columns.
LEMMA ApplySame ==
    ASSUME NEW i, NEW u, NEW v, DOMAIN u = DOMAIN v
    PROVE  /\ (\A j \in DOMAIN u : u[j].first = v[j].first) => Apply(i, u).first = Apply(i, v).first
           /\ (\A j \in DOMAIN u : u[j].rest = v[j].rest) => Apply(i, u).rest = Apply(i, v).rest
<1>1. \A w : /\ Apply(i, w).first = Term("node", i, 0, [j \in DOMAIN w |-> w[j].first])
             /\ Apply(i, w).rest = Term("node", i, 0, [j \in DOMAIN w |-> w[j].rest])
  BY DEF Apply
<1>2. ASSUME \A j \in DOMAIN u : u[j].first = v[j].first
      PROVE  [j \in DOMAIN u |-> u[j].first] = [j \in DOMAIN v |-> v[j].first]
  BY <1>2
<1>3. ASSUME \A j \in DOMAIN u : u[j].rest = v[j].rest
      PROVE  [j \in DOMAIN u |-> u[j].rest] = [j \in DOMAIN v |-> v[j].rest]
  BY <1>3
<1> QED BY <1>1, <1>2, <1>3, ZenonT(60)

\* The output of a node is the node applied to what it reads.
LEMMA ExpectedOfNode ==
    ASSUME GraphInv, NEW r, NEW i \in NodeId
    PROVE  Expected(r)[nodes[i].output] =
             Apply(i, [j \in DOMAIN nodes[i].inputs |-> Expected(r)[nodes[i].inputs[j]]])
<1>1. /\ nodes[i].output \in TensorId /\ tensors[nodes[i].output].producer = i /\ i # 0
  BY Lists DEF GraphInv, WellFormed, NodeId
<1>2. Expected(r)[nodes[i].output] = IdealStep(tensors, nodes, r, Expected(r), nodes[i].output)
  BY <1>1, ExpectedIs
<1> QED BY <1>1, <1>2 DEF IdealStep

-----------------------------------------------------------------------------
(* What a program computes                                                  *)

\* The surface that stands for tensor x, and a step of the chain of a group.
ArgOf(g, surfs, x) == surfs[CHOOSE i \in DOMAIN surfs : Signature(g)[i] = x]
ChainStep(g, surfs, V, p) ==
    IF p = 0 THEN ArgOf(g, surfs, g.inputs[1])
    ELSE Apply(g.node_ids[p], [j \in DOMAIN nodes[g.node_ids[p]].inputs |->
                                 IF j = 1 THEN V[p - 1]
                                 ELSE ArgOf(g, surfs, nodes[g.node_ids[p]].inputs[j])])

\* Evaluate runs the chain.
LEMMA EvaluateIs ==
    ASSUME NEW g, NEW surfs, Len(g.node_ids) \in Nat
    PROVE  \E V : /\ Evaluate(g, surfs) = V[Len(g.node_ids)]
                  /\ \A p \in 0 .. Len(g.node_ids) : V[p] = ChainStep(g, surfs, V, p)
<1> DEFINE N == Len(g.node_ids)
           Step(f, p) == ChainStep(g, surfs, f, p)
           Fixed(n, f) == f = [p \in 0 .. n |-> Step(f, p)]
           Bad == {n \in 0 .. N : ~\E f : Fixed(n, f)}
<1>1. \A f, h : Step(f, 0) = Step(h, 0)
  BY DEF ChainStep
<1>2. ASSUME NEW f, NEW h, NEW p, p # 0, f[p - 1] = h[p - 1]
      PROVE  Step(f, p) = Step(h, p)
  <2> DEFINE args(V) == [j \in DOMAIN nodes[g.node_ids[p]].inputs |->
                           IF j = 1 THEN V[p - 1]
                           ELSE ArgOf(g, surfs, nodes[g.node_ids[p]].inputs[j])]
  <2>1. args(f) = args(h)
    BY <1>2
  <2>2. Step(f, p) = Apply(g.node_ids[p], args(f)) /\ Step(h, p) = Apply(g.node_ids[p], args(h))
    BY <1>2 DEF ChainStep
  <2> HIDE DEF args
  <2> QED BY <2>1, <2>2
<1> HIDE DEF Step
<1>3. Bad = {}
  <2> SUFFICES ASSUME Bad # {} PROVE FALSE
    OBVIOUS
  <2>1. PICK n \in Bad : \A m \in Bad : n <= m
    <3>1. Bad \in SUBSET Nat
      OBVIOUS
    <3> HIDE DEF Bad
    <3> QED BY <3>1, Least
  <2>2. n \in 0 .. N /\ ~\E f : Fixed(n, f)
    OBVIOUS
  <2>3. CASE n = 0
    <3> DEFINE e == [p \in 0 .. 0 |-> Step(<<>>, 0)]
    <3>1. ASSUME NEW p \in 0 .. 0 PROVE Step(<<>>, 0) = Step(e, p)
      <4>1. p = 0
        OBVIOUS
      <4> HIDE DEF e
      <4> QED BY <1>1, <4>1
    <3>2. e = [p \in 0 .. 0 |-> Step(e, p)]
      BY <3>1
    <3> QED BY <2>2, <2>3, <3>2
  <2>4. CASE n # 0
    <3>1. n \in Nat /\ n - 1 \in 0 .. N /\ ~(n <= n - 1)
      BY <2>2, <2>4
    <3>2. n - 1 \notin Bad
      BY <2>1, <3>1
    <3>3. PICK f : Fixed(n - 1, f)
      BY <3>1, <3>2
    <3> DEFINE f2 == [p \in 0 .. n |-> Step(f, p)]
    <3>4. \A p \in 0 .. (n - 1) : f2[p] = f[p]
      <4>1. \A p \in 0 .. (n - 1) : f[p] = Step(f, p)
        BY <3>3
      <4>2. \A p \in 0 .. (n - 1) : p \in 0 .. n
        BY <3>1
      <4> QED BY <4>1, <4>2
    <3>5. ASSUME NEW p \in 0 .. n PROVE Step(f2, p) = Step(f, p)
      <4>1. CASE p = 0
        BY <1>1, <4>1
      <4>2. CASE p # 0
        <5>1. p - 1 \in 0 .. (n - 1)
          BY <3>1, <4>2
        <5> HIDE DEF f2
        <5> QED BY <1>2, <3>4, <4>2, <5>1
      <4> QED BY <4>1, <4>2
    <3>6. f2 = [p \in 0 .. n |-> Step(f2, p)]
      BY <3>5
    <3>7. Fixed(n, f2)
      BY <3>6
    <3> QED BY <2>2, <3>7
  <2> QED BY <2>3, <2>4
<1>4. \E f : Fixed(N, f)
  <2>1. N \in 0 .. N
    OBVIOUS
  <2> QED BY <1>3, <2>1
<1> DEFINE V == CHOOSE f : Fixed(N, f)
<1>5. Evaluate(g, surfs) = V[N]
  BY DEF Evaluate, Step, ChainStep, ArgOf
<1>6. Fixed(N, V)
  <2> HIDE DEF Fixed
  <2> QED BY <1>4
<1> HIDE DEF V
<1>7. \A p \in 0 .. N : V[p] = Step(V, p)
  BY <1>6
<1> QED BY <1>5, <1>7 DEF Step

\* Two values agree: in column 0, and in the other columns too if H.
Alike(u, v, H) == u.first = v.first /\ (H => u.rest = v.rest)

LEMMA ApplyAlike ==
    ASSUME NEW i, NEW u, NEW v, DOMAIN u = DOMAIN v, NEW H \in BOOLEAN,
           \A j \in DOMAIN u : Alike(u[j], v[j], H)
    PROVE  Alike(Apply(i, u), Apply(i, v), H)
<1>1. Apply(i, u).first = Apply(i, v).first
  BY ApplySame DEF Alike
<1>2. H => Apply(i, u).rest = Apply(i, v).rest
  BY ApplySame DEF Alike
<1> QED BY <1>1, <1>2 DEF Alike

\* A group whose surfaces hold what they should leaves what it should: the
\* links of its chain are what the nodes read first, and every other tensor
\* the members read is among its parameters.
LEMMA GroupRight ==
    ASSUME PlanInv, side = 0, NEW g \in GroupId, Signature(groups[g]) = groups[g].inputs,
           NEW r, NEW H \in BOOLEAN, NEW surfs, DOMAIN surfs = DOMAIN groups[g].inputs,
           \A j \in DOMAIN surfs : Alike(surfs[j], Expected(r)[groups[g].inputs[j]], H)
    PROVE  Alike(Evaluate(groups[g], surfs), Expected(r)[groups[g].output], H)
<1> DEFINE G == groups[g]
           ids == groups[g].node_ids
           ins == groups[g].inputs
           N == Len(ids)
           E == Expected(r)
           Arg(x) == ArgOf(groups[g], surfs, x)
<1>1. /\ GraphInv /\ Shaped(groups, next, side) /\ Chained(groups)
      /\ Given(groups, side) /\ Headed(groups)
      /\ groups \in Seq(Group) /\ g \in 1 .. Len(groups)
      /\ next \in 1 .. (Len(nodes) + 1) /\ Len(nodes) \in Nat
  BY GroupsAre
<1>2. /\ N \in Nat /\ DOMAIN ids = 1 .. N /\ N \in 1 .. N
      /\ DOMAIN ins = 1 .. Len(ins) /\ Len(ins) \in Nat /\ ins \in Seq(Nat)
  BY <1>1, GroupLists DEF Shaped
<1>3. \A p \in 1 .. N : ids[p] \in NodeId
  BY <1>1 DEF Shaped, NodeId
<1>4. groups[g].output = nodes[ids[N]].output
  BY <1>1 DEF Shaped
<1>5. \A x \in ToSet(ins) : Alike(Arg(x), E[x], H)
  <2> TAKE x \in ToSet(ins)
  <2>1. \E i \in DOMAIN surfs : Signature(groups[g])[i] = x
    <3>1. \E k \in 1 .. Len(ins) : ins[k] = x
      BY <1>2, ToSetIs
    <3> QED BY <1>2, <3>1
  <2> DEFINE i == CHOOSE i \in DOMAIN surfs : Signature(groups[g])[i] = x
  <2>2. i \in DOMAIN surfs /\ ins[i] = x
    BY <2>1
  <2>3. Arg(x) = surfs[i]
    BY DEF ArgOf
  <2> QED BY <2>2, <2>3
<1>6. PICK V : /\ Evaluate(groups[g], surfs) = V[N]
               /\ \A p \in 0 .. N : V[p] = ChainStep(groups[g], surfs, V, p)
  BY <1>2, EvaluateIs
<1>7. ASSUME NEW p \in 1 .. N, p = 1 \/ Alike(V[p - 1], E[nodes[ids[p - 1]].output], H)
      PROVE  Alike(V[p], E[nodes[ids[p]].output], H)
  <2> DEFINE i == ids[p]
             u == [j \in DOMAIN nodes[i].inputs |-> IF j = 1 THEN V[p - 1] ELSE Arg(nodes[i].inputs[j])]
             v == [j \in DOMAIN nodes[i].inputs |-> E[nodes[i].inputs[j]]]
  <2>1. V[p] = Apply(i, u)
    <3>1. p \in 0 .. N /\ p # 0
      <4> HIDE DEF N
      <4> QED BY <1>2
    <3>2. V[p] = ChainStep(groups[g], surfs, V, p)
      BY <1>6, <3>1, Zenon
    <3> QED BY <3>1, <3>2, Zenon DEF ChainStep
  <2>2. E[nodes[i].output] = Apply(i, v)
    BY <1>1, <1>3, ExpectedOfNode
  <2>3. ASSUME NEW j \in DOMAIN nodes[i].inputs PROVE Alike(u[j], v[j], H)
    <3>1. j \in 1 .. Len(nodes[i].inputs) /\ Len(nodes[i].inputs) \in Nat
      BY <1>1, <1>3, Lists
    <3>2. CASE j # 1 \/ p = 1
      <4>1. nodes[i].inputs[j] \in ToSet(ins)
        <5>1. \/ p > 1 /\ j = 1
              \/ nodes[i].inputs[j] \in ToSet(ins)
              \/ side # 0
          BY <1>1, <1>2, <3>1 DEF Given
        <5> QED BY <3>2, <5>1
      <4>2. Alike(Arg(nodes[i].inputs[j]), E[nodes[i].inputs[j]], H)
        BY <1>5, <4>1
      <4>3. CASE j # 1
        BY <4>2, <4>3
      <4>4. CASE j = 1 /\ p = 1
        <5>1. ins[1] = nodes[i].inputs[j]
          BY <1>1, <3>1, <4>4 DEF Headed
        <5>2. V[p - 1] = Arg(ins[1])
          <6>1. p - 1 = 0 /\ 0 \in 0 .. N
            BY <1>2, <4>4
          <6> QED BY <1>6, <6>1 DEF ChainStep
        <5> QED BY <4>2, <4>4, <5>1, <5>2
      <4> QED BY <3>2, <4>3, <4>4
    <3>3. CASE j = 1 /\ p # 1
      <4>1. p - 1 \in 1 .. (N - 1) /\ (p - 1) + 1 = p
        BY <1>2, <3>3
      <4>2. Uses(nodes[ids[p - 1]].output) = {<<i, 1>>}
        BY <1>1, <4>1 DEF Chained
      <4>3. nodes[i].inputs[1] = nodes[ids[p - 1]].output
        <5>1. <<i, 1>> \in Uses(nodes[ids[p - 1]].output) /\ i # 0
          BY <1>3, <4>2 DEF NodeId
        <5> QED BY <5>1 DEF Uses
      <4> QED BY <1>7, <3>3, <4>3
    <3> QED BY <3>2, <3>3
  <2>4. DOMAIN u = DOMAIN v
    OBVIOUS
  <2> HIDE DEF u, v
  <2>5. DOMAIN u = DOMAIN nodes[i].inputs
    BY DEF u
  <2> QED BY <2>1, <2>2, <2>3, <2>4, <2>5, ApplyAlike
<1> DEFINE Bad == {p \in 1 .. N : ~Alike(V[p], E[nodes[ids[p]].output], H)}
<1>8. Bad = {}
  <2> SUFFICES ASSUME Bad # {} PROVE FALSE
    OBVIOUS
  <2>1. PICK n \in Bad : \A m \in Bad : n <= m
    <3>1. Bad \in SUBSET Nat
      BY <1>2
    <3> HIDE DEF Bad
    <3> QED BY <3>1, Least
  <2>2. n \in 1 .. N /\ ~Alike(V[n], E[nodes[ids[n]].output], H)
    OBVIOUS
  <2>3. n = 1 \/ (n - 1 \in 1 .. N /\ ~(n <= n - 1))
    <3>1. N \in Nat /\ n \in 1 .. N
      BY <1>2, <2>2, Zenon
    <3> HIDE DEF N
    <3> QED BY <3>1
  <2>4. n = 1 \/ Alike(V[n - 1], E[nodes[ids[n - 1]].output], H)
    BY <2>1, <2>3
  <2> QED BY <1>7, <2>2, <2>4
<1>9. Alike(V[N], E[nodes[ids[N]].output], H)
  BY <1>2, <1>8
<1> QED BY <1>4, <1>6, <1>9

-----------------------------------------------------------------------------
(* The invariant                                                            *)

\* Some group goes to Path B, which leaves zeros in the other columns.
SomeClient == \E g \in GroupId : PathOf(groups[g]) = "client"

\* The buffer b of a group output x holds what the graph says.
Made(b, x) == Alike(b, Expected(runs)[x], ~SomeClient)

\* The programs, loaded as far as they are compiled, and their buffers.
ProgramInv ==
    /\ stage \in {"build", "topo", "fuse", "compile", "ready", "rejected", "threw", "released"}
    /\ stage \notin {"compile", "ready"} => programs = <<>> /\ loaded = {} /\ bufs = <<>>
    /\ stage \in {"compile", "ready"} =>
         /\ programs \in Seq({"client", "model"}) /\ Len(programs) <= Len(groups)
         /\ \A g \in 1 .. Len(programs) : programs[g] = PathOf(groups[g])
         /\ loaded = 1 .. Len(programs)
         /\ DOMAIN bufs = {groups[g].output : g \in 1 .. Len(programs)}
    /\ stage = "ready" => Len(programs) = Len(groups)

\* The running execution: the input buffers hold its data, and the groups it
\* has passed have left what they should.
RunInv ==
    /\ at \in Nat /\ runs \in Nat
    /\ stage \notin {"ready", "released"} => ret = "none"
    /\ at # 0 =>
         /\ stage = "ready" /\ at \in 1 .. (Len(groups) + 1) /\ ret = "none"
         /\ tmp = [x \in ToSet(inputs) |-> Data(x, runs)]
         /\ InNameOrder =>
              \A g \in 1 .. (at - 1) : Made(bufs[groups[g].output], groups[g].output)

ExecInv == PlanInv /\ ProgramInv /\ RunInv /\ FalseOnlyOnFault /\ ResultsRightInOrder

\* The last member of a group is a node, and the group's output is its output.
LEMMA LastMember ==
    ASSUME PlanInv, NEW g \in GroupId
    PROVE  /\ Len(groups[g].node_ids) \in 1 .. Len(groups[g].node_ids)
           /\ LastNode(groups[g]) \in NodeId /\ 0 \notin NodeId
           /\ groups[g].output = nodes[LastNode(groups[g])].output
           /\ groups[g].output \in TensorId
           /\ tensors[groups[g].output].producer = LastNode(groups[g])
<1> DEFINE p == Len(groups[g].node_ids)
<1>1. /\ GraphInv /\ Shaped(groups, next, side)
      /\ groups \in Seq(Group) /\ GroupId = 1 .. Len(groups)
      /\ next \in 1 .. (Len(nodes) + 1) /\ Len(nodes) \in Nat
  BY GroupsAre
<1>2. p \in 1 .. p
  BY <1>1, GroupLists DEF Shaped
<1>3. /\ groups[g].node_ids[p] \in NodeId /\ 0 \notin NodeId
      /\ groups[g].output = nodes[groups[g].node_ids[p]].output
  BY <1>1, <1>2 DEF Shaped, NodeId
<1>4. groups[g].output \in TensorId /\ tensors[groups[g].output].producer = groups[g].node_ids[p]
  BY <1>1, <1>3 DEF GraphInv, WellFormed
<1> QED BY <1>2, <1>3, <1>4 DEF LastNode

\* No two groups write the same tensor.
LEMMA OutputsDiffer ==
    ASSUME PlanInv, NEW g \in GroupId, NEW h \in GroupId, groups[g].output = groups[h].output
    PROVE  g = h
<1>1. LastNode(groups[g]) = LastNode(groups[h])
  BY LastMember
<1>2. /\ Len(groups[g].node_ids) \in 1 .. Len(groups[g].node_ids)
      /\ Len(groups[h].node_ids) \in 1 .. Len(groups[h].node_ids)
  BY LastMember
<1>3. Once(groups, next) /\ GroupId = 1 .. Len(groups)
  BY GroupsAre
<1> DEFINE p == Len(groups[g].node_ids)
           q == Len(groups[h].node_ids)
<1>4. groups[g].node_ids[p] = groups[h].node_ids[q]
  BY <1>1 DEF LastNode
<1>5. p \in 1 .. Len(groups[g].node_ids) /\ q \in 1 .. Len(groups[h].node_ids)
  BY <1>2
<1> HIDE DEF p, q
<1> QED BY <1>3, <1>4, <1>5 DEF Once

\* When a group is dispatched each of its inputs has a buffer, and that holds
\* what it should.
LEMMA InputHeld ==
    ASSUME PlanInv, ProgramInv, RunInv, Dispatching, NEW j \in DOMAIN groups[at].inputs
    PROVE  LET x == groups[at].inputs[j] IN
           HasBuffer(x) /\ (InNameOrder => Made(Holds(x), x))
<1> DEFINE x == groups[at].inputs[j]
<1>1. /\ GraphInv /\ Supplied(groups)
      /\ groups \in Seq(Group) /\ GroupId = 1 .. Len(groups) /\ Len(groups) \in Nat
      /\ at \in 1 .. Len(groups) /\ stage = "ready" /\ at # 0
  BY GroupsAre, GroupLists DEF Dispatching
<1>2. j \in 1 .. Len(groups[at].inputs)
  BY <1>1, GroupLists
<1>3. x \in TensorId /\ (tensors[x].producer = 0 \/ \E h \in 1 .. (at - 1) : groups[h].output = x)
  BY <1>1, <1>2 DEF Supplied
<1>4. /\ tmp = [y \in ToSet(inputs) |-> Data(y, runs)]
      /\ InNameOrder => \A g \in 1 .. (at - 1) : Made(bufs[groups[g].output], groups[g].output)
      /\ DOMAIN bufs = {groups[g].output : g \in 1 .. Len(groups)}
  BY <1>1 DEF RunInv, ProgramInv
<1>5. /\ inputs \in Seq(Nat)
      /\ \A y : y \in ToSet(inputs) <=> \E k \in 1 .. Len(inputs) : inputs[k] = y
  BY <1>1, ToSetIs DEF GraphInv, GraphTypeOK
<1> HIDE DEF x
<1>6. CASE tensors[x].producer = 0
  <2>1. x \in ToSet(inputs)
    <3>1. tensors[x].producer \notin NodeId
      BY <1>6 DEF NodeId
    <3>2. \E k \in 1 .. Len(inputs) : inputs[k] = x
      BY <1>1, <1>3, <3>1 DEF GraphInv, WellFormed
    <3> QED BY <1>5, <3>2
  <2>2. x \in DOMAIN tmp /\ Holds(x) = Data(x, runs)
    BY <1>4, <2>1 DEF Holds
  <2>3. Expected(runs)[x] = Data(x, runs)
    <3>1. Expected(runs)[x] = IdealStep(tensors, nodes, runs, Expected(runs), x)
      BY <1>1, <1>3, ExpectedIs
    <3> QED BY <1>6, <3>1 DEF IdealStep
  <2> QED BY <2>2, <2>3 DEF HasBuffer, Made, Alike, x
<1>7. CASE tensors[x].producer # 0
  <2>1. PICK h \in 1 .. (at - 1) : groups[h].output = x
    BY <1>3, <1>7
  <2>2. x \notin ToSet(inputs)
    <3>1. \A k \in 1 .. Len(inputs) : tensors[inputs[k]].producer = 0
      BY <1>1 DEF GraphInv, WellFormed
    <3>2. \A k \in 1 .. Len(inputs) : inputs[k] # x
      BY <1>7, <3>1
    <3> QED BY <1>5, <3>2
  <2>3. h \in 1 .. Len(groups)
    BY <1>1
  <2>4. x \in DOMAIN bufs /\ x \notin DOMAIN tmp
    BY <1>4, <2>1, <2>2, <2>3
  <2>5. Holds(x) = bufs[x]
    BY <2>4 DEF Holds
  <2> QED BY <1>4, <2>1, <2>4, <2>5 DEF HasBuffer, x
<1> QED BY <1>6, <1>7

\* Path B computes column 0 of its single matmul.
LEMMA ClientRight ==
    ASSUME PlanInv, side = 0, stage \notin {"build", "topo", "rejected"},
           NEW g \in GroupId, PathOf(groups[g]) = "client", NEW v,
           1 \in DOMAIN groups[g].inputs => Made(v, groups[g].inputs[1])
    PROVE  /\ 1 \in DOMAIN groups[g].inputs
           /\ Made(EvaluateClient(groups[g], v), groups[g].output)
<1> DEFINE i == groups[g].node_ids[1]
           E == Expected(runs)
           x == nodes[i].inputs[1]
           w == [j \in DOMAIN nodes[i].inputs |-> E[nodes[i].inputs[j]]]
<1>1. /\ GraphInv /\ Shaped(groups, next, side) /\ Headed(groups)
      /\ groups \in Seq(Group) /\ GroupId = 1 .. Len(groups)
      /\ next \in 1 .. (Len(nodes) + 1) /\ Len(nodes) \in Nat
  BY GroupsAre
<1>2. Len(groups[g].node_ids) = 1 /\ nodes[i].op = "MATMUL" /\ SomeClient
  BY DEF PathOf, SomeClient
<1>3. i \in NodeId /\ groups[g].output = nodes[i].output
  <2>1. LastNode(groups[g]) = i
    BY <1>2 DEF LastNode
  <2> QED BY <2>1, LastMember
<1>4. Len(nodes[i].inputs) = 1
  <2>1. NodeOK(nodes[i])
    BY <1>3 DEF PlanInv, ValidatorInv, CheckWeights
  <2> QED BY <1>2, <2>1 DEF NodeOK, LinearOK, UnaryOK, TableOK, MaskOK, BinaryOK, ConcatOK,
                            ReshapingOK, UnaryOps, BinaryOps, ReduceOps, ScatterOps, NormOps
<1>5. DOMAIN nodes[i].inputs = 1 .. 1
  BY <1>1, <1>3, <1>4, Lists
<1>6. 1 \in DOMAIN groups[g].inputs /\ groups[g].inputs[1] = x
  <2>1. Len(groups[g].inputs) >= 1 /\ groups[g].inputs[1] = x
    BY <1>1, <1>4, SMTT(30) DEF Headed
  <2> QED BY <1>1, <2>1, GroupLists
<1>7. v.first = E[x].first
  BY <1>6 DEF Made, Alike
<1>8. E[nodes[i].output] = Apply(i, w)
  BY <1>1, <1>3, ExpectedOfNode
<1>9. Apply(i, <<v>>).first = Apply(i, w).first
  <2>1. DOMAIN <<v>> = 1 .. 1 /\ DOMAIN w = 1 .. 1
    BY <1>5
  <2>2. \A j \in DOMAIN <<v>> : (<<v>>)[j].first = w[j].first
    <3>1. \A j \in 1 .. 1 : j = 1
      OBVIOUS
    <3>2. 1 \in 1 .. 1 /\ (<<v>>)[1] = v
      OBVIOUS
    <3>3. w[1] = E[x]
      BY <1>5, <3>2
    <3> HIDE DEF w, E, x
    <3> QED BY <1>7, <2>1, <3>1, <3>2, <3>3
  <2> HIDE DEF w
  <2> QED BY <2>1, <2>2, ApplySame
<1>10. EvaluateClient(groups[g], v).first = E[groups[g].output].first
  BY <1>3, <1>8, <1>9 DEF EvaluateClient
<1> QED BY <1>2, <1>6, <1>10 DEF Made, Alike

-----------------------------------------------------------------------------
(* The steps                                                                *)

\* What the invariant says of a plan does not change once it is made.
LEMMA SamePlan ==
    ASSUME UNCHANGED graphVars, UNCHANGED fuseVars
    PROVE  /\ nodes' = nodes /\ tensors' = tensors /\ inputs' = inputs /\ outputs' = outputs
           /\ groups' = groups /\ GroupId' = GroupId
           /\ \A g : PathOf(g)' = PathOf(g)
           /\ SomeClient' = SomeClient /\ InNameOrder' = InNameOrder
           /\ \A r : Expected(r)' = Expected(r)
<1>1. /\ nodes' = nodes /\ tensors' = tensors /\ inputs' = inputs /\ outputs' = outputs
      /\ groups' = groups
  BY DEF graphVars, fuseVars
<1>2. GroupId' = GroupId
  BY <1>1 DEF GroupId
<1>3. \A g : PathOf(g)' = PathOf(g)
  BY <1>1 DEF PathOf, ShapeOf
<1>4. SomeClient' = SomeClient
  BY <1>1, <1>2, <1>3 DEF SomeClient
<1>5. InNameOrder' = InNameOrder
  <2>1. ASSUME NEW g PROVE Signature(g)' = Signature(g)
    OBVIOUS
  <2> QED BY <1>1, <1>2, <2>1 DEF InNameOrder
<1>6. \A r : Expected(r)' = Expected(r)
  BY <1>1, ExpectedIdeal
<1> QED BY <1>1, <1>2, <1>3, <1>4, <1>5, <1>6

LEMMA ExecStarts == Init => ExecInv
<1> SUFFICES ASSUME Init PROVE ExecInv
  OBVIOUS
<1>1. PlanInv /\ stage = "build"
  BY PlanStarts DEF Init, PlanInit, GraphInit
<1>2. /\ programs = <<>> /\ loaded = {} /\ bufs = <<>> /\ at = 0 /\ runs = 0 /\ ret = "none"
  BY DEF Init
<1>3. ProgramInv
  BY <1>1, <1>2 DEF ProgramInv
<1>4. RunInv
  BY <1>1, <1>2 DEF RunInv
<1>5. FalseOnlyOnFault /\ ResultsRightInOrder
  BY <1>2 DEF FalseOnlyOnFault, ResultsRightInOrder, ResultsRight
<1> QED BY <1>1, <1>3, <1>4, <1>5 DEF ExecInv

\* Before the plan is complete nothing is compiled.
LEMMA PlanningKeeps ==
    ASSUME ExecInv, PlanInv', UNCHANGED <<cgVars, runVars>>,
           stage \in {"build", "topo", "fuse"},
           stage' \in {"build", "topo", "fuse", "compile", "rejected"}
    PROVE  ExecInv'
<1>1. /\ programs = <<>> /\ loaded = {} /\ bufs = <<>> /\ at = 0 /\ runs \in Nat /\ ret = "none"
  BY DEF ExecInv, ProgramInv, RunInv
<1>2. /\ programs' = <<>> /\ loaded' = {} /\ bufs' = <<>> /\ at' = 0 /\ runs' \in Nat /\ ret' = "none"
  BY <1>1 DEF cgVars, runVars
<1>3. ProgramInv'
  <2>1. Len(groups') \in Nat
    BY GroupsAre, GroupLists DEF PlanInv, FuseInv, Grouped, Shaped
  <2>2. /\ <<>> \in Seq({"client", "model"}) /\ Len(<<>>) = 0 /\ 1 .. 0 = {} /\ DOMAIN <<>> = {}
    OBVIOUS
  <2> QED BY <1>2, <2>1, <2>2 DEF ProgramInv
<1>4. RunInv'
  BY <1>2 DEF RunInv
<1>5. FalseOnlyOnFault' /\ ResultsRightInOrder'
  BY <1>2 DEF FalseOnlyOnFault, ResultsRightInOrder, ResultsRight
<1> QED BY <1>3, <1>4, <1>5 DEF ExecInv

\* While the graph is compiled nothing is executed.
LEMMA CompileKeeps ==
    ASSUME ExecInv, CompileGraph
    PROVE  ExecInv'
<1>1. /\ UNCHANGED graphVars /\ UNCHANGED fuseVars /\ UNCHANGED runVars
      /\ UNCHANGED <<graphVars, errors, topoVars, fuseVars>>
  BY DEF CompileGraph
<1>2. stage = "compile" /\ stage' \in {"compile", "ready", "rejected", "threw"}
  BY DEF CompileGraph, CompileGroup, CompileGroupFails, CompileGroupThrows, CompileBufferThrows,
         CompileEnd
<1>3. PlanInv'
  BY <1>1, <1>2, PlanSame DEF ExecInv
<1>4. /\ programs \in Seq({"client", "model"}) /\ Len(programs) \in Nat /\ Len(groups) \in Nat
      /\ Len(programs) <= Len(groups)
      /\ \A g \in 1 .. Len(programs) : programs[g] = PathOf(groups[g])
      /\ loaded = 1 .. Len(programs) /\ DOMAIN programs = 1 .. Len(programs)
      /\ DOMAIN bufs = {groups[g].output : g \in 1 .. Len(programs)}
      /\ at = 0 /\ runs \in Nat /\ ret = "none"
  BY <1>2, GroupsAre, GroupLists DEF ExecInv, ProgramInv, RunInv
<1>5. /\ groups' = groups /\ (\A g : PathOf(g)' = PathOf(g))
      /\ at' = 0 /\ runs' \in Nat /\ ret' = "none"
  BY <1>1, <1>4, SamePlan DEF runVars
<1>6. RunInv' /\ FalseOnlyOnFault' /\ ResultsRightInOrder'
  BY <1>5 DEF RunInv, FalseOnlyOnFault, ResultsRightInOrder, ResultsRight
<1>7. ASSUME stage' \in {"rejected", "threw"}, programs' = <<>>, loaded' = {}, bufs' = <<>>
      PROVE  ProgramInv'
  BY <1>7 DEF ProgramInv
<1>8. CASE CompileGroup
  <2> DEFINE n == Len(programs)
             G == groups[n + 1]
  <2>1. /\ stage' = "compile" /\ n < Len(groups) /\ programs' = Append(programs, PathOf(G))
        /\ loaded' = loaded \cup {n + 1}
        /\ bufs' = [x \in DOMAIN bufs \cup {G.output} |-> IF x = G.output THEN Junk ELSE bufs[x]]
    BY <1>2, <1>8 DEF CompileGroup
  <2>2. PathOf(G) \in {"client", "model"}
    BY DEF PathOf
  <2> HIDE DEF G
  <2>3. /\ programs' \in Seq({"client", "model"}) /\ Len(programs') = n + 1
        /\ programs'[n + 1] = PathOf(G) /\ \A g \in 1 .. n : programs'[g] = programs[g]
    BY <1>4, <2>1, <2>2
  <2>4. n + 1 <= Len(groups) /\ 1 .. (n + 1) = (1 .. n) \cup {n + 1}
    BY <1>4, <2>1
  <2> HIDE DEF n
  <2>5. loaded' = 1 .. (n + 1)
    BY <1>4, <2>1, <2>4 DEF n
  <2>6. DOMAIN bufs' = {groups'[g].output : g \in 1 .. (n + 1)}
    <3>1. DOMAIN bufs' = {groups[g].output : g \in 1 .. n} \cup {groups[n + 1].output}
      BY <1>4, <2>1 DEF n, G
    <3> QED BY <1>5, <2>4, <3>1
  <2>7. \A g \in 1 .. (n + 1) : programs'[g] = PathOf(groups[g])
    BY <1>4, <2>3, <2>4 DEF n, G
  <2>8. \A g \in 1 .. (n + 1) : programs'[g] = PathOf(groups[g])'
    BY <1>5, <2>7
  <2>9. ProgramInv'
    BY <1>5, <2>1, <2>3, <2>4, <2>5, <2>6, <2>8 DEF ProgramInv
  <2> QED BY <1>3, <1>6, <2>9 DEF ExecInv
<1>9. CASE CompileGroupFails \/ CompileGroupThrows
  <2>1. /\ stage' \in {"rejected", "threw"} /\ programs' = <<>> /\ bufs' = <<>>
        /\ loaded' = loaded \ DOMAIN programs
    BY <1>9 DEF CompileGroupFails, CompileGroupThrows, Destroy
  <2>2. loaded' = {}
    BY <1>4, <2>1
  <2> QED BY <1>3, <1>6, <1>7, <2>1, <2>2 DEF ExecInv
<1>10. CASE CompileBufferThrows
  <2>1. /\ stage' = "threw" /\ programs' = <<>> /\ bufs' = <<>>
        /\ loaded' = (loaded \cup 1 .. (Len(programs) + 1)) \ 1 .. (Len(programs) + 1)
    BY <1>10 DEF CompileBufferThrows
  <2>2. loaded' = {}
    BY <1>4, <2>1
  <2> QED BY <1>3, <1>6, <1>7, <2>1, <2>2 DEF ExecInv
<1>11. CASE CompileEnd
  <2>1. /\ stage' = "ready" /\ Len(programs) = Len(groups)
        /\ programs' = programs /\ loaded' = loaded /\ bufs' = bufs
    BY <1>11 DEF CompileEnd, cgVars
  <2>2. \A g \in 1 .. Len(programs) : programs[g] = PathOf(groups[g])'
    BY <1>4, <1>5
  <2>3. DOMAIN bufs' = {groups'[g].output : g \in 1 .. Len(programs')}
    BY <1>4, <1>5, <2>1
  <2>4. ProgramInv'
    BY <1>4, <1>5, <2>1, <2>2, <2>3 DEF ProgramInv
  <2> QED BY <1>3, <1>6, <2>4 DEF ExecInv
<1> QED BY <1>8, <1>9, <1>10, <1>11 DEF CompileGraph

\* libane_compiled_graph_release unloads every program.
LEMMA ReleaseKeeps ==
    ASSUME ExecInv, Release
    PROVE  ExecInv'
<1>1. /\ UNCHANGED graphVars /\ UNCHANGED fuseVars /\ UNCHANGED runVars
      /\ UNCHANGED <<graphVars, errors, topoVars, fuseVars>>
      /\ stage = "ready" /\ at = 0 /\ stage' = "released"
      /\ programs' = <<>> /\ bufs' = <<>> /\ loaded' = loaded \ DOMAIN programs
  BY DEF Release, Destroy
<1>2. PlanInv'
  BY <1>1, PlanSame DEF ExecInv
<1>3. loaded' = {}
  BY <1>1 DEF ExecInv, ProgramInv
<1>4. ProgramInv'
  BY <1>1, <1>3 DEF ProgramInv
<1>5. /\ at' = 0 /\ runs' = runs /\ ret' = ret /\ fault' = fault /\ out' = out /\ runs \in Nat
  BY <1>1 DEF runVars, ExecInv, RunInv
<1>6. RunInv'
  BY <1>1, <1>5 DEF RunInv
<1>7. FalseOnlyOnFault'
  BY <1>1, <1>5, SamePlan DEF ExecInv, FalseOnlyOnFault
<1>8. ResultsRightInOrder'
  <2>1. Expected(runs)' = Expected(runs)
    BY <1>1, <1>5, SamePlan
  <2>2. InNameOrder' = InNameOrder /\ SomeClient' = SomeClient /\ outputs' = outputs
    BY <1>1, SamePlan
  <2>3. ResultsRight' = ResultsRight
    BY <1>5, <2>1, <2>2 DEF ResultsRight, SomeClient
  <2> QED BY <2>2, <2>3 DEF ExecInv, ResultsRightInOrder
<1> QED BY <1>2, <1>4, <1>6, <1>7, <1>8 DEF ExecInv

\* A dispatch leaves in the buffer of its group what the graph says.
LEMMA DispatchRight ==
    ASSUME ExecInv, InNameOrder, ExecuteModel \/ ExecuteClient
    PROVE  \E v : /\ Made(v, groups[at].output)
                  /\ bufs' = [bufs EXCEPT ![groups[at].output] = v]
<1> DEFINE g == groups[at]
<1>1. /\ PlanInv /\ ProgramInv /\ RunInv /\ Dispatching /\ stage = "ready"
      /\ at \in GroupId /\ at \in 1 .. Len(groups)
  BY DEF ExecInv, ExecuteModel, ExecuteClient, Dispatching, GroupId
<1>2. side = 0
  BY <1>1 DEF PlanInv, FuseInv
<1>3. Signature(groups[at]) = groups[at].inputs
  BY <1>1 DEF InNameOrder
<1>4. \A j \in DOMAIN groups[at].inputs : Made(Holds(groups[at].inputs[j]), groups[at].inputs[j])
  BY <1>1, InputHeld
<1>5. CASE ExecuteModel
  <2> DEFINE surfs == [j \in DOMAIN groups[at].inputs |-> Holds(groups[at].inputs[j])]
  <2>1. Reorder(InputParamNames(groups[at]), surfs) = surfs
    <3>1. InputParamNames(groups[at]) = <<>>
      BY DEF InputParamNames
    <3> HIDE DEF surfs
    <3> QED BY <3>1, Zenon DEF Reorder
  <2>2. bufs' = [bufs EXCEPT ![groups[at].output] =
                    Evaluate(groups[at], Reorder(InputParamNames(groups[at]), surfs))]
    BY <1>5 DEF ExecuteModel
  <2>3. DOMAIN surfs = DOMAIN groups[at].inputs
    OBVIOUS
  <2>4. \A j \in DOMAIN surfs :
          Alike(surfs[j], Expected(runs)[groups[at].inputs[j]], ~SomeClient)
    BY <1>4 DEF Made
  <2>5. (~SomeClient) \in BOOLEAN
    OBVIOUS
  <2> HIDE DEF surfs
  <2>6. Alike(Evaluate(groups[at], surfs), Expected(runs)[groups[at].output], ~SomeClient)
    BY <1>1, <1>2, <1>3, <2>3, <2>4, <2>5, GroupRight
  <2> QED BY <2>1, <2>2, <2>6 DEF Made
<1>6. CASE ExecuteClient
  <2> DEFINE v == Holds(groups[at].inputs[1])
  <2>1. bufs' = [bufs EXCEPT ![groups[at].output] = EvaluateClient(groups[at], v)]
    BY <1>6 DEF ExecuteClient
  <2>2. PathOf(groups[at]) = "client"
    <3>1. programs[at] = "client"
      BY <1>6 DEF ExecuteClient
    <3>2. programs[at] = PathOf(groups[at])
      BY <1>1 DEF ProgramInv
    <3> QED BY <3>1, <3>2
  <2>3. 1 \in DOMAIN groups[at].inputs => Made(v, groups[at].inputs[1])
    BY <1>4
  <2> HIDE DEF v
  <2>4. Made(EvaluateClient(groups[at], v), groups[at].output)
    BY <1>1, <1>2, <2>2, <2>3, ClientRight
  <2> QED BY <2>1, <2>4
<1> QED BY <1>5, <1>6

\* Executing leaves the programs and the set of buffers alone.
LEMMA ProgramsSame ==
    ASSUME ProgramInv, UNCHANGED graphVars, UNCHANGED fuseVars,
           stage = "ready", stage' = "ready", programs' = programs, loaded' = loaded,
           DOMAIN bufs' = DOMAIN bufs
    PROVE  ProgramInv'
<1>1. groups' = groups /\ \A g : PathOf(g)' = PathOf(g)
  BY SamePlan
<1>2. /\ programs \in Seq({"client", "model"}) /\ Len(programs) <= Len(groups)
      /\ \A g \in 1 .. Len(programs) : programs[g] = PathOf(groups[g])
      /\ loaded = 1 .. Len(programs)
      /\ DOMAIN bufs = {groups[g].output : g \in 1 .. Len(programs)}
      /\ Len(programs) = Len(groups)
  BY DEF ProgramInv
<1>3. \A g \in 1 .. Len(programs) : programs[g] = PathOf(groups[g])'
  BY <1>1, <1>2
<1>4. DOMAIN bufs' = {groups'[g].output : g \in 1 .. Len(programs')}
  BY <1>1, <1>2
<1> QED BY <1>1, <1>2, <1>3, <1>4 DEF ProgramInv

\* Every action of execute.
LEMMA ExecuteKeeps ==
    ASSUME ExecInv, Execute
    PROVE  ExecInv'
<1>1. /\ UNCHANGED graphVars /\ UNCHANGED fuseVars
      /\ UNCHANGED <<graphVars, errors, topoVars, fuseVars>>
      /\ stage' = stage /\ programs' = programs /\ loaded' = loaded
  BY DEF Execute, planVars
<1>2. stage = "ready" /\ stage' = "ready"
  BY <1>1 DEF Execute, ExecuteBegin, ExecuteThrows, ExecuteModel, ExecuteClient, ExecuteFails,
              ExecuteEnd, Dispatching
<1>3. PlanInv'
  BY <1>1, PlanSame DEF ExecInv
<1>4. /\ nodes' = nodes /\ tensors' = tensors /\ inputs' = inputs /\ outputs' = outputs
      /\ groups' = groups /\ SomeClient' = SomeClient /\ InNameOrder' = InNameOrder
      /\ \A r : Expected(r)' = Expected(r)
  BY <1>1, SamePlan
<1>5. /\ PlanInv /\ ProgramInv /\ RunInv /\ GraphInv /\ Len(groups) \in Nat
      /\ GroupId = 1 .. Len(groups) /\ runs \in Nat /\ at \in Nat
      /\ DOMAIN bufs = {groups[g].output : g \in 1 .. Len(groups)}
  BY <1>2, GroupsAre, GroupLists DEF ExecInv, ProgramInv, RunInv
<1>6. ASSUME DOMAIN bufs' = DOMAIN bufs PROVE ProgramInv'
  BY <1>1, <1>2, <1>5, <1>6, ProgramsSame
<1>7. ASSUME ret' \notin {"ok", "failed"} PROVE FalseOnlyOnFault' /\ ResultsRightInOrder'
  BY <1>7 DEF FalseOnlyOnFault, ResultsRightInOrder, ResultsRight
<1>8. ASSUME at' = 0, runs' \in Nat PROVE RunInv'
  BY <1>2, <1>8 DEF RunInv
<1>9. CASE ExecuteBegin
  <2>1. /\ runs' = runs + 1 /\ at' = 1 /\ tmp' = [x \in ToSet(inputs) |-> Data(x, runs + 1)]
        /\ ret' = "none" /\ bufs' = bufs
    BY <1>9 DEF ExecuteBegin
  <2>2. tmp' = [x \in ToSet(inputs') |-> Data(x, runs')]
    BY <1>4, <2>1
  <2>3. at' \in 1 .. (Len(groups') + 1) /\ 1 .. (at' - 1) = {} /\ at' \in Nat /\ runs' \in Nat
    BY <1>4, <1>5, <2>1
  <2>4. RunInv'
    BY <1>2, <2>1, <2>2, <2>3 DEF RunInv
  <2> QED BY <1>3, <1>6, <1>7, <2>1, <2>4 DEF ExecInv
<1>10. CASE ExecuteThrows
  <2>1. at' = 0 /\ runs' = runs + 1 /\ ret' = "threw" /\ bufs' = bufs
    BY <1>10 DEF ExecuteThrows
  <2> QED BY <1>3, <1>5, <1>6, <1>7, <1>8, <2>1 DEF ExecInv
<1>11. CASE ExecuteModel \/ ExecuteClient
  <2>1. /\ at \in 1 .. Len(groups) /\ at' = at + 1 /\ tmp' = tmp /\ runs' = runs /\ ret' = ret
        /\ at # 0
    BY <1>5, <1>11 DEF ExecuteModel, ExecuteClient, Dispatching
  <2>2. ret = "none" /\ tmp = [x \in ToSet(inputs) |-> Data(x, runs)]
    BY <1>5, <2>1 DEF RunInv
  <2>3. DOMAIN bufs' = DOMAIN bufs
    BY <1>11 DEF ExecuteModel, ExecuteClient
  <2>4. tmp' = [x \in ToSet(inputs') |-> Data(x, runs')]
    BY <1>4, <2>1, <2>2
  <2>5. Expected(runs)' = Expected(runs)
    BY <1>4, <2>1
  <2>6. ASSUME InNameOrder', NEW g \in 1 .. (at' - 1)
        PROVE  Made(bufs[groups[g].output], groups[g].output)'
    <3> DEFINE x == groups[g].output
    <3>1. InNameOrder /\ g \in 1 .. at /\ g \in GroupId /\ at \in GroupId
      BY <1>4, <1>5, <2>1, <2>6
    <3>2. PICK v : Made(v, groups[at].output) /\ bufs' = [bufs EXCEPT ![groups[at].output] = v]
      BY <1>11, <3>1, DispatchRight
    <3>3. groups[at].output \in DOMAIN bufs /\ groups[g].output \in DOMAIN bufs
      BY <1>5, <3>1
    <3>4. Made(bufs'[x], x)
      <4>1. CASE g = at
        BY <3>2, <3>3, <4>1
      <4>2. CASE g # at
        <5>1. x # groups[at].output
          BY <1>5, <3>1, <4>2, OutputsDiffer
        <5>2. g \in 1 .. (at - 1)
          BY <1>5, <3>1, <4>2
        <5>3. Made(bufs[x], x)
          BY <1>5, <2>1, <3>1, <5>2 DEF RunInv
        <5>4. bufs'[x] = bufs[x]
          BY <3>2, <3>3, <5>1
        <5> QED BY <5>3, <5>4
      <4> QED BY <4>1, <4>2
    <3> QED BY <1>4, <2>5, <3>4 DEF Made, Alike
  <2>7. at' \in Nat /\ at' # 0 /\ at' \in 1 .. (Len(groups') + 1) /\ runs' \in Nat /\ ret' = "none"
    BY <1>4, <1>5, <2>1, <2>2
  <2>8. RunInv'
    BY <1>2, <2>4, <2>6, <2>7 DEF RunInv
  <2> QED BY <1>3, <1>6, <1>7, <2>3, <2>7, <2>8 DEF ExecInv
<1>12. CASE ExecuteFails
  <2>1. /\ Dispatching /\ at' = 0 /\ runs' = runs /\ ret' = "failed" /\ bufs' = bufs
        /\ fault' = \A j \in DOMAIN groups[at].inputs : HasBuffer(groups[at].inputs[j])
    BY <1>12 DEF ExecuteFails, Return
  <2>2. fault'
    BY <1>5, <2>1, InputHeld
  <2>3. FalseOnlyOnFault' /\ ResultsRightInOrder'
    BY <2>1, <2>2 DEF FalseOnlyOnFault, ResultsRightInOrder, ResultsRight
  <2> QED BY <1>3, <1>5, <1>6, <1>8, <2>1, <2>3 DEF ExecInv
<1>13. CASE ExecuteEnd
  <2> DEFINE missing == {k \in DOMAIN outputs : outputs[k] \notin DOMAIN bufs}
             copied == {k \in DOMAIN outputs : \A m \in missing : k < m}
  <2>1. /\ at = Len(groups) + 1 /\ at' = 0 /\ runs' = runs /\ bufs' = bufs /\ at # 0
        /\ out' = [k \in DOMAIN outputs |-> IF k \in copied THEN bufs[outputs[k]] ELSE out[k]]
        /\ ret' = IF missing = {} THEN "ok" ELSE "failed"
    BY <1>5, <1>13 DEF ExecuteEnd, Return
  <2>2. FalseOnlyOnFault'
    <3> SUFFICES ASSUME missing # {}
                 PROVE  \E k \in DOMAIN outputs : tensors[outputs[k]].producer = 0
      BY <1>4, <2>1 DEF FalseOnlyOnFault
    <3>1. PICK k \in DOMAIN outputs : outputs[k] \notin DOMAIN bufs
      OBVIOUS
    <3>2. next = Len(nodes) + 1
      BY <1>2, <1>5 DEF PlanInv, FuseInv
    <3>3. tensors[outputs[k]].producer = 0 \/ \E g \in GroupId : groups[g].output = outputs[k]
      BY <1>5, <3>2, OutputsLeft
    <3>4. ~\E g \in GroupId : groups[g].output = outputs[k]
      BY <1>5, <3>1
    <3> QED BY <3>3, <3>4
  <2>3. ASSUME InNameOrder, missing = {}, NEW k \in DOMAIN outputs
        PROVE  /\ out'[k].first = Expected(runs)[outputs[k]].first
               /\ out'[k].rest = Expected(runs)[outputs[k]].rest \/ SomeClient
    <3>1. out'[k] = bufs[outputs[k]] /\ outputs[k] \in DOMAIN bufs
      BY <2>1, <2>3
    <3>2. PICK g \in 1 .. Len(groups) : groups[g].output = outputs[k]
      BY <1>5, <3>1
    <3>3. g \in 1 .. (at - 1)
      BY <1>5, <2>1
    <3>4. Made(bufs[groups[g].output], groups[g].output)
      BY <1>5, <2>1, <2>3, <3>3 DEF RunInv
    <3> QED BY <3>1, <3>2, <3>4 DEF Made, Alike
  <2>4. ResultsRightInOrder'
    <3> SUFFICES ASSUME InNameOrder, missing = {} PROVE ResultsRight'
      BY <1>4, <2>1 DEF ResultsRightInOrder, ResultsRight
    <3>1. Expected(runs)' = Expected(runs)
      BY <1>4, <2>1
    <3> HIDE DEF missing
    <3> QED BY <1>4, <2>3, <3>1 DEF ResultsRight, SomeClient
  <2> QED BY <1>3, <1>5, <1>6, <1>8, <2>1, <2>2, <2>4 DEF ExecInv
<1> QED BY <1>9, <1>10, <1>11, <1>12, <1>13 DEF Execute

-----------------------------------------------------------------------------
(* The theorems                                                             *)

\* ExecInv is inductive: the plan stays consistent, the programs of groups_
\* and their buffers go with the groups compiled so far, and in an execution
\* every buffer written so far holds what the graph says.
THEOREM ExecInvariant == Spec => []ExecInv
<1>1. ExecInv /\ [Next]_vars => ExecInv'
  <2> SUFFICES ASSUME ExecInv, [Next]_vars PROVE ExecInv'
    OBVIOUS
  <2>1. CASE (Build /\ UNCHANGED <<errors, topoVars, fuseVars>>) /\ UNCHANGED <<cgVars, runVars>>
    BY <2>1, PlanBuilds, PlanningKeeps DEF ExecInv
  <2>2. CASE (Validate /\ UNCHANGED fuseVars) /\ UNCHANGED <<cgVars, runVars>>
    BY <2>2, PlanValidates, PlanningKeeps DEF ExecInv
  <2>3. CASE Fuse /\ UNCHANGED <<cgVars, runVars>>
    BY <2>3, PlanFuses, PlanningKeeps DEF ExecInv
  <2>4. CASE CompileGraph
    BY <2>4, CompileKeeps
  <2>5. CASE Execute
    BY <2>5, ExecuteKeeps
  <2>6. CASE Release
    BY <2>6, ReleaseKeeps
  <2>7. CASE UNCHANGED vars
    <3>1. /\ UNCHANGED graphVars /\ UNCHANGED fuseVars /\ stage' = stage
          /\ UNCHANGED <<graphVars, errors, topoVars, fuseVars>>
          /\ UNCHANGED <<programs, loaded, bufs, tmp, at, runs, fault, out, ret>>
      BY <2>7 DEF vars, planVars, cgVars, runVars
    <3>2. PlanInv'
      BY <3>1, PlanSame DEF ExecInv
    <3>3. /\ nodes' = nodes /\ tensors' = tensors /\ inputs' = inputs /\ outputs' = outputs
          /\ groups' = groups /\ GroupId' = GroupId /\ SomeClient' = SomeClient
          /\ InNameOrder' = InNameOrder
          /\ (\A g : PathOf(g)' = PathOf(g)) /\ \A r : Expected(r)' = Expected(r)
      BY <3>1, SamePlan
    <3>4. Expected(runs)' = Expected(runs)
      BY <3>1, <3>3
    <3>5. ProgramInv'
      BY <3>1, <3>3 DEF ExecInv, ProgramInv
    <3>6. RunInv'
      BY <3>1, <3>3, <3>4 DEF ExecInv, RunInv, Made
    <3>7. FalseOnlyOnFault'
      BY <3>1, <3>3 DEF ExecInv, FalseOnlyOnFault
    <3>8. ResultsRightInOrder'
      <4>1. ResultsRight' = ResultsRight
        BY <3>1, <3>3, <3>4 DEF ResultsRight, SomeClient
      <4> QED BY <3>3, <4>1 DEF ExecInv, ResultsRightInOrder
    <3> QED BY <3>2, <3>5, <3>6, <3>7, <3>8 DEF ExecInv
  <2> QED BY <2>1, <2>2, <2>3, <2>4, <2>5, <2>6, <2>7 DEF Next
<1> QED BY <1>1, ExecStarts, PTL DEF Spec

\* The whole pipeline keeps what GraphClosed and KahnCorrect say of building
\* and validating: the graph stays closed and acyclic and Kahn's loop right,
\* whatever compiling and executing do.
THEOREM PipelinePlans == Spec => [](PlanConsistent /\ KahnRight)
<1>1. ExecInv => PlanConsistent /\ KahnRight
  BY ConsistentFollows, KahnFollows DEF ExecInv, ProgramInv, PlanInv, Stages
<1> QED BY <1>1, ExecInvariant, PTL

\* No program outlives its CompiledGraph, whichever group failed to compile
\* and however; a usable graph has all its programs loaded.
THEOREM NoProgramLeaked == Spec => []ProgramsOwned
<1>1. ExecInv => ProgramsOwned
  <2> SUFFICES ASSUME ExecInv PROVE ProgramsOwned
    OBVIOUS
  <2> QED BY GroupsAre DEF ExecInv, ProgramInv, ProgramsOwned, Over, GroupId
<1> QED BY <1>1, ExecInvariant, PTL

\* execute fails only when a dispatch failed or an output is a graph input: no
\* group ever misses a buffer.
THEOREM FailuresExplained == Spec => []FalseOnlyOnFault
<1>1. ExecInv => FalseOnlyOnFault
  BY DEF ExecInv
<1> QED BY <1>1, ExecInvariant, PTL

\* An execution that succeeds has computed the graph, if the inputs of every
\* group are in the order of their names: fused chains, buffers kept between
\* executions and Path B's column 0 included.
THEOREM ExecutionRight == Spec => []ResultsRightInOrder
<1>1. ExecInv => ResultsRightInOrder
  BY DEF ExecInv
<1> QED BY <1>1, ExecInvariant, PTL
=============================================================================
