---------------------------- MODULE FusionRules -----------------------------
(***************************************************************************)
(* libane::graph::FusionRules (src/graph/fusion_rules.cpp): the partition  *)
(* of a validated graph's nodes into fusion groups, each compiled to one   *)
(* ANE program.  compute_groups walks the nodes in order and either        *)
(* extends the last group or starts a new one; a step is one node.         *)
(***************************************************************************)
EXTENDS GraphValidator

VARIABLES
    groups,     \* the groups so far: node_ids, inputs, output
    next,       \* the node compute_groups looks at
    side        \* the input of the node just added that the loop over its
                \* side inputs looks at; 0 outside that loop

fuseVars == <<groups, next, side>>

-----------------------------------------------------------------------------
OpSupported(op) == op \notin {"CONV2D", "CAST"}

\* Everyone who reads tensor x: input j of node i as <<i, j>>, and the
\* caller, who gets it as output k, as <<0, k>>.
Uses(x) ==
    (UNION {{<<i, j>> : j \in {j \in DOMAIN nodes[i].inputs : nodes[i].inputs[j] = x}} : i \in NodeId})
      \cup {<<0, k>> : k \in {k \in DOMAIN outputs : outputs[k] = x}}

\* Mutant of ConsumerCount: an output of the graph does not count as a use.
ConsumersAmongNodes(x) == Cardinality({u \in Uses(x) : u[1] # 0})

ConsumerCount(x) == Cardinality(Uses(x))

Members(g) == {g.node_ids[p] : p \in DOMAIN g.node_ids}
LastNode(g) == g.node_ids[Len(g.node_ids)]

\* Rules 1a, 1b, 2 and 3 of can_extend.
CanExtend(g, i) ==
    /\ g.node_ids # <<>>
    /\ OpSupported(nodes[i].op)
    /\ nodes[i].inputs # <<>>
    /\ nodes[i].inputs[1] = nodes[LastNode(g)].output
    /\ ConsumerCount(nodes[LastNode(g)].output) = 1
    /\ WeightFile(i) # 0 => \A m \in Members(g) : WeightFile(m) # WeightFile(i)
    /\ Len(nodes[i].inputs) >= 2 =>
         \A m \in Members(g) : nodes[m].output # nodes[i].inputs[2]

FuseInit == groups = <<>> /\ next = 1 /\ side = 0

LastGroup == groups[Len(groups)]

\* Mutant of ExtendGroup: the node is handled again after it was added.
ExtendGroupKeepsNext ==
    /\ stage = "fuse" /\ side = 0 /\ next <= Len(nodes)
    /\ groups # <<>> /\ CanExtend(LastGroup, next)
    /\ groups' = [groups EXCEPT ![Len(groups)] =
                    [LastGroup EXCEPT !.node_ids = Append(@, next), !.output = nodes[next].output]]
    /\ UNCHANGED <<next, side, stage>>

ExtendGroup ==
    /\ stage = "fuse" /\ side = 0 /\ next <= Len(nodes)
    /\ groups # <<>> /\ CanExtend(LastGroup, next)
    /\ groups' = [groups EXCEPT ![Len(groups)] =
                    [LastGroup EXCEPT !.node_ids = Append(@, next), !.output = nodes[next].output]]
    /\ side' = 2
    /\ next' = next + 1
    /\ UNCHANGED stage

\* Mutant of AddSideInput: only graph inputs join the group's.
AddSideInputGraphOnly ==
    /\ stage = "fuse" /\ side # 0 /\ side <= Len(nodes[next - 1].inputs)
    /\ LET x == nodes[next - 1].inputs[side] IN
       IF x \in ToSet(LastGroup.inputs) \/ tensors[x].producer # 0
         THEN UNCHANGED groups
         ELSE groups' = [groups EXCEPT ![Len(groups)].inputs = Append(@, x)]
    /\ side' = side + 1
    /\ UNCHANGED <<next, stage>>

\* The inputs of the added node but the first join the group's, unless they
\* are there.
AddSideInput ==
    /\ stage = "fuse" /\ side # 0 /\ side <= Len(nodes[next - 1].inputs)
    /\ LET x == nodes[next - 1].inputs[side] IN
       IF x \in ToSet(LastGroup.inputs)
         THEN UNCHANGED groups
         ELSE groups' = [groups EXCEPT ![Len(groups)].inputs = Append(@, x)]
    /\ side' = side + 1
    /\ UNCHANGED <<next, stage>>

SideInputsDone ==
    /\ stage = "fuse" /\ side # 0 /\ side > Len(nodes[next - 1].inputs)
    /\ side' = 0
    /\ UNCHANGED <<groups, next, stage>>

NewGroup ==
    /\ stage = "fuse" /\ side = 0 /\ next <= Len(nodes)
    /\ ~(groups # <<>> /\ CanExtend(LastGroup, next))
    /\ groups' = Append(groups, [node_ids |-> <<next>>,
                                 inputs |-> nodes[next].inputs,
                                 output |-> nodes[next].output])
    /\ next' = next + 1
    /\ UNCHANGED <<side, stage>>

\* compute_groups returns and build_plan hands its plan to compile, which goes
\* on only when the runtime has an ANE.
FuseEnd ==
    /\ stage = "fuse" /\ side = 0 /\ next > Len(nodes)
    /\ stage' \in {"compile", "rejected"}
    /\ UNCHANGED fuseVars

Fuse ==
    /\ ExtendGroup \/ AddSideInput \/ SideInputsDone \/ NewGroup \/ FuseEnd
    /\ UNCHANGED <<graphVars, errors, topoVars>>

-----------------------------------------------------------------------------
\* The planner on its own: build, validate, fuse.
planVars == <<graphVars, stage, errors, topoVars, fuseVars>>

PlanInit == GraphInit /\ ValidatorInit /\ FuseInit

PlanDone ==
    stage \in {"compile", "rejected"} /\ UNCHANGED planVars

PlanNext ==
    \/ Build /\ UNCHANGED <<errors, topoVars, fuseVars>>
    \/ Validate /\ UNCHANGED fuseVars
    \/ Fuse
    \/ PlanDone

PlanSpec == PlanInit /\ [][PlanNext]_planVars

-----------------------------------------------------------------------------
Group == [node_ids : Seq(Nat), inputs : Seq(Nat), output : Nat]

\* The stages of a graph, those of the modules that go on from here included.
Stages == {"build", "topo", "fuse", "compile", "ready", "rejected", "threw", "released"}

\* The graph is acyclic and closed (WellFormed) whatever was added to it, and
\* stays so while it is compiled; the planner's variables have their types.
PlanConsistent ==
    /\ GraphTypeOK /\ WellFormed
    /\ ValidatorTypeOK
    /\ stage \in Stages
    /\ groups \in Seq(Group)
    /\ next \in Nat \ {0}
    /\ side \in Nat

GroupId == 1..Len(groups)

\* compute_groups puts every node it has looked at in exactly one group, once.
Partition ==
    \A i \in 1..(next - 1) :
        \E g \in GroupId : \E p \in DOMAIN groups[g].node_ids :
            /\ groups[g].node_ids[p] = i
            /\ \A h \in GroupId : \A q \in DOMAIN groups[h].node_ids :
                 groups[h].node_ids[q] = i => h = g /\ q = p

\* Fusing hides a tensor only when nobody misses it: the output of every
\* member of a group but the last is read by the next member, as its first
\* input, and by nobody else: no other input of that member, no other node,
\* and not the caller.  So every tensor the caller asked for is a graph input
\* or is left behind by a group, where the executor can copy it from.
HiddenUnread ==
    /\ \A g \in GroupId : \A p \in 1..(Len(groups[g].node_ids) - 1) :
         Uses(nodes[groups[g].node_ids[p]].output) = {<<groups[g].node_ids[p + 1], 1>>}
    /\ stage = "compile" =>
         \A k \in DOMAIN outputs :
            \/ tensors[outputs[k]].producer = 0
            \/ \E g \in GroupId : groups[g].output = outputs[k]

\* The groups run in order: every tensor a group takes from outside is a
\* graph input or the output of an earlier group, so it has a buffer by then.
\* In particular no group takes a tensor it makes itself, although can_extend
\* looks at only one of the side inputs.  And a group is given every tensor
\* its members read, apart from the links of its chain.
InputsSupplied ==
    /\ \A g \in GroupId : \A j \in DOMAIN groups[g].inputs :
         LET x == groups[g].inputs[j] IN
         \/ tensors[x].producer = 0
         \/ \E h \in 1..(g - 1) : groups[h].output = x
    /\ side = 0 =>
         \A g \in GroupId : \A p \in DOMAIN groups[g].node_ids :
            LET ins == nodes[groups[g].node_ids[p]].inputs IN
            \A j \in DOMAIN ins : (p > 1 /\ j = 1) \/ ins[j] \in ToSet(groups[g].inputs)
=============================================================================
