--------------------------- MODULE GraphExecutor ----------------------------
(***************************************************************************)
(* GraphCompiler::compile and GraphExecutor::execute (src/graph/): the     *)
(* planned groups are compiled one by one into a CompiledGraph, which is   *)
(* then executed, several times, and released.                             *)
(*                                                                         *)
(* What a tensor holds is a symbolic value: which op was applied to what.  *)
(* It has two parts, column 0 and the other columns, because Path B works  *)
(* on column 0 only.  The ops of the model act on each column separately,  *)
(* as 1x1 convolutions and elementwise ops do.                             *)
(***************************************************************************)
EXTENDS FusionRules

CONSTANTS
    PathB,      \* runtime::path_b_available()
    Tile,       \* the shapes with seq == 16
    MaxRuns     \* bound: executions of the compiled graph

ASSUME ExecAssumption ==
    /\ PathB \in BOOLEAN
    /\ Tile \subseteq Shape
    /\ MaxRuns \in Nat
    /\ MaxInputs + MaxNodes <= 10   \* the names "t0".."t9" sort like the ids

VARIABLES
    programs,   \* groups_: the path of each compiled group's program
    loaded,     \* the groups whose program is on the device
    bufs,       \* ane_bufs_: what the buffer of each group output holds
    tmp,        \* tmp_input_bufs: what the buffers of the graph inputs hold
    at,         \* the group execute dispatches, 0 outside execute
    runs,       \* executions so far; it also tells their input data apart
    fault,      \* a device call of the current execution failed
    out,        \* the caller's destinations, in output order
    ret         \* what execute returned

cgVars == <<programs, loaded, bufs>>
runVars == <<tmp, at, runs, fault, out, ret>>
vars == <<planVars, cgVars, runVars>>

-----------------------------------------------------------------------------
(* Values                                                                   *)

Term(f, n, r, args) == [f |-> f, n |-> n, r |-> r, args |-> args]
Both(v) == [first |-> v, rest |-> v]
Zero == Term("zero", 0, 0, <<>>)
Junk == Both(Term("junk", 0, 0, <<>>))
Data(x, r) == Both(Term("input", x, r, <<>>))   \* the caller's input x in run r

Apply(i, vals) ==
    [first |-> Term("node", i, 0, [j \in DOMAIN vals |-> vals[j].first]),
     rest |-> Term("node", i, 0, [j \in DOMAIN vals |-> vals[j].rest])]

\* What tensor x is in run r by the graph alone, node by node.
Expected(r) ==
    LET V[x \in TensorId] ==
          IF tensors[x].producer = 0 THEN Data(x, r)
          ELSE LET i == tensors[x].producer
               IN Apply(i, [j \in DOMAIN nodes[i].inputs |-> V[nodes[i].inputs[j]]])
    IN V

-----------------------------------------------------------------------------
(* GraphCompiler::compile                                                   *)

\* RoutingBackend: HwxBackend and MilBackend make an in-memory model,
\* EspressoBackend a client model.
PathOf(g) ==
    LET i == g.node_ids[1] IN
    IF /\ PathB /\ Len(g.node_ids) = 1
       /\ nodes[i].op = "MATMUL" /\ ShapeOf(nodes[i].output) \in Tile
      THEN "client" ELSE "model"

\* node_to_fragment throws on an op it has no fragment for.
HasFragment(g) == \A i \in Members(g) : nodes[i].op \notin {"CAST", "CONV2D"}

\* ~CompiledGraph unloads the programs of groups_ and drops the buffers.
Destroy ==
    /\ loaded' = loaded \ DOMAIN programs
    /\ programs' = <<>>
    /\ bufs' = <<>>

CompileGroup ==
    /\ stage = "compile" /\ Len(programs) < Len(groups)
    /\ LET g == groups[Len(programs) + 1] IN
       /\ HasFragment(g)
       /\ programs' = Append(programs, PathOf(g))
       /\ loaded' = loaded \cup {Len(programs) + 1}
       /\ bufs' = [x \in DOMAIN bufs \cup {g.output} |-> IF x = g.output THEN Junk ELSE bufs[x]]
    /\ UNCHANGED stage

\* Mutant of CompileGroupFails: the handles in groups_ are dropped without
\* ane_unload.
CompileGroupFailsLeaks ==
    /\ stage = "compile" /\ Len(programs) < Len(groups)
    /\ HasFragment(groups[Len(programs) + 1])
    /\ stage' = "rejected"
    /\ programs' = <<>> /\ bufs' = <<>>
    /\ UNCHANGED loaded

\* compile_group returns nullptr: compile returns nullptr, which destroys
\* what was compiled so far.
CompileGroupFails ==
    /\ stage = "compile" /\ Len(programs) < Len(groups)
    /\ HasFragment(groups[Len(programs) + 1])
    /\ stage' = "rejected"
    /\ Destroy

\* An exception leaves compile: there is no fragment for the op.
CompileGroupThrows ==
    /\ stage = "compile" /\ Len(programs) < Len(groups)
    /\ ~HasFragment(groups[Len(programs) + 1])
    /\ stage' = "threw"
    /\ Destroy

\* The pool has no memory for the output buffer of a group whose program is
\* already in groups_: std::bad_alloc leaves compile.
CompileBufferThrows ==
    /\ stage = "compile" /\ Len(programs) < Len(groups)
    /\ HasFragment(groups[Len(programs) + 1])
    /\ stage' = "threw"
    /\ LET all == 1..(Len(programs) + 1) IN
       loaded' = (loaded \cup all) \ all
    /\ programs' = <<>> /\ bufs' = <<>>

CompileEnd ==
    /\ stage = "compile" /\ Len(programs) = Len(groups)
    /\ stage' = "ready"
    /\ UNCHANGED cgVars

CompileGraph ==
    /\ CompileGroup \/ CompileGroupFails \/ CompileGroupThrows \/ CompileBufferThrows \/ CompileEnd
    /\ UNCHANGED <<graphVars, errors, topoVars, fuseVars, runVars>>

\* libane_compiled_graph_release
Release ==
    /\ stage = "ready" /\ at = 0
    /\ stage' = "released"
    /\ Destroy
    /\ UNCHANGED <<graphVars, errors, topoVars, fuseVars, runVars>>

-----------------------------------------------------------------------------
(* GraphExecutor::execute                                                   *)

\* Mutant of ExecuteBegin: a recycled buffer keeps the data of the first run.
ExecuteBeginStale ==
    /\ stage = "ready" /\ at = 0 /\ runs < MaxRuns
    /\ runs' = runs + 1
    /\ at' = 1
    /\ tmp' = [x \in ToSet(inputs) |-> Data(x, 1)]
    /\ fault' = FALSE
    /\ out' = [k \in DOMAIN outputs |-> Junk]
    /\ ret' = "none"
    /\ UNCHANGED bufs

\* The input buffers are acquired and filled with the caller's data.
ExecuteBegin ==
    /\ stage = "ready" /\ at = 0 /\ runs < MaxRuns
    /\ runs' = runs + 1
    /\ at' = 1
    /\ tmp' = [x \in ToSet(inputs) |-> Data(x, runs + 1)]
    /\ fault' = FALSE
    /\ out' = [k \in DOMAIN outputs |-> Junk]
    /\ ret' = "none"
    /\ UNCHANGED bufs

\* The pool has no memory for an input buffer: std::bad_alloc leaves execute.
ExecuteThrows ==
    /\ stage = "ready" /\ at = 0 /\ runs < MaxRuns
    /\ runs' = runs + 1
    /\ ret' = "threw"
    /\ UNCHANGED <<bufs, tmp, at, fault, out>>

\* execute returns r; the guard gives the input buffers back to the pool.
Return(r) ==
    /\ ret' = r
    /\ at' = 0
    /\ tmp' = <<>>
    /\ UNCHANGED runs

HasBuffer(x) == x \in DOMAIN tmp \cup DOMAIN bufs
Holds(x) == IF x \in DOMAIN tmp THEN tmp[x] ELSE bufs[x]

\* build_fused declares the parameters in the order of their names.
Signature(g) == SortSeq(g.inputs, <)

\* extract_input_params looks for "name:"; the text of build_fused says
\* "tensor<...> name", so it finds no name.
InputParamNames(g) == <<>>

\* ane_execute_multi puts the surfaces in the order of the parameter names it
\* has; surface i is the i-th name.
Reorder(names, surfs) ==
    IF Len(surfs) > 1 /\ names # <<>>
      THEN LET alpha == SortSeq([i \in DOMAIN names |-> i], LAMBDA a, b : names[a] < names[b])
           IN [i \in DOMAIN surfs |-> surfs[alpha[i]]]
      ELSE surfs

\* The ANE gives surface i to the i-th parameter in the order of the names
\* (constraint #13), then runs the fragments: each takes the result of the one
\* before it as first input and its side inputs by name.
Evaluate(g, surfs) ==
    LET Arg(x) == surfs[CHOOSE i \in DOMAIN surfs : Signature(g)[i] = x]
        V[p \in 0..Len(g.node_ids)] ==
          IF p = 0 THEN Arg(g.inputs[1])
          ELSE LET i == g.node_ids[p]
               IN Apply(i, [j \in DOMAIN nodes[i].inputs |->
                              IF j = 1 THEN V[p - 1] ELSE Arg(nodes[i].inputs[j])])
    IN V[Len(g.node_ids)]

\* Path B: column 0 is extracted, run, and put back over zeros.
EvaluateClient(g, v) ==
    [first |-> Apply(g.node_ids[1], <<v>>).first, rest |-> Zero]

Dispatching == stage = "ready" /\ at \in 1..Len(groups)

ExecuteModel ==
    /\ Dispatching /\ programs[at] = "model"
    /\ LET g == groups[at]
           surfs == [j \in DOMAIN g.inputs |-> Holds(g.inputs[j])] IN
       /\ \A j \in DOMAIN g.inputs : HasBuffer(g.inputs[j])
       /\ bufs' = [bufs EXCEPT ![g.output] = Evaluate(g, Reorder(InputParamNames(g), surfs))]
    /\ at' = at + 1
    /\ UNCHANGED <<tmp, runs, fault, out, ret>>

ExecuteClient ==
    /\ Dispatching /\ programs[at] = "client"
    /\ LET g == groups[at] IN
       /\ HasBuffer(g.inputs[1])
       /\ bufs' = [bufs EXCEPT ![g.output] = EvaluateClient(g, Holds(g.inputs[1]))]
    /\ at' = at + 1
    /\ UNCHANGED <<tmp, runs, fault, out, ret>>

\* Mutant of ExecuteFails: a refused dispatch starts the groups over.
ExecuteFailsRetries ==
    /\ Dispatching
    /\ at' = 1
    /\ UNCHANGED <<bufs, tmp, runs, fault, out, ret>>

\* execute returns false: a buffer the group needs is not there, or the
\* device refuses the dispatch.
ExecuteFails ==
    /\ Dispatching
    /\ fault' = \A j \in DOMAIN groups[at].inputs : HasBuffer(groups[at].inputs[j])
    /\ Return("failed")
    /\ UNCHANGED <<bufs, out>>

\* The outputs are copied in turn from the buffers of the CompiledGraph; the
\* first one that has none ends the call.
ExecuteEnd ==
    /\ stage = "ready" /\ at = Len(groups) + 1
    /\ LET missing == {k \in DOMAIN outputs : outputs[k] \notin DOMAIN bufs}
           copied == {k \in DOMAIN outputs : \A m \in missing : k < m} IN
       /\ out' = [k \in DOMAIN outputs |-> IF k \in copied THEN bufs[outputs[k]] ELSE out[k]]
       /\ Return(IF missing = {} THEN "ok" ELSE "failed")
    /\ UNCHANGED <<bufs, fault>>

Execute ==
    /\ \/ ExecuteBegin \/ ExecuteThrows \/ ExecuteModel \/ ExecuteClient
       \/ ExecuteFails \/ ExecuteEnd
    /\ UNCHANGED <<planVars, programs, loaded>>

-----------------------------------------------------------------------------
Over == stage \in {"rejected", "threw", "released"}

Init ==
    /\ PlanInit
    /\ programs = <<>> /\ loaded = {} /\ bufs = <<>>
    /\ tmp = <<>> /\ at = 0 /\ runs = 0 /\ fault = FALSE /\ out = <<>> /\ ret = "none"

Next ==
    \/ (Build /\ UNCHANGED <<errors, topoVars, fuseVars>>) /\ UNCHANGED <<cgVars, runVars>>
    \/ (Validate /\ UNCHANGED fuseVars) /\ UNCHANGED <<cgVars, runVars>>
    \/ Fuse /\ UNCHANGED <<cgVars, runVars>>
    \/ CompileGraph
    \/ Execute
    \/ Release
    \/ Over /\ UNCHANGED vars

\* Compiling and executing run to their end once started: there is no lock and
\* no wait in them but the device calls, which return.
Running ==
    \/ (TopoStep \/ ValidateEnd) /\ UNCHANGED <<fuseVars, cgVars, runVars>>
    \/ Fuse /\ UNCHANGED <<cgVars, runVars>>
    \/ CompileGraph
    \/ at # 0 /\ Execute

Spec == Init /\ [][Next]_vars /\ WF_vars(Running)

-----------------------------------------------------------------------------
\* The surfaces of every group are in the order of the names of its
\* parameters, so that each parameter gets its own tensor.
InNameOrder ==
    \A g \in GroupId : Signature(groups[g]) = groups[g].inputs

\* An execution that returns true has computed the graph: every output is
\* what the nodes say, applied one by one to the data of THIS execution;
\* nothing is left from an earlier execution or lost in a fused chain.  That
\* is so in column 0, and in the others as well unless a group went to Path B.
ResultsRight ==
    ret = "ok" =>
        \A k \in DOMAIN outputs :
            LET want == Expected(runs)[outputs[k]] IN
            /\ out[k].first = want.first
            /\ \/ out[k].rest = want.rest
               \/ \E g \in GroupId : PathOf(groups[g]) = "client"

\* ResultsRight, for the plans whose groups take their inputs in name order.
ResultsRightInOrder == InNameOrder => ResultsRight

\* execute returns false only when a dispatch failed, or when the caller asked
\* for a graph input as an output.
FalseOnlyOnFault ==
    ret = "failed" => fault \/ \E k \in DOMAIN outputs : tensors[outputs[k]].producer = 0

\* No program outlives its CompiledGraph: whichever group failed to compile,
\* and however, all the programs compiled before it are unloaded; and while
\* the graph is usable every program of it is loaded.
ProgramsOwned ==
    /\ Over => loaded = {}
    /\ stage = "ready" => loaded = GroupId

\* libane_graph_compile comes to an end, through Kahn's loop, the fusion loop
\* and the compilation of each group, and so does every execution.
Returns ==
    /\ stage = "topo" ~> (stage = "ready" \/ Over)
    /\ at # 0 ~> at = 0
=============================================================================
