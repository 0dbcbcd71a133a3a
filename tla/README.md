# libane in TLA+

libane gives programs access to the Apple Neural Engine through a private
framework. It builds MIL program text, compiles it, keeps the compiled programs
in a cache, moves tensors through IOSurface buffers, and compiles whole graphs
of operations by fusing chains of them. This project models the parts of it
that keep state and the programs it generates, checks them with TLC on small
instances, and proves with TLAPS, for every size, that the cache, the buffer
pool, the operation API, the graph pipeline, the HWX backend and the runtime
wrapper are correct, that the program of every fused group is well formed and
computes what its nodes do, and that bundles, surface sizes and converted
weights are right.

Paths below are relative to the repository root.

## The system

| Part | State | Operations | Talks to |
|---|---|---|---|
| Compile cache (`src/core/compile_cache.*`) | LRU list, map, byte count, counters, one read-write lock | `get`, `put`, `flush` | operation API; runtime (an entry's destructor unloads its program) |
| Operation API (`src/libane.cpp`) | forced backend, the cache singleton, handles | `libane_compile`, `_execute`, `_execute2`, `_delta_reload`, `_release`, `_matmul_f16`, `_matmul_f32`, `_set_backend`, `_cache_flush`, `_compile_batch`, `_mil_*` | all the others |
| Buffer pool (`src/core/buffer_manager.*`) | idle buffers by size, tensor metadata of each buffer | `acquire*`, `release`, `flush`, copies | operation API, graph compiler and executor |
| Graph IR (`src/graph/ane_graph.*`) | tensors, nodes, graph inputs and outputs | `add_input`, `add_op`, `mark_output` | graph API |
| Validator, fusion (`src/graph/graph_validator.*`, `fusion_rules.*`) | in-degrees and queue; groups | `validate`, `compute_groups` | graph compiler |
| Graph compiler, executor (`src/graph/graph_compiler.*`, `graph_executor.*`) | programs and output buffers of a `CompiledGraph` | `compile`, `execute`, destruction | backends, pool, runtime |
| Backends (`src/graph/hwx_*`, `espresso_*`, `mil_backend.*`) | HWX templates and op configurations, per thread | `compile_group`, `capture`, `emit` | runtime; model directories on disk |
| Runtime (`src/runtime/ane_runtime.*`) | state, symbols; the Objective-C objects of each program | `initialize`, `ane_compile`, `ane_load_hwx`, `ane_load_mlmodelc`, `ane_execute*`, `ane_delta_reload`, `ane_unload` | private framework (external) |
| MIL builder (`src/core/mil_builder.*`) | none | a program and a fragment of a program for each op, `build_fused`, weight blobs | operation API, MIL backend |
| Fallback, bindings, tools | none | arithmetic, wrapping | |

What is hard here: threads that share cache entries and buffers; the lookup of
the cache, which takes its lock twice; lookup, compile and store without a lock
around them; programs freed by the last reference; exceptions and failures in
the middle of a compilation; manual reference counting across early returns;
model directories shared by threads; orders (of nodes, groups, surfaces and
parameters) decided in different files; and some hundred hand-written pieces of
program text whose names, types, constants and formulas no compiler of the
build looks at. `PROJECT.json` lists these hazards with
their lines.

What makes each part correct, in a sentence. The cache is an atomic LRU cache
within its budget. A program is not freed while it is used, and a call that
reports success has computed what the caller asked for. A generated program is
well formed and computes what its nodes mean. A buffer belongs to one
call at a time and no buffer is lost. A valid graph is accepted and its nodes
are ordered. Fusion hides only what nobody reads and gives each group all it
needs. An execution returns the values of the graph for its own data. A
backend never changes what a program computes. Everything retained, loaded and
mapped is released, unloaded and unmapped, once.

## Modules

| Module | Models |
|---|---|
| `LruOps` | constants of the cache, operations on its list |
| `LruCache` | abstract specification: an atomic byte-bounded LRU cache |
| `CompileCache` | the cache as written; implements `LruCache` |
| `CompileCacheProofs` | its proofs |
| `LibaneApi`, `LibaneApiProofs` | the operation API over `LruCache`, and the life of entries; its proofs |
| `BufferPool`, `BufferPoolProofs` | the pool under concurrent executions; its proofs |
| `AneGraph` | building a graph |
| `GraphValidator` | `validate`; extends `AneGraph` |
| `FusionRules`, `FusionRulesProofs` | `compute_groups`; extends `GraphValidator`; `PlanSpec` is build, validate, fuse; the theorems about the three, and the lemmas about MIL programs and fragments that `RoutingBackendProofs` rests on |
| `GraphExecutor`, `GraphExecutorProofs` | compile, execute, release; extends `FusionRules`; its proofs |
| `HwxEmitter` | HWX binaries and the patcher, `patch_op` |
| `HwxBackend`, `HwxBackendProofs` | the HWX backend, the emitter's caches and `ane_load_hwx`; extends `HwxEmitter`; proofs of both |
| `AneRuntime`, `AneRuntimeProofs` | initialization and the ownership of framework objects; its proofs |
| `Mil` | external: the statements, types and meaning of the MIL programs the builder writes |
| `MilBuilder` | the builder's programs of one op; extends `Mil` |
| `MilFragment` | its fragments and `build_fused`; extends `MilBuilder` |
| `MilBackend` | `node_to_fragment` and `compile_group`; extends `FusionRules` and `MilFragment` |
| `EspressoBackend` | the Espresso backend and the bundle its builder writes; extends `MilBackend` |
| `IoAlloc` | the search for the surface size of a graph; extends `FusionRules` |
| `HalfFloat` | the fp16 and fp32 conversions of weights |
| `RoutingBackend`, `RoutingBackendProofs` | `GraphCompiler::compile` with its router; composes the four above; its proofs |
| `MC*` | small instances for TLC |

**CompileCache.** Sections under the lock that do not loop are one step. `get`
is two steps (`GetHit`, `GetPromote`), as it releases the shared lock in
between; `put` is `PutBegin`, `PutEvict` as often as needed, and `PutInsert`,
with `writer` naming the thread that holds the lock. `before` is a history
variable: the list when the current `put` took the lock. While a `put` runs,
the abstract list is `before`, so that the whole of `put` is one abstract step,
at `PutInsert`. Entries are created by the caller and put at most once.

**LibaneApi.** The cache is used through its promise, `LruCache`, which the
proof and the run `cache` justify. `model` tells for each entry whether its
program is loaded, unloaded or freed; `Reap` frees the entries to which neither
the cache, nor a handle, nor a call in progress refers. `code` tells whether
the program was compiled with the weights as given or transposed.
Compilation and execution are separate steps from lookup and store, so other
threads come in between. `libane_compile` and `libane_compile_batch` are one
loop over `requests`, of which the first has one; `Deliver` ends a turn of it.
`broken` is a history variable: the entries whose last reload failed.

**BufferPool.** A call acquires and fills an input buffer, acquires an output
buffer, runs, copies out, and its guards release both in reverse order; any
allocation may throw. What a buffer holds is a value, so that a mix-up between
calls shows in a result.

**AneGraph, GraphValidator, FusionRules, GraphExecutor** are one pipeline; the
variable `stage` says where a graph is in it. `AneGraph` leaves out calls that
throw, because they change nothing. `GraphValidator` runs Kahn's loop a node at
a time; the other checks are operators, `check_weights` for all 49 ops by the
kinds of cases it has. A node's weights are none, of exactly the size asked
for, or wrong.
`FusionRules` handles a node, or one side input, in a step. `GraphExecutor`
gives tensors symbolic values: which op was applied to which values of which
execution. A value has two parts, column 0 and the rest, since Path B
(Espresso) computes column 0 only, as `tests/test_espresso_backend.cpp` says.
The ANE matches surfaces to parameters by the order of names; names `t0`..`t9`
sort like numbers, which is why graphs have at most ten tensors
(`ExecAssumption`).

**HwxEmitter, HwxBackend.** A binary is a record of what the patcher reads or
writes: the magic number, the size of the file, the four op words, the headers
of `__text` and `__const`, the addresses in the load commands, and where the
contents of `__const` are, with the real offsets. `text_for` and `const_for`
name the shape whose sizes the parts the patcher does not know of hold. What
the framework's compiler makes is external and stated as `CompilerAssumption`,
after `hwx_emitter.hpp:17-28`: an op's words and its number of words are the
same at every shape, `__const` depends on the shape alone, and a compiled
binary is well laid out. Words that a longer text has beyond the template's are
zeros after patching; whether the hardware minds is not known, and the model does
not tell them apart. Nor does it look at what follows `__const` in a file. The
directory of the stub is a function of its text, that is, of shape and tensor
names; a captured file may be missing or not an HWX file.

**AneRuntime.** `refs` counts retains minus releases for each object of a
program; `fields` is the set of its non-null pointers. Every framework call may
fail. `HasStringId` says whether the firmware's model answers `string_id`.

**Mil, MilBuilder, MilFragment.** A program is a sequence of statements (name,
declared type, operation, operands), not text. A fragment's local variable
`t3_sq` is `<<3, "sq">>`, so that clashes of names can be seen. `Mil` runs a
program on exact values: a number where the operation has an integer value and
a term (`tanh` applied to ...) where it has none, so that programs that compute
the same by the same formula have equal results. Each builder function is an
operator of the same name.

**MilBackend, EspressoBackend, IoAlloc, RoutingBackend.** Compiling a group
takes a step per node, as its fragment and its weight files are made; a step
for the fused program; and one for the compiler, which may refuse. The bundle
of Path B is written file by file, and each write may fail. The surface size is
found turn by turn. `Init` of `RoutingBackend` is any graph of a given set that
the validator accepts.

**HalfFloat.** A number is its three fields; the widths are parameters. The
subnormal loop of `fp16_to_fp32` keeps its wrapping exponent.

Operators called "mutant" in a comment are deliberate errors: each breaks one
property, which shows that the property can fail.

## Runs

Passing runs:

| Run | Instance | Shows |
|---|---|---|
| `cache` | 2 threads, 3 keys, 4 entries of sizes 1 to 4, budget 3, 3 lookups | list and map agree, byte count exact, budget kept, refinement of `LruCache`, every `put` returns |
| `api` | 2 threads, 3 keys, 3 entries, room for one; single requests and batches of two in which one is refused | no use after free, handles usable, right results, batches reported right |
| `pool` | 2 threads, 4 buffers, 2 sizes, 2 layouts, 1 idle buffer kept | exclusive ownership, bounded idle lists, sizes and metadata match, no leak, own results |
| `graph` | both paths, 1 input, 3 nodes of 5 kinds (MATMUL, SUB, CAST, one without inputs, one that is refused), 2 outputs, 2 executions | ids consistent, Kahn's loop right and without false alarms, right results in name order, false only on faults, programs owned, compile and execute return |
| `backends` | every graph of 3 nodes of 4 kinds (1, 2 and 3 inputs), with its last tensor, or that and an earlier one, as outputs; every op alone on 4 shapes with its inputs in any order, every pair of ops fused, products with odd channel counts, every weight of a 7-bit format | partition, nothing read is hidden, inputs supplied in time and complete; programs well formed, fused programs compute what their nodes do, meaning of the ops, programs and fragments agree, bundles complete and equal to Path A, surface size right, weights survive conversion |
| `hwx` | 2 threads with different tensor names, 3 ops of 63, 65 and 70 words, 2 shapes, 3 calls each | the backend, patching included, changes nothing; no stub stays loaded |
| `runtime` | 2 threads initialize, 2 programs | references, mappings and loaded models balanced; initialize agrees and returns |

Why the bounds are enough. An entry larger than the budget, one that fills it
and small ones are all there, so eviction of none, one and all entries happens;
two threads are enough for every race between two sections, and the proofs
remove the bound. With one idle buffer kept, recycling, overflow and allocation
all happen. Three nodes give a chain interrupted by a node of another chain, a
fork, a join, a tensor read twice by the same node, and a three-input op that
reads a tensor of the chain it continues. Two executions are enough to see data
of an earlier one. A fragment refers only to its inputs and to what it defines,
so a clash or a wrong link between fragments shows in a pair. Two to four
channels and columns tell a transposed, swapped or doubled dimension from the
right one. The lane of 4 bytes, the least size of 8 and 3 turns of the search
scale 64, 49152 and 40960 down so that the search ends at once, after some
turns, and at its limit. The formats of 3 exponent and 3 mantissa bits and of 5
and 5 have subnormals that need each number of shifts, and a wide format whose
range contains the narrow one, as fp32 does fp16's. Of the three texts of `hwx`,
two have the lengths `hwx_emitter.hpp` quotes, between which `__const` moves by
64 bytes, up or down; the third differs in length from the first and leaves
`__const` where it is. Files that end with `__const` must grow, those with
padding need not. Three calls are enough to capture a template and a
configuration at different shapes and to use them. In `api`, threads and the
entries of one key are interchangeable, and the run uses that symmetry.

Runs that show a disagreement between the code and what the repository says of
it (details and quotations in `PROJECT.json`):

| Run | Shows |
|---|---|
| `api_shared_key` | `libane_compile` and `libane_matmul_f16` share cache keys for programs with different weight layouts |
| `graph_order` | groups with inputs not in name order get them permuted |
| `hwx_race` | threads sharing a stub directory load each other's binary |
| `half_float` | `fp32_to_fp16` gives zero for a subnormal half and infinity for NaN |
| `mil_concat` | the program of a CONCAT declares its result with the first input's channels counted twice |

Observations met while modelling, without a run of their own. About the
operation API:

- `libane_matmul_f16` caches an entry even when the compilation failed
  (`src/libane.cpp:631`); `libane_compile` with the same key returns a handle to
  it, which can never execute, where `include/libane.h:172` says "Opaque handle,
  or NULL on failure". `HandleUsable` holds in `api` because the two are given
  different keys there.
- After a failed reload the dead program stays in the cache: the release and
  compile that `include/libane.h:258` advises return it again
  (`src/libane.cpp:537`). In `HandleUsable` such a handle is an exception.
- `libane_compile` looks into the cache before it asks for the backend, and
  `libane_execute` never asks, so with the CPU forced a cached program is
  returned and run on the ANE (`src/libane.cpp:209`; `include/libane.h:310` says
  "to force CPU fallback", `tests/test_c_api.cpp:76` expects nullptr).
- `libane_compile` of a LAYERNORM hands gamma and beta over as one blob under
  gamma's file name.
- An exception from the second `acquire` of a `libane_mil_*` function destroys the
  first buffer instead of returning it to the pool: the buffers there are not in
  guards.

About graphs:

- `compute_groups` tries only the last group, so two chains interleaved in node
  order are left in pieces, although `fusion_rules.hpp:5` calls groups maximal.
- An output that is a graph input passes validation but has no buffer in the
  `CompiledGraph`, so every execution of the graph returns false (the exception
  in `FalseOnlyOnFault`).
- `GraphCompiler::compile` throws when an op has no fragment or a buffer cannot
  be allocated (`CompileGroupThrows`, `CompileBufferThrows`), although
  `graph_compiler.hpp:155` says it never throws.
- On a firmware whose model does not answer `string_id` (`HasStringId = FALSE`)
  the exception handler forgets two retained objects, and `RefsOwned` fails.
- `ane_load_mlmodelc` does not unload the model when a surface cannot be created
  (the exception in `ModelsOwned`).
- `check_weights` does not compare the output shape of unary ops, norms, MOD and
  the logical ops with the input's, nor MATMUL's lengths, so `Fits` is a
  hypothesis of the properties of generated programs. It accepts CAST, which
  no backend has a fragment for, and S must be a multiple of 16 where
  `graph_validator.hpp` says 8.
- A PIXEL_SHUFFLE factor of 0 is reported and then divided by
  (`src/graph/graph_validator.cpp:291`).
- The surface size is chosen by the strides of graph inputs and outputs;
  a tensor between groups has a surface of that size too, and its stride is
  never looked at (`src/graph/graph_compiler.cpp:98`). When the search reaches
  its limit, the last size it leaves has not been tried.

About the generated programs:

- `fp32_to_fp16` truncates where IEEE 754 rounds to nearest; that it also loses
  subnormals and NaN is the run `half_float`. `WeightsSurvive` is about the
  other weights, and about the exact widening on Path B.
- The Espresso backend says that it owns products with seq == 1
  (`espresso_backend.hpp:11`), and its code owns those with seq == 16.
- The bundle directories of Path B are never removed; `inner_product` announces
  a bias that is never written.
- `build_fused` says that `all_weight_names` lists every file
  (`mil_builder.hpp:642`); a layernorm's beta file is missing from it.
- Softmax is described as over S and written with axis 1; `qkv_proj` is described
  with three outputs and returns one.
- `pwl_activation` divides by the width of a segment, which is 0 when the ends of
  its table coincide; PIXEL_SHUFFLE and PWL_ACTIVATION hand over weight files
  that their programs do not name.

Others:

- The disk cache directory is stored and never used; `get` counts a hit before it
  finds the entry gone; a group that starts with `op(x, x)` declares the
  parameter `x` twice.

## Fairness

`CompileCache!FairSpec`: weak fairness of the steps of a thread inside `put`,
which holds the lock and waits for nothing. `GraphExecutor!Spec`: weak fairness
of the steps of a compilation or execution in progress; they take no lock that
another step of the model holds, and device calls return. Starting one is up to
the caller and not fair. `AneRuntime!Spec`: weak fairness of the steps inside
`initialize`; `std::call_once` wakes its waiters. The other specifications have
no fairness and only safety properties are checked of them.

## Proofs

*Cache* (`CompileCacheProofs`), for any keys, entries, sizes, budget and
threads. From `CacheAssumption` and `BoundAssumption`. `BytesExact` is not
inductive alone: to know that removing an entry takes its size off the total one
needs that the list has no repetitions and that it and the map hold the same
entries, also in the middle of `put`, where the key of the new entry must be
absent and the entry itself unused. The inductive invariant adds these facts.
The total size is a cardinality of byte cells, so that the finite-set theorems
give its additivity. From the invariant follow `TypeCorrect`,
`MapAndListAgree`, `ByteCountExact` and `BudgetKept`; `Refinement` shows that
each step is a step of `LruCache` or leaves its variables unchanged. For
`PutInsert` one shows that what the eviction loop has left is the longest
prefix of the list at the start of `put` that leaves room for the new entry.

*Pool* (`BufferPoolProofs`), for any buffers, sizes, layouts and threads. The
inductive invariant joins the checked invariants with what a call holds at each
point of its way and what its buffers contain: between copying in and running,
the input buffer holds the call's own data because nobody else holds the
buffer. `BuffersExclusive`, `PoolBounded`, `BuffersFit`, `MetadataRight`,
`BuffersAccounted` and `ResultsOwn` follow.

*Operation API* (`LibaneApiProofs`), for any threads, keys, entries and batches.
The invariant says for each call where it is, what it holds and how far its
batch has come; that whatever a call, a handle or the cache refers to is not
freed; and what the program of each entry computes. `NothingFreedInUse`,
`ApiTypes` and the action property `BatchesReported` hold without conditions.
`HandlesUsable` and `ResultsCorrect` are of the form `[](KeysApart => ...)`:
`KeysApart`, a statement about the constants, says that no product of
`libane_matmul_f16` has the cache key of a compilation. The run
`api_shared_key` shows what happens without it, and the run `api` is an
instance that satisfies it.

*Graph pipeline* (`FusionRulesProofs`, `GraphExecutorProofs`), for graphs of any size, and as many executions as one
likes. The invariant is built along the stages.

- The graph (`GraphInv`): every tensor is an input or the output of its
  producer, and a node reads only tensors older than its own output.
- Kahn's loop (`Kahn`): the in-degree of a node is the number of its
  predecessors not yet taken, and the nodes with none left are in the queue or
  taken, each once. With an acyclic graph the loop cannot stop early: the
  least node not taken would have all its predecessors taken. `KahnCorrect`
  and `GraphClosed` follow.
- The groups (`Grouped`), in the middle of the loop over side inputs too:
  `Shaped` (members and output), `Once` (each node in one place), `Chained`
  (the output of a member that is not the last has one use), `Supplied` (what
  a group takes is a graph input or made by an earlier group), `Given` (a
  group takes what its members read) and `Headed` (its first parameter is what
  its first member reads first). `Supplied` holds although `can_extend`
  compares a single side input: a side input made inside the group would be a
  second use of a link of the chain, or the link itself, and rule 1b excludes
  both. `GroupsPartition`, `NothingMissed` and `GroupsSupplied` follow.
- Compilation and execution (`ExecInv`): the loaded programs and the buffers
  are those of the groups compiled so far; during an execution the input
  buffers hold its data, and the buffer of each group passed holds the value
  of its output by the graph alone. `GroupRight` is the heart of it: a program
  given the right values computes, link by link, the value of its last node;
  and a later group never overwrites the buffer of an earlier one
  (`OutputsDiffer`). `NoProgramLeaked`, `FailuresExplained` and
  `ExecutionRight` follow; `PipelinePlans` carries what was proved of the plan
  through them. `ExecutionRight` keeps the condition `InNameOrder`,
  which the run `graph_order` shows to be needed.

`Reachable`, `Expected` and `Evaluate` are recursive functions. What they
compute is proved by showing, with a least counterexample (`Least`), that a
function equal to its own recursive step exists on every initial part of its
domain.

*HWX backend* (`HwxBackendProofs`), for any threads, requests, ops, shapes and
text lengths, from `CompilerAssumption`.
`StubsUnloaded` is unconditional; `AdditiveApart` assumes `DirsApart`, that no
two threads compile nodes of one shape with the same names (otherwise: the run
`hwx_race`). `PatchRight` is about the patcher alone: from a well laid out
template it makes a well laid out binary of the new op, whatever the two
lengths. It needs that `__const` lies behind `__text`, so that its old address
differs from that of `__text` and nothing else is rewritten; the cases are equal
lengths, another length with `__const` in its place, and `__const` moved. The
invariant of the backend then says that every cached template computes some op
at its shape and every cached configuration is that of its op (`Cached`), and
what the stub directory of each thread contains at each point of its call.

*Runtime* (`AneRuntimeProofs`), for any threads and programs. At every point of
every call, an object's count is what the program points to plus what the call
in progress has retained and not yet stored or released. `InitializeAgrees`,
`MappingsKnown` and `ModelsAccounted` are unconditional; `ReferencesBalanced`
is for firmware whose model answers `string_id`.

*Backends* (`RoutingBackendProofs`; the lemmas about programs and fragments are
in `FusionRulesProofs`), for every set of graphs a caller can have built, with
nodes, chains, channels and columns of any number. The invariant has four parts:
`BackInv` (the planner's `PlanInv`, carried through the compilation), `AllocInv`
(every size tried before the present one fails some stride), `EspressoInv` (the
files of the bundle written so far are those of the group) and `MilInv` (below).

- `BackendPlans`: `Partition`, `HiddenUnread` and `InputsSupplied` for the groups
  the backends are given.
- `SurfacesHold`: `AllocRight`, for any lane, least size and number of turns,
  64, 49152 and 40960 among them.
- `HalvesSurvive`: `WeightsSurvive`, for any widths of the two formats that
  `HalfAssumption` allows, those of fp16 and fp32 among them. Truncating and
  shifting are divisions by powers of two; the subnormal loop is shown to find
  the one shift that brings the leading bit to its place.
- `BundlesRight`: `BundleRight`. A loaded bundle is complete, and the product it
  describes is, weight by weight, the product in Path A's program.
- `ProgramsRight`: `ProgramWellFormed`. `MilInv` says that the fragments made so
  far are those of the group's members in order, that `chain_var` is the last
  one's output, that the weight entries are the members' files, each once, and
  that the program is `build_fused` of all this. Every emitter's body is `Neat`
  (all its names belong to the node, none twice, each defined before it is read,
  the last one is the output), names only the node's files, and is `Fine` (given
  declared operands of the node's shapes, each statement has the type it
  declares). PWL_ACTIVATION, whose body is as long as its table, has a section
  of its own. Bodies of different nodes have no name in common, so the bodies
  one after another (`Flattened`) are again neat.
- `FusingRight`: `FusedRight`. In a run of a neat body every variable has the
  outcome of its statement (`RunSettles`), and there is one such environment
  (`SettledOnce`). A fragment alone and inside the chain reads equal inputs and
  equal files, so it settles equally; along the chain, the last values agree.

`Built` and `Fits` stay in these statements as they stand in the properties: a
group does not take a tensor twice, and the shapes `check_weights` does not
compare agree. The types of groups with a CONCAT are left out, as in the
property; the run `mil_concat` shows why.
`Pow2`, `Run`, `FlattenSeq` and `NodeByNode` are recursive too, and are treated
like `Reachable`.

The assumptions are the named ones of the modules (`CacheAssumption`,
`BoundAssumption`, `GraphAssumption`, `ExecAssumption`, `GraphsAssumption`,
`HalfAssumption`, `CompilerAssumption` and so on); each is evaluated by TLC on the instances of the
runs. `GraphAssumption` has the dimensions of tensors positive, because
`TensorShape::validate` throws otherwise. Of `ExecAssumption` the bound of
ten tensors, which makes names sort like numbers, is used by no proof: it is
there to make `Signature` right.

Only model-checked. Liveness (`Returns`, that every `put` and every `initialize`
returns), which the prover does not handle. `MeaningRight`, which evaluates
programs on concrete numbers: for every size this would need what sums over any
number of channels compute, an induction over data for each op. `TwinsAgree`,
which compares the two programs the builder has of each op: that they are well
formed and chain rightly is proved of the fragments, that both use the same
formula is compared term by term, which is evaluation and left to TLC.

## Not modelled

The CPU fallback (floating-point arithmetic without state), IOReport sampling
(hardware counters), bindings, tools and examples. The `libane_mil_*`
functions, which hand a caller's own program text to the runtime. The Espresso
builder's layers other than `inner_product`, which the library never asks for.
Tensor layouts and strides are abstracted to metadata in the pool. Rounding:
programs are run on exact values, and of the conversions only what they do to a
pattern is modelled. The hash of the weights: a key stands for them. The
private framework is external: what its calls do is taken from how the code
uses them, and so is the meaning of MIL.

## Plan

Done: the cache and its refinement, the pool, the API with batches, the graph
pipeline for all ops, the generated programs, the output of both backends, the
surface size, the ownership of framework objects; the safety proofs of all of
these. Left:

1. Proof: `TwinsAgree`, op by op; the run lemmas reduce it to comparing terms.
2. `Surface`: packing and unpacking with strides, as inverse functions.
