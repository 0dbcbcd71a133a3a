----------------------------- MODULE MilBackend -----------------------------
(***************************************************************************)
(* libane::graph::MilBackend::compile_group (src/graph/mil_backend.cpp):   *)
(* the nodes of a fusion group become the fragments of one MIL program,    *)
(* their weights become weight files, and the ANE compiler gets both.      *)
(*                                                                         *)
(* A weight file is <<node id>> ("w<id>.bin") or <<node id, "b">>          *)
(* ("w<id>b.bin").                                                         *)
(***************************************************************************)
EXTENDS FusionRules, MilFragment

VARIABLES
    gi,         \* the group being compiled
    frags,      \* fragments
    chain_var,  \* chain_var; <<>> before compile_group is entered
    entries,    \* weight_entries: file and data
    prog        \* what build_fused returned, <<>> before

milVars == <<gi, frags, chain_var, entries, prog>>

TensorVar(x) == <<x>>
Current == groups[gi]

\* The caller's weights of node i, in the order of his array.  Masks are 0/1.
IsMask(n) == n.op \in ScatterOps \cup {"GATHER"}
WeightCount(n) ==
    LET in == ShapeOf(n.inputs[1])  out == ShapeOf(n.output) IN
    CASE n.op = "MATMUL" -> in.c * out.c
      [] n.op = "RMSNORM" -> out.c
      [] n.op \in {"LAYERNORM", "LAYER_NORM"} -> 2 * out.c
      [] IsMask(n) -> out.c * out.s
      [] OTHER -> n.factor        \* PIXEL_SHUFFLE, PWL_ACTIVATION: not fp16 data
UserWeights(i) ==
    [k \in 0..(WeightCount(nodes[i]) - 1) |->
       IF IsMask(nodes[i]) THEN Num(Bit(k % 3 = 0)) ELSE Num(10 * i + 2 * k + 3)]

-----------------------------------------------------------------------------
BetaFile(i) == <<i, "b">>
GammaFile(i) == IF nodes[i].weights = "none" THEN NoFile ELSE <<i>>

\* node_to_fragment; ok is false where an emitter, or the switch's default,
\* throws.  w is weight_file; the second and third inputs are named by their
\* tensors, the first by the chain.
NodeToFragment(i, in, out) ==
    LET n == nodes[i]
        a == ShapeOf(n.inputs[1])
        o == ShapeOf(n.output)
        w == GammaFile(i)
        side2 == TensorVar(n.inputs[2])
        side3 == TensorVar(n.inputs[3]) IN
    CASE n.op = "MATMUL" -> matmul_fragment(a.c, o.c, o.s, in, out, w)
      [] n.op = "RMSNORM" -> rmsnorm_fragment(a.c, a.s, in, out, w)
      [] n.op \in {"LAYERNORM", "LAYER_NORM"} ->
           layernorm_fragment(a.c, a.s, in, out, w, BetaFile(i))
      [] n.op = "GELU" -> gelu_fragment(o.c, o.s, in, out)
      [] n.op = "SILU" -> silu_fragment(o.c, o.s, in, out)
      [] n.op = "SOFTMAX" -> softmax_fragment(o.c, o.s, in, out)
      [] n.op = "AVG_POOL" -> avg_pool_fragment(o.c, o.s, in, out)
      [] n.op = "MAX_POOL" -> max_pool_fragment(o.c, o.s, in, out)
      [] n.op = "TRANSPOSE" -> transpose_fragment(a.c, a.s, in, out)
      [] n.op = "RESHAPE" -> reshape_fragment(a.c, a.s, o.c, o.s, in, out)
      [] n.op = "ADD" -> add_fragment(o.c, o.s, in, side2, out)
      [] n.op = "MUL" -> mul_fragment(o.c, o.s, in, side2, out)
      [] n.op = "SUB" -> sub_fragment(o.c, o.s, in, side2, out)
      [] n.op = "REAL_DIV" -> real_div_fragment(o.c, o.s, in, side2, out)
      [] n.op = "LOGICAL_AND" -> logical_and_fragment(o.c, o.s, in, side2, out)
      [] n.op = "LOGICAL_OR" -> logical_or_fragment(o.c, o.s, in, side2, out)
      [] n.op = "LOGICAL_XOR" -> logical_xor_fragment(o.c, o.s, in, side2, out)
      [] n.op = "REDUCE_PROD" -> reduce_prod_fragment(a.c, a.s, in, out)
      [] n.op = "REDUCE_SUM" -> reduce_sum_fragment(a.s, in, out)
      [] n.op = "REDUCE_MEAN" -> reduce_mean_fragment(a.s, in, out)
      [] n.op = "REDUCE_MAX" -> reduce_max_fragment(a.s, in, out)
      [] n.op \in ScatterOps -> scatter_static_mask_fragment(o.c, o.s, in, side2, out, w)
      [] n.op = "GATHER" ->
           IF Len(n.inputs) = 1 THEN gather_static_mask_fragment(o.c, o.s, in, out, w)
           ELSE gather_dynamic_mask_fragment(o.c, o.s, in, side2, out)
      [] n.op = "NEG" -> neg_fragment(o.c, o.s, in, out)
      [] n.op = "MOD" -> mod_fragment(o.c, o.s, in, side2, out)
      [] n.op = "SINH" -> sinh_fragment(o.c, o.s, in, out)
      [] n.op = "COSH" -> cosh_fragment(o.c, o.s, in, out)
      [] n.op = "TAN" -> tan_fragment(o.c, o.s, in, out)
      [] n.op = "ASIN" -> asin_fragment(o.c, o.s, in, out)
      [] n.op = "ACOS" -> acos_fragment(o.c, o.s, in, out)
      [] n.op = "SELECT" -> select_fragment(o.c, o.s, in, side2, side3, out)
      [] n.op = "CONCAT" -> concat_fragment(a.c, o.c, o.s, in, side2, out)
      [] n.op = "SLICE_BY_INDEX" -> slice_by_index_fragment(a.c, a.s, o.c, o.s, in, out)
      [] n.op = "SQRT" -> sqrt_fragment(o.c, o.s, in, out)
      [] n.op = "LOG" -> log_fragment(o.c, o.s, in, out)
      [] n.op = "RSQRT" -> rsqrt_fragment(o.c, o.s, in, out)
      [] n.op = "RELU" -> relu_fragment(o.c, o.s, in, out)
      [] n.op = "TANH" -> tanh_fragment(o.c, o.s, in, out)
      [] n.op = "SIGMOID" -> sigmoid_fragment(o.c, o.s, in, out)
      [] n.op = "HARDSWISH" -> hardswish_fragment(o.c, o.s, in, out)
      [] n.op = "LEAKY_RELU" -> leaky_relu_fragment(o.c, o.s, in, out)
      [] n.op = "ELU" -> elu_fragment(o.c, o.s, in, out)
      [] n.op = "PIXEL_SHUFFLE" -> pixel_shuffle_fragment(o.c, a.s, n.factor, in, out)
      [] n.op = "PWL_ACTIVATION" -> pwl_activation_fragment(o.c, o.s, n.factor, in, out)
      [] OTHER -> Frag(FALSE, <<>>, out, NoFile, o.c, o.s)

\* The weight files of node i.
NodeEntries(i) ==
    LET n == nodes[i]
        src == UserWeights(i)
        all == WeightCount(n) IN
    IF n.weights = "none" THEN <<>> ELSE
    CASE n.op \in {"LAYERNORM", "LAYER_NORM"} ->
           <<[file |-> <<i>>, data |-> from_fp16(src, 0, all \div 2)],
             [file |-> BetaFile(i), data |-> from_fp16(src, all \div 2, all \div 2)]>>
      [] n.op = "MATMUL" ->
           <<[file |-> <<i>>, data |-> from_fp16_transposed(src, ShapeOf(n.inputs[1]).c,
                                                            ShapeOf(n.output).c)]>>
      [] OTHER -> <<[file |-> <<i>>, data |-> from_fp16(src, 0, all)]>>

-----------------------------------------------------------------------------
MilInit == gi = 1 /\ frags = <<>> /\ chain_var = <<>> /\ entries = <<>> /\ prog = <<>>

\* compile_group is entered for group gi.
MilBegin ==
    /\ stage = "compile" /\ gi <= Len(groups) /\ chain_var = <<>>
    /\ chain_var' = TensorVar(Current.inputs[1])
    /\ UNCHANGED <<gi, frags, entries, prog, stage>>

\* One turn of the loop over the group's nodes.
MilNode ==
    /\ stage = "compile" /\ chain_var # <<>> /\ Len(frags) < Len(Current.node_ids)
    /\ LET i == Current.node_ids[Len(frags) + 1]
           f == NodeToFragment(i, chain_var, TensorVar(nodes[i].output)) IN
       /\ f.ok
       /\ frags' = Append(frags, f)
       /\ chain_var' = TensorVar(nodes[i].output)
       /\ entries' = entries \o NodeEntries(i)
    /\ UNCHANGED <<gi, prog, stage>>

MilNodeThrows ==
    /\ stage = "compile" /\ chain_var # <<>> /\ Len(frags) < Len(Current.node_ids)
    /\ LET i == Current.node_ids[Len(frags) + 1] IN
       ~NodeToFragment(i, chain_var, TensorVar(nodes[i].output)).ok
    /\ stage' = "threw"
    /\ UNCHANGED milVars

MilBuild ==
    /\ stage = "compile" /\ chain_var # <<>> /\ prog = <<>>
    /\ Len(frags) = Len(Current.node_ids)
    /\ prog' = build_fused([k \in DOMAIN Current.inputs |-> TensorVar(Current.inputs[k])],
                           [k \in DOMAIN Current.inputs |-> ShapeOf(Current.inputs[k])], frags)
    /\ UNCHANGED <<gi, frags, chain_var, entries, stage>>

\* ane_compile takes the program, or returns nullptr and so does compile.
MilCompile ==
    /\ stage = "compile" /\ prog # <<>>
    /\ \/ gi' = gi + 1 /\ UNCHANGED stage
       \/ stage' = "rejected" /\ UNCHANGED gi
    /\ frags' = <<>> /\ chain_var' = <<>> /\ entries' = <<>> /\ prog' = <<>>

MilStep == MilBegin \/ MilNode \/ MilNodeThrows \/ MilBuild \/ MilCompile

-----------------------------------------------------------------------------
(* What the program of a group should be                                    *)

\* A group that was given a tensor twice declares it as two parameters.
InputsDiffer(g) == IsInjective(g.inputs)

Blobs(es) ==
    [f \in {es[k].file : k \in DOMAIN es} |->
       es[CHOOSE k \in DOMAIN es : es[k].file = f].data]

Tensor(x, val) == [type |-> T(ShapeOf(x).c, ShapeOf(x).s), val |-> val]

\* The ANE gives the surfaces, in the order of their names, to the
\* parameters in the order they are declared (constraint #13).
SurfacesOf(g, feed) ==
    LET order == SortedOrder(g.inputs) IN
    [j \in DOMAIN g.inputs |-> Tensor(g.inputs[order[j]], feed[g.inputs[order[j]]])]

\* The group's program run on the tensors feed[x].
RunProgram(feed) == Result(prog, SurfacesOf(Current, feed), Blobs(entries))

\* Node i compiled and run alone, on the values vals of its inputs, which get
\* names of their own.
RunAlone(i, vals) ==
    LET n == nodes[i]
        f == NodeToFragment(i, TensorVar(n.inputs[1]), TensorVar(n.output))
        p == Program([j \in DOMAIN n.inputs |-> TensorVar(n.inputs[j])], <<>>, f.body, f.output_name)
    IN Result(p, [j \in DOMAIN n.inputs |-> Tensor(n.inputs[j], vals[j])], Blobs(NodeEntries(i)))

\* Tensors of unknowns, and tensors of the numbers -4..4: for two inputs every
\* pair of numbers occurs.
Unknowns == [x \in TensorId |-> [i \in Index(T(ShapeOf(x).c, ShapeOf(x).s).dims) |->
                                    App("x", <<Num(x), Num(i)>>)]]
Numbers(k, j) ==
    [x \in TensorId |-> [i \in Index(T(ShapeOf(x).c, ShapeOf(x).s).dims) |->
                           Num(((k * x + j + 2 * i) % 9) - 4)]]

\* The nodes of the group one by one, each compiled alone.
NodeByNode(feed) ==
    LET g == Current
        V[p \in 1..Len(g.node_ids)] ==
          LET i == g.node_ids[p]
              ins == nodes[i].inputs
          IN RunAlone(i, [j \in DOMAIN ins |->
                            IF p > 1 /\ j = 1 THEN V[p - 1].val ELSE feed[ins[j]]])
    IN V[Len(g.node_ids)]

-----------------------------------------------------------------------------
(* What the ops mean, where that can be said without the builder's formula  *)

Has(op) == op \in {"MATMUL", "AVG_POOL", "MAX_POOL", "TRANSPOSE", "RESHAPE", "ADD", "MUL", "SUB",
                   "LOGICAL_AND", "LOGICAL_OR", "LOGICAL_XOR", "REDUCE_SUM", "REDUCE_MAX",
                   "GATHER", "NEG", "MOD", "SELECT", "CONCAT", "SLICE_BY_INDEX", "RELU",
                   "HARDSWISH", "ELU", "PIXEL_SHUFFLE", "PWL_ACTIVATION"} \cup ScatterOps

Clamp(x, lo, hi) == IF x < lo THEN lo ELSE IF x > hi THEN hi ELSE x
FloorMod(x, y) == CHOOSE r \in -4..4 : /\ IF y > 0 THEN r \in 0..(y - 1) ELSE r \in (y + 1)..0
                                       /\ \E q \in -4..4 : x = q * y + r

\* The segment of the sample table that x is on, the outer ones reaching to
\* infinity, and the straight line through its two ends.
Interpolate(n, x) ==
    LET End(k) == Sample.x_min + k * Dx(n)
        k == IF x < End(1) THEN 0 ELSE Max({j \in 0..(n - 2) : j = 0 \/ End(j) <= x})
    IN Sample.s[k + 1] + ((Sample.s[k + 2] - Sample.s[k + 1]) * (x - End(k))) \div Dx(n)

\* Element (c, s) of the output of node i for the input numbers in(j, c, s).
Meaning(i, in(_, _, _), c, s) ==
    LET n == nodes[i]
        a == ShapeOf(n.inputs[1])
        o == ShapeOf(n.output)
        x == in(1, c, s)
        y == in(2, c, s)
        w(k) == UserWeights(i)[k].num
        flat == c * o.s + s IN
    CASE n.op = "MATMUL" -> Num(MapThenSumSet(LAMBDA k : w(k * o.c + c) * in(1, k, s), 0..(a.c - 1)))
      [] n.op \in {"AVG_POOL", "MAX_POOL"} -> Num(x)
      [] n.op = "TRANSPOSE" -> Num(in(1, s, c))
      [] n.op = "RESHAPE" -> Num(in(1, flat \div a.s, flat % a.s))
      [] n.op = "ADD" -> Num(x + y)
      [] n.op = "MUL" -> Num(x * y)
      [] n.op = "SUB" -> Num(x - y)
      [] n.op = "LOGICAL_AND" -> Num(Bit(x # 0 /\ y # 0))
      [] n.op = "LOGICAL_OR" -> Num(Bit(x # 0 \/ y # 0))
      [] n.op = "LOGICAL_XOR" -> Num(Bit((x # 0) # (y # 0)))
      [] n.op = "REDUCE_SUM" -> Num(MapThenSumSet(LAMBDA k : in(1, k, s), 0..(a.c - 1)))
      [] n.op = "REDUCE_MAX" -> Num(Max({in(1, k, s) : k \in 0..(a.c - 1)}))
      [] n.op \in ScatterOps -> Num(IF w(flat) = 1 THEN y ELSE x)
      [] n.op = "GATHER" -> Num(x * (IF Len(n.inputs) = 1 THEN w(flat) ELSE y))
      [] n.op = "NEG" -> Num(-x)
      [] n.op = "MOD" -> Num(FloorMod(x, y))
      [] n.op = "SELECT" -> Num(IF x # 0 THEN y ELSE in(3, c, s))
      [] n.op = "CONCAT" -> Num(IF c < a.c THEN x ELSE in(2, c - a.c, s))
      [] n.op = "SLICE_BY_INDEX" -> Num(x)
      [] n.op = "RELU" -> Num(IF x > 0 THEN x ELSE 0)
      [] n.op = "HARDSWISH" ->
           Elem("mul", <<Num(x), Elem("mul", <<Num(Clamp(x + 3, 0, 6)), Real("0.16667")>>)>>)
      [] n.op = "ELU" -> IF x > 0 THEN Num(x) ELSE App("sub", <<App("exp", <<Num(x)>>), Num(1)>>)
      [] n.op = "PIXEL_SHUFFLE" -> Num(in(1, c * n.factor + (s % n.factor), s \div n.factor))
      [] n.op = "PWL_ACTIVATION" -> Num(Interpolate(n.factor, x))

\* The programs MilBuilder has for the op of node i alone, their parameters in
\* the order of the node's inputs.
OwnPrograms(i) ==
    LET n == nodes[i]
        a == ShapeOf(n.inputs[1])
        c == ShapeOf(n.output).c
        s == ShapeOf(n.output).s
        w == GammaFile(i) IN
    CASE n.op = "MATMUL" -> {matmul_conv1x1(a.c, c, s, w), qkv_proj(a.c, c, 1, s, w)}
      [] n.op = "RMSNORM" -> {rmsnorm(c, s, w)}
      [] n.op \in {"LAYERNORM", "LAYER_NORM"} -> {layernorm(c, s, w, BetaFile(i))}
      [] n.op = "GELU" -> {gelu(c, s)}
      [] n.op = "SILU" -> {silu(c, s)}
      [] n.op = "SOFTMAX" -> {softmax(c, s)}
      [] n.op = "AVG_POOL" -> {avg_pool(c, s)}
      [] n.op = "MAX_POOL" -> {max_pool(c, s)}
      [] n.op = "TRANSPOSE" -> {transpose_cssc(a.c, a.s)}
      [] n.op = "ADD" -> {add(c, s)}
      [] n.op = "MUL" -> {mul(c, s)}
      [] n.op = "SUB" -> {sub(c, s)}
      [] n.op = "REAL_DIV" -> {real_div(c, s)}
      [] n.op = "LOGICAL_AND" -> {logical_and(c, s)}
      [] n.op = "LOGICAL_OR" -> {logical_or(c, s)}
      [] n.op = "LOGICAL_XOR" -> {logical_xor(c, s)}
      [] n.op = "REDUCE_PROD" -> {reduce_prod(a.c, a.s)}
      [] n.op \in ScatterOps -> {scatter_static_mask(c, s, w)}
      [] n.op = "GATHER" /\ Len(n.inputs) = 1 -> {gather_static_mask(c, s, w)}
      [] n.op = "GATHER" /\ Len(n.inputs) = 2 -> {gather_dynamic_mask(c, s)}
      [] n.op = "NEG" -> {neg(c, s)}
      [] n.op = "MOD" -> {mod(c, s)}
      [] n.op = "SINH" -> {sinh(c, s)}
      [] n.op = "COSH" -> {cosh(c, s)}
      [] n.op = "TAN" -> {tan(c, s)}
      [] n.op = "ASIN" -> {asin(c, s)}
      [] n.op = "ACOS" -> {acos(c, s)}
      [] n.op = "SELECT" -> {select(c, s)}
      [] n.op = "SQRT" -> {sqrt(c, s)}
      [] n.op = "LOG" -> {log(c, s)}
      [] n.op = "RSQRT" -> {rsqrt(c, s)}
      [] OTHER -> {}

-----------------------------------------------------------------------------
(* Properties, of the program of the current group once it is built.  What  *)
(* they say is asked of groups that take no tensor twice.                   *)

Built == prog # <<>> /\ InputsDiffer(Current)

\* The output tensor of node i has the shape its op makes, which the validator
\* does not ask of every op.
ShapeFits(i) ==
    LET n == nodes[i]
        a == ShapeOf(n.inputs[1])
        o == ShapeOf(n.output) IN
    /\ n.op \in BinaryOps => ShapeOf(n.inputs[2]) = o
    /\ CASE n.op = "MATMUL" -> o.s = a.s
         [] n.op = "TRANSPOSE" -> o = Sh(a.s, a.c)
         [] n.op = "PIXEL_SHUFFLE" -> o = Sh(a.c \div n.factor, a.s * n.factor)
         [] n.op \in {"CONCAT", "RESHAPE", "SLICE_BY_INDEX"} \cup ReduceOps -> TRUE
         [] OTHER -> o = a

Fits(g) == \A i \in Members(g) : ShapeFits(i)
HasConcat(g) == \E i \in Members(g) : nodes[i].op = "CONCAT"

\* The types the emitters declare, from shapes node_to_fragment picks, are the
\* types of what the statements compute, and the program's result has the shape
\* of the group's output tensor.
TypesDeclared ==
    LET env == Environment(prog, SurfacesOf(Current, Unknowns), Blobs(entries)) IN
    /\ TypesOK(prog, env)
    /\ env[prog.ret].type = T(ShapeOf(Current.output).c, ShapeOf(Current.output).s)

\* Every weight file the program names is handed to the compiler once, with as
\* many elements as the program declares; the two files of a norm are together
\* what the caller gave, gamma in front.
WeightsHanded ==
    \A k \in DOMAIN prog.body :
        prog.body[k].op = "file" =>
            /\ \E e \in DOMAIN entries :
                 /\ entries[e].file = prog.body[k].val
                 /\ DOMAIN entries[e].data = Index(prog.body[k].type.dims)
            /\ \A e, d \in DOMAIN entries : entries[e].file = entries[d].file => e = d
            /\ \A i \in Members(Current) : prog.body[k].val = BetaFile(i) =>
                 LET c == ShapeOf(nodes[i].output).c IN
                 UserWeights(i) = [m \in 0..(2 * c - 1) |->
                     IF m < c THEN Blobs(entries)[<<i>>][m] ELSE Blobs(entries)[BetaFile(i)][m - c]]

\* Whatever ops a group chains, the program that build_fused and
\* node_to_fragment make of it is one the compiler takes as meant: no fragment
\* uses a variable of another one and every variable is defined once, before it
\* is read; the types are those of what is computed; the weights are there.
\* CONCAT's types are ConcatTypesRight's.
ProgramWellFormed ==
    /\ Built => NamesOK(prog)
    /\ Built /\ Fits(Current) => WeightsHanded
    /\ Built /\ Fits(Current) /\ ~HasConcat(Current) => TypesDeclared

\* The types of the groups with a CONCAT, whose output has the channels of both
\* inputs together.
ConcatTypesRight == Built /\ Fits(Current) /\ HasConcat(Current) => TypesDeclared

\* A fused program computes what its nodes compute one after the other, each
\* compiled alone, with the surfaces given in the order of their names.
FusedRight ==
    Built /\ Fits(Current) => RunProgram(Unknowns).val = NodeByNode(Unknowns).val

Alone == Built /\ Fits(Current) /\ Len(Current.node_ids) = 1
Sole == Current.node_ids[1]

\* The program of a node alone computes what the op's name says, on numbers.
\* Division by 0 is left out.
MeaningRight ==
    Alone /\ Has(nodes[Sole].op) =>
        \A k, j \in 0..8 :
            LET feed == Numbers(k, j)
                val == RunProgram(feed).val
                o == ShapeOf(Current.output)
                in(m, c, s) ==
                  LET x == nodes[Sole].inputs[m] IN feed[x][c * ShapeOf(x).s + s].num
            IN \A c \in 0..(o.c - 1), s \in 0..(o.s - 1) :
                 \/ nodes[Sole].op = "MOD" /\ in(2, c, s) = 0
                 \/ val[c * o.s + s] = Meaning(Sole, in, c, s)

\* MilBuilder has every op twice: the fragment of a node alone computes what
\* the op's program of its own, the one libane_compile uses, computes from the
\* same inputs and weight files; and a product with a sum after it computes
\* what out_proj_add does.
TwinsAgree ==
    LET args(ids) == [j \in DOMAIN ids |-> Tensor(ids[j], Unknowns[ids[j]])]
        first == nodes[Sole]
        second == nodes[LastNode(Current)]
        out == ShapeOf(Current.output) IN
    /\ Alone => \A own \in OwnPrograms(Sole) :
         Result(own, args(first.inputs), Blobs(entries)) = RunProgram(Unknowns)
    /\ /\ Built /\ Fits(Current)
       /\ Len(Current.node_ids) = 2 /\ first.op = "MATMUL" /\ second.op = "ADD"
       => Result(out_proj_add(ShapeOf(first.inputs[1]).c, out.c, out.s, <<Sole>>),
                 args(<<second.inputs[2], first.inputs[1]>>), Blobs(entries)) = RunProgram(Unknowns)
=============================================================================
