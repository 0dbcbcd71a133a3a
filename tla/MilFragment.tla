---------------------------- MODULE MilFragment -----------------------------
(***************************************************************************)
(* The fragment emitters of libane::mil::MilBuilder and build_fused        *)
(* (src/core/mil_builder.cpp), which writes a sequence of fragments as one *)
(* program.                                                                *)
(***************************************************************************)
EXTENDS MilBuilder

CONSTANT Sample     \* the table of PWL_ACTIVATION: x_min, x_max, samples (from 1)

\* MilFragment.  `ok` is false when the emitter throws.
Frag(ok, body, out, file, c, s) ==
    [ok |-> ok, body |-> body, output_name |-> out, weight_file |-> file,
     output_shape |-> Sh(c, s)]

NoFile == <<>>

\* Most emitters take one shape, and their result has it.
Plain(c, s, body, out, file) == Frag(Valid(Sh(c, s)), body, out, file, c, s)

\* The body is a single operation.
One(c, s, op, args, out) == Plain(c, s, <<Let(T(c, s), out, op, args)>>, out, NoFile)

-----------------------------------------------------------------------------
matmul_fragment(ic, oc, s, in, out, f) ==
    LET p(n) == Append(out, n) IN
    Frag(Valid(Sh(ic, s)) /\ Valid(Sh(oc, s)),
         <<File(ConvW(oc, ic), p("W"), f), Let(T(oc, s), out, "conv", <<p("W"), in>>)>>,
         out, f, oc, s)

rmsnorm_fragment(c, s, in, out, f) ==
    LET p(n) == Append(out, n) IN
    Plain(c, s, <<
        Let(T(c, s), p("sq"), "mul", <<in, in>>),
        Attr(p("ax"), 1),
        LetWith(Row(s), p("ss"), "reduce_sum", <<p("sq")>>, p("ax")),
        Lit(p("invd"), App("1/C", <<Num(c)>>)),
        Let(Row(s), p("ms"), "mul", <<p("ss"), p("invd")>>),
        Lit(p("eps"), Real("9.765625e-4")),
        Let(Row(s), p("mse"), "add", <<p("ms"), p("eps")>>),
        Lit(p("nh"), Real("-0.5")),
        Let(Row(s), p("rr"), "pow", <<p("mse"), p("nh")>>),
        Let(T(c, s), p("xr"), "mul", <<in, p("rr")>>),
        File(Col(c), p("w"), f),
        Let(T(c, s), out, "mul", <<p("xr"), p("w")>>)>>, out, f)

layernorm_fragment(c, s, in, out, g, b) ==
    LET p(n) == Append(out, n) IN
    Plain(c, s, <<
        Attr(p("ax"), 1),
        LetWith(Row(s), p("mean"), "reduce_mean", <<in>>, p("ax")),
        Let(T(c, s), p("cent"), "sub", <<in, p("mean")>>),
        Let(T(c, s), p("sq"), "mul", <<p("cent"), p("cent")>>),
        LetWith(Row(s), p("var"), "reduce_mean", <<p("sq")>>, p("ax")),
        Lit(p("eps"), Real("eps")),
        Let(Row(s), p("veps"), "add", <<p("var"), p("eps")>>),
        Lit(p("nh"), Real("-0.5")),
        Let(Row(s), p("rstd"), "pow", <<p("veps"), p("nh")>>),
        Let(T(c, s), p("norm"), "mul", <<p("cent"), p("rstd")>>),
        File(Col(c), p("g"), g),
        Let(T(c, s), p("sc"), "mul", <<p("norm"), p("g")>>),
        File(Col(c), p("beta"), b),
        Let(T(c, s), out, "add", <<p("sc"), p("beta")>>)>>, out, g)

\* Mutant of gelu_fragment: the last product takes the scaled argument.
gelu_fragment_scaled(c, s, in, out) ==
    LET p(n) == Append(out, n) IN
    Plain(c, s, <<
        Let(T(c, s), p("x2"), "mul", <<in, in>>),
        Let(T(c, s), p("x3"), "mul", <<p("x2"), in>>),
        Lit(p("c1"), Real("0.044715")),
        Let(T(c, s), p("cx3"), "mul", <<p("x3"), p("c1")>>),
        Let(T(c, s), p("inn"), "add", <<in, p("cx3")>>),
        Lit(p("c2"), Real("0.7979")),
        Let(T(c, s), p("sc"), "mul", <<p("inn"), p("c2")>>),
        Let(T(c, s), p("th"), "tanh", <<p("sc")>>),
        Lit(p("one"), Num(1)),
        Let(T(c, s), p("onep"), "add", <<p("th"), p("one")>>),
        Let(T(c, s), out, "mul", <<p("sc"), p("onep")>>)>>, out, NoFile)

gelu_fragment(c, s, in, out) ==
    LET p(n) == Append(out, n) IN
    Plain(c, s, <<
        Let(T(c, s), p("x2"), "mul", <<in, in>>),
        Let(T(c, s), p("x3"), "mul", <<p("x2"), in>>),
        Lit(p("c1"), Real("0.044715")),
        Let(T(c, s), p("cx3"), "mul", <<p("x3"), p("c1")>>),
        Let(T(c, s), p("inn"), "add", <<in, p("cx3")>>),
        Lit(p("c2"), Real("0.7979")),
        Let(T(c, s), p("sc"), "mul", <<p("inn"), p("c2")>>),
        Let(T(c, s), p("th"), "tanh", <<p("sc")>>),
        Lit(p("one"), Num(1)),
        Let(T(c, s), p("onep"), "add", <<p("th"), p("one")>>),
        Lit(p("half"), Half),
        Let(T(c, s), p("hx"), "mul", <<in, p("half")>>),
        Let(T(c, s), out, "mul", <<p("hx"), p("onep")>>)>>, out, NoFile)

\* Mutant of silu_fragment: the local variable has the same prefix everywhere.
silu_fragment_bare(c, s, in, out) ==
    LET p(n) == <<0, n>> IN
    Plain(c, s, <<Let(T(c, s), p("sig"), "sigmoid", <<in>>),
                  Let(T(c, s), out, "mul", <<in, p("sig")>>)>>, out, NoFile)

silu_fragment(c, s, in, out) ==
    LET p(n) == Append(out, n) IN
    Plain(c, s, <<Let(T(c, s), p("sig"), "sigmoid", <<in>>),
                  Let(T(c, s), out, "mul", <<in, p("sig")>>)>>, out, NoFile)

softmax_fragment(c, s, in, out) ==
    LET p(n) == Append(out, n) IN
    Plain(c, s, <<Attr(p("sax"), 1), LetWith(T(c, s), out, "softmax", <<in>>, p("sax"))>>, out, NoFile)

avg_pool_fragment(c, s, in, out) == One(c, s, "identity", <<in>>, out)
max_pool_fragment(c, s, in, out) == One(c, s, "identity", <<in>>, out)
add_fragment(c, s, in, side, out) == One(c, s, "add", <<in, side>>, out)
mul_fragment(c, s, in, side, out) == One(c, s, "mul", <<in, side>>, out)

\* The casts the three logical fragments start with.
FragMasks(c, s, in, side, out) ==
    LET p(n) == Append(out, n) IN
    <<Let(TB(c, s), p("xb"), "bool", <<in>>), Let(TB(c, s), p("yb"), "bool", <<side>>),
      Let(T(c, s), p("xf"), "fp16", <<p("xb")>>), Let(T(c, s), p("yf"), "fp16", <<p("yb")>>)>>

logical_and_fragment(c, s, in, side, out) ==
    LET p(n) == Append(out, n) IN
    Plain(c, s, FragMasks(c, s, in, side, out)
                  \o <<Let(T(c, s), out, "mul", <<p("xf"), p("yf")>>)>>, out, NoFile)
logical_or_fragment(c, s, in, side, out) ==
    LET p(n) == Append(out, n) IN
    Plain(c, s, FragMasks(c, s, in, side, out)
                  \o <<Let(T(c, s), out, "maximum", <<p("xf"), p("yf")>>)>>, out, NoFile)
logical_xor_fragment(c, s, in, side, out) ==
    LET p(n) == Append(out, n) IN
    Plain(c, s, FragMasks(c, s, in, side, out)
                  \o <<Let(TB(c, s), p("zb"), "not_equal", <<p("xf"), p("yf")>>),
                       Let(T(c, s), out, "fp16", <<p("zb")>>)>>, out, NoFile)

reduce_prod_fragment(c, s, in, out) ==
    LET p(n) == Append(out, n) IN
    Frag(Valid(Sh(c, s)) /\ Valid(Sh(1, s)), <<
        Lit(p("eps"), Eps),
        Let(T(c, s), p("x"), "add", <<in, p("eps")>>),
        Let(T(c, s), p("l"), "log", <<p("x"), p("eps")>>),
        Attr(p("ax"), 1),
        LetWith(Row(s), p("s"), "reduce_sum", <<p("l")>>, p("ax")),
        Let(Row(s), out, "exp", <<p("s")>>)>>, out, NoFile, 1, s)

scatter_static_mask_fragment(c, s, base, updates, out, f) ==
    LET p(n) == Append(out, n) IN
    Plain(c, s, <<
        File(T(c, s), p("m"), f),
        Lit(p("one"), Num(1)),
        Let(T(c, s), p("inv"), "sub", <<p("one"), p("m")>>),
        Let(T(c, s), p("xb"), "mul", <<base, p("inv")>>),
        Let(T(c, s), p("uu"), "mul", <<updates, p("m")>>),
        Let(T(c, s), out, "add", <<p("xb"), p("uu")>>)>>, out, f)

gather_static_mask_fragment(c, s, in, out, f) ==
    LET p(n) == Append(out, n) IN
    Plain(c, s, <<File(T(c, s), p("m"), f), Let(T(c, s), out, "mul", <<in, p("m")>>)>>, out, f)

gather_dynamic_mask_fragment(c, s, in, mask, out) == One(c, s, "mul", <<in, mask>>, out)

neg_fragment(c, s, in, out) ==
    LET p(n) == Append(out, n) IN
    Plain(c, s, <<Lit(p("n1"), Num(-1)), Let(T(c, s), out, "mul", <<in, p("n1")>>)>>, out, NoFile)

mod_fragment(c, s, in, side, out) ==
    LET p(n) == Append(out, n) IN
    Plain(c, s, <<
        Let(T(c, s), p("q"), "floor_div", <<in, side>>),
        Let(T(c, s), p("qy"), "mul", <<p("q"), side>>),
        Let(T(c, s), out, "sub", <<in, p("qy")>>)>>, out, NoFile)

sinh_fragment(c, s, in, out) ==
    LET p(n) == Append(out, n) IN
    Plain(c, s, <<
        Lit(p("n1"), Num(-1)),
        Lit(p("h"), Half),
        Let(T(c, s), p("nx"), "mul", <<in, p("n1")>>),
        Let(T(c, s), p("ex"), "exp", <<in>>),
        Let(T(c, s), p("enx"), "exp", <<p("nx")>>),
        Let(T(c, s), p("d"), "sub", <<p("ex"), p("enx")>>),
        Let(T(c, s), out, "mul", <<p("d"), p("h")>>)>>, out, NoFile)

cosh_fragment(c, s, in, out) ==
    LET p(n) == Append(out, n) IN
    Plain(c, s, <<
        Lit(p("n1"), Num(-1)),
        Lit(p("h"), Half),
        Let(T(c, s), p("nx"), "mul", <<in, p("n1")>>),
        Let(T(c, s), p("ex"), "exp", <<in>>),
        Let(T(c, s), p("enx"), "exp", <<p("nx")>>),
        Let(T(c, s), p("s"), "add", <<p("ex"), p("enx")>>),
        Let(T(c, s), out, "mul", <<p("s"), p("h")>>)>>, out, NoFile)

tan_fragment(c, s, in, out) ==
    LET p(n) == Append(out, n) IN
    Plain(c, s, <<
        Lit(p("eps"), Eps),
        Let(T(c, s), p("sx"), "sin", <<in>>),
        Let(T(c, s), p("cx"), "cos", <<in>>),
        Let(T(c, s), p("cxe"), "add", <<p("cx"), p("eps")>>),
        Let(T(c, s), out, "real_div", <<p("sx"), p("cxe")>>)>>, out, NoFile)

asin_fragment(c, s, in, out) ==
    LET p(n) == Append(out, n) IN
    Plain(c, s, <<
        Lit(p("one"), Num(1)),
        Lit(p("eps"), Eps),
        Let(T(c, s), p("xsq"), "mul", <<in, in>>),
        Let(T(c, s), p("d2"), "sub", <<p("one"), p("xsq")>>),
        Let(T(c, s), p("d2e"), "add", <<p("d2"), p("eps")>>),
        Let(T(c, s), p("d"), "sqrt", <<p("d2e")>>),
        Let(T(c, s), p("r"), "real_div", <<in, p("d")>>),
        Let(T(c, s), out, "atan", <<p("r")>>)>>, out, NoFile)

acos_fragment(c, s, in, out) ==
    LET p(n) == Append(out, n) IN
    Plain(c, s, <<
        Lit(p("hp"), Real("1.5703125")),
        Lit(p("one"), Num(1)),
        Lit(p("eps"), Eps),
        Let(T(c, s), p("xsq"), "mul", <<in, in>>),
        Let(T(c, s), p("d2"), "sub", <<p("one"), p("xsq")>>),
        Let(T(c, s), p("d2e"), "add", <<p("d2"), p("eps")>>),
        Let(T(c, s), p("d"), "sqrt", <<p("d2e")>>),
        Let(T(c, s), p("r"), "real_div", <<in, p("d")>>),
        Let(T(c, s), p("asv"), "atan", <<p("r")>>),
        Let(T(c, s), out, "sub", <<p("hp"), p("asv")>>)>>, out, NoFile)

sub_fragment(c, s, in, side, out) == One(c, s, "sub", <<in, side>>, out)
real_div_fragment(c, s, in, side, out) == One(c, s, "real_div", <<in, side>>, out)
sqrt_fragment(c, s, in, out) == One(c, s, "sqrt", <<in>>, out)

log_fragment(c, s, in, out) ==
    LET p(n) == Append(out, n) IN
    Plain(c, s, <<Lit(p("eps"), Eps), Let(T(c, s), out, "log", <<in, p("eps")>>)>>, out, NoFile)
rsqrt_fragment(c, s, in, out) ==
    LET p(n) == Append(out, n) IN
    Plain(c, s, <<Lit(p("eps"), Eps), Let(T(c, s), out, "rsqrt", <<in, p("eps")>>)>>, out, NoFile)

concat_fragment(c0, c1, s, in, side, out) ==
    LET p(n) == Append(out, n) IN
    Plain(c0 + c1, s, <<Attr(p("ax"), 1),
                        LetWith(T(c0 + c1, s), out, "concat", <<in, side>>, p("ax"))>>, out, NoFile)

slice_by_index_fragment(ic, is, oc, os, in, out) ==
    LET p(n) == Append(out, n) IN
    Frag(Valid(Sh(oc, os)) /\ oc <= ic /\ os <= is,
         <<Attr(p("ed"), <<1, oc, 1, os>>),
           LetWith(T(oc, os), out, "slice_by_index", <<in>>, p("ed"))>>, out, NoFile, oc, os)

reduce_fragment(op, s, in, out) ==
    LET p(n) == Append(out, n) IN
    Plain(1, s, <<Attr(p("ax"), 1), LetWith(Row(s), out, op, <<in>>, p("ax"))>>, out, NoFile)
reduce_sum_fragment(s, in, out) == reduce_fragment("reduce_sum", s, in, out)
reduce_mean_fragment(s, in, out) == reduce_fragment("reduce_mean", s, in, out)
reduce_max_fragment(s, in, out) == reduce_fragment("reduce_max", s, in, out)

select_fragment(c, s, cond, x, y, out) ==
    LET p(n) == Append(out, n) IN
    Plain(c, s, <<Let(TB(c, s), p("cb"), "bool", <<cond>>),
                  Let(T(c, s), out, "select", <<p("cb"), x, y>>)>>, out, NoFile)

transpose_fragment(c, s, in, out) ==
    LET p(n) == Append(out, n) IN
    Frag(Valid(Sh(c, s)) /\ Valid(Sh(s, c)),
         <<Attr(p("perm"), <<0, 3, 2, 1>>), LetWith(T(s, c), out, "transpose", <<in>>, p("perm"))>>,
         out, NoFile, s, c)

reshape_fragment(ic, is, oc, os, in, out) ==
    LET p(n) == Append(out, n) IN
    Frag(Valid(Sh(ic, is)) /\ Valid(Sh(oc, os)) /\ ic * is = oc * os,
         <<Attr(p("shape"), <<1, oc, 1, os>>), LetWith(T(oc, os), out, "reshape", <<in>>, p("shape"))>>,
         out, NoFile, oc, os)

relu_fragment(c, s, in, out) == One(c, s, "relu", <<in>>, out)
tanh_fragment(c, s, in, out) == One(c, s, "tanh", <<in>>, out)
sigmoid_fragment(c, s, in, out) == One(c, s, "sigmoid", <<in>>, out)

hardswish_fragment(c, s, in, out) ==
    LET p(n) == Append(out, n) IN
    Plain(c, s, <<
        Lit(p("c3"), Num(3)),
        Lit(p("c6"), Num(6)),
        Lit(p("inv6"), Real("0.16667")),
        Let(T(c, s), p("sh"), "add", <<in, p("c3")>>),
        Let(T(c, s), p("r1"), "relu", <<p("sh")>>),
        Let(T(c, s), p("sh2"), "add", <<in, p("c3")>>),
        Let(T(c, s), p("d6"), "sub", <<p("sh2"), p("c6")>>),
        Let(T(c, s), p("r2"), "relu", <<p("d6")>>),
        Let(T(c, s), p("cl"), "sub", <<p("r1"), p("r2")>>),
        Let(T(c, s), p("sc"), "mul", <<p("cl"), p("inv6")>>),
        Let(T(c, s), out, "mul", <<in, p("sc")>>)>>, out, NoFile)

leaky_relu_fragment(c, s, in, out) ==
    LET p(n) == Append(out, n) IN
    Plain(c, s, <<Lit(p("alpha"), Real("0.01")),
                  Let(T(c, s), out, "leaky_relu", <<in, p("alpha")>>)>>, out, NoFile)

elu_fragment(c, s, in, out) ==
    LET p(n) == Append(out, n) IN
    Plain(c, s, <<
        Lit(p("zero"), Num(0)),
        Lit(p("one"), Num(1)),
        Let(TB(c, s), p("mask"), "greater", <<in, p("zero")>>),
        Let(T(c, s), p("ex"), "exp", <<in>>),
        Let(T(c, s), p("em1"), "sub", <<p("ex"), p("one")>>),
        Let(T(c, s), out, "select", <<p("mask"), in, p("em1")>>)>>, out, NoFile)

\* Mutant of pixel_shuffle_fragment: the factor is split off in front of the
\* channels.
pixel_shuffle_fragment_outer(oc, is, r, in, out) ==
    LET p(n) == Append(out, n) IN
    Frag(r > 0 /\ Valid(Sh(oc * r, is)) /\ Valid(Sh(oc, is * r)), <<
        Attr(p("sh1"), <<1, r, oc, is>>),
        LetWith(Fp16(<<1, r, oc, is>>), p("r1"), "reshape", <<in>>, p("sh1")),
        Attr(p("pm"), <<0, 2, 3, 1>>),
        LetWith(Fp16(<<1, oc, is, r>>), p("tr"), "transpose", <<p("r1")>>, p("pm")),
        Attr(p("sh2"), <<1, oc, 1, is * r>>),
        LetWith(T(oc, is * r), out, "reshape", <<p("tr")>>, p("sh2"))>>, out, NoFile, oc, is * r)

pixel_shuffle_fragment(oc, is, r, in, out) ==
    LET p(n) == Append(out, n) IN
    Frag(r > 0 /\ Valid(Sh(oc * r, is)) /\ Valid(Sh(oc, is * r)), <<
        Attr(p("sh1"), <<1, oc, r, is>>),
        LetWith(Fp16(<<1, oc, r, is>>), p("r1"), "reshape", <<in>>, p("sh1")),
        Attr(p("pm"), <<0, 1, 3, 2>>),
        LetWith(Fp16(<<1, oc, is, r>>), p("tr"), "transpose", <<p("r1")>>, p("pm")),
        Attr(p("sh2"), <<1, oc, 1, is * r>>),
        LetWith(T(oc, is * r), out, "reshape", <<p("tr")>>, p("sh2"))>>, out, NoFile, oc, is * r)

-----------------------------------------------------------------------------
(* pwl_activation_fragment: n samples at equal distances from x_min to      *)
(* x_max, the code's s[i] being samples[i + 1] here.  Slopes and thresholds *)
(* are whole numbers in the model.                                          *)

Dx(n) == (Sample.x_max - Sample.x_min) \div (n - 1)
Slope(n, i) == (Sample.s[i + 2] - Sample.s[i + 1]) \div Dx(n)
Intercept(n, i) == Sample.s[i + 1] - Slope(n, i) * (Sample.x_min + i * Dx(n))
Upper(n, i) == Sample.x_min + (i + 1) * Dx(n)

\* Line i, a[i] * x + b[i], as variable v.
PwlLine(c, s, n, i, in, out, v) ==
    LET p(m) == out \o <<m, i>> IN
    <<Lit(p("a"), Num(Slope(n, i))), Lit(p("b"), Num(Intercept(n, i))),
      Let(T(c, s), p("t"), "mul", <<in, p("a")>>),
      Let(T(c, s), v, "add", <<p("t"), p("b")>>)>>

\* The segments from the last down to i.
PwlFrom(c, s, n, in, out) ==
    LET p(m, i) == out \o <<m, i>>
        B[i \in 0..(n - 2)] ==
          IF i = n - 2 THEN PwlLine(c, s, n, i, in, out, p("cr", i))
          ELSE B[i + 1]
                 \o PwlLine(c, s, n, i, in, out, p("y", i))
                 \o <<Lit(p("th", i), Num(Upper(n, i))),
                      Let(TB(c, s), p("mk", i), "less", <<in, p("th", i)>>),
                      Let(T(c, s), p("cr", i), "select", <<p("mk", i), p("y", i), p("cr", i + 1)>>)>>
    IN B

pwl_activation_fragment(c, s, n, in, out) ==
    IF n < 2 THEN Frag(FALSE, <<>>, out, NoFile, c, s)
    ELSE Plain(c, s, PwlFrom(c, s, n, in, out)[0]
                       \o <<Let(T(c, s), out, "identity", <<out \o <<"cr", 0>>>>)>>, out, NoFile)

-----------------------------------------------------------------------------
\* Mutant of build_fused: the parameters stay in the order of the group.
build_fused_unsorted(vars, shapes, frags) ==
    Program(vars, [k \in DOMAIN vars |-> T(shapes[k].c, shapes[k].s)],
            FlattenSeq([k \in DOMAIN frags |-> frags[k].body]),
            frags[Len(frags)].output_name)

\* The positions of the numbers s in ascending order; of equal ones the first
\* comes first.
SortedOrder(s) ==
    LET Rank(a) == Cardinality({b \in DOMAIN s : s[b] < s[a] \/ (s[b] = s[a] /\ b < a)})
    IN [k \in DOMAIN s |-> CHOOSE a \in DOMAIN s : Rank(a) = k - 1]

\* The parameters are sorted by name (constraint #13); the bodies follow in
\* order, and the last fragment's output is the result.  The names are
\* <<tensor id>>, and for ids of one digit "t<id>" sorts like the id.
build_fused(vars, shapes, frags) ==
    LET order == SortedOrder([k \in DOMAIN vars |-> vars[k][1]]) IN
    Program([k \in DOMAIN vars |-> vars[order[k]]],
            [k \in DOMAIN vars |-> T(shapes[order[k]].c, shapes[order[k]].s)],
            FlattenSeq([k \in DOMAIN frags |-> frags[k].body]),
            frags[Len(frags)].output_name)
=============================================================================
