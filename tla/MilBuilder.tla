----------------------------- MODULE MilBuilder -----------------------------
(***************************************************************************)
(* libane::mil::MilBuilder (src/core/mil_builder.cpp), which writes every  *)
(* operation twice: as a program of its own, for libane_compile, and as a  *)
(* fragment of a program that computes a fusion group.                     *)
(*                                                                         *)
(* A program's text is a sequence of MIL statements (see module Mil).  A   *)
(* fragment's local variables carry the prefix out_var + "_": the variable *)
(* "t3_sq" is <<3, "sq">>, and <<3>> is "t3".  In a program of its own a   *)
(* variable is its name.  The statements that only name an operation's     *)
(* fixed settings (conv's strides, keep_dims, the cast's target) are part  *)
(* of the operation.                                                       *)
(***************************************************************************)
EXTENDS Mil

CONSTANTS
    SeqAlign,   \* S is a multiple of it (16 in the code)
    MaxSeq,     \* the largest S (65536)
    MaxC        \* the largest C (16384)

ASSUME BuilderAssumption == SeqAlign \in Nat \ {0} /\ MaxSeq \in Nat /\ MaxC \in Nat

\* A TensorShape {1, C, 1, S} is [c |-> C, s |-> S].
Sh(c, s) == [c |-> c, s |-> s]

\* TensorShape::validate, which throws when this is false.
Valid(sh) ==
    /\ sh.s > 0 /\ sh.s % SeqAlign = 0 /\ sh.s <= MaxSeq
    /\ sh.c > 0 /\ sh.c <= MaxC

T(c, s) == Fp16(<<1, c, 1, s>>)       \* tensor_type
TB(c, s) == Bool(<<1, c, 1, s>>)
Row(s) == T(1, s)
Col(c) == T(c, 1)
ConvW(oc, ic) == Fp16(<<oc, ic, 1, 1>>)

Eps == Real("0x1.0cp-17")
Half == Real("0.5")

-----------------------------------------------------------------------------
(* WeightBlob: the bytes after the header, as fp16 elements from index 0.   *)

from_fp16(src, first, count) == [k \in 0..(count - 1) |-> src[first + k]]

\* src is [rows, cols], the blob [cols, rows].
from_fp16_transposed(src, rows, cols) ==
    [k \in 0..(rows * cols - 1) |-> src[(k % rows) * cols + k \div rows]]

-----------------------------------------------------------------------------
(* Programs of one operation                                                *)

\* A program of parameters of one shape.
Same(params, c, s, body, ret) ==
    Program(params, [k \in DOMAIN params |-> T(c, s)], body, ret)

matmul_conv1x1(ic, oc, sp, f) ==
    Same(<<"x">>, ic, sp,
         <<File(ConvW(oc, ic), "W", f), Let(T(oc, sp), "y", "conv", <<"W", "x">>)>>, "y")

\* Only the Q projection, of head_dim * n_heads output channels.
qkv_proj(ic, head_dim, n_heads, sp, q_file) ==
    LET oc == head_dim * n_heads IN
    Same(<<"x">>, ic, sp,
         <<File(ConvW(oc, ic), "W", q_file), Let(T(oc, sp), "y", "conv", <<"W", "x">>)>>, "y")

out_proj_add(ic, oc, sp, f) ==
    Program(<<"residual", "x">>, <<T(oc, sp), T(ic, sp)>>,
            <<File(ConvW(oc, ic), "W", f),
              Let(T(oc, sp), "proj", "conv", <<"W", "x">>),
              Let(T(oc, sp), "out", "add", <<"proj", "residual">>)>>, "out")

rmsnorm(c, s, f) ==
    Same(<<"x">>, c, s, <<
        Let(T(c, s), "rms_sq", "mul", <<"x", "x">>),
        Attr("rms_ax", 1),
        LetWith(Row(s), "rms_ss", "reduce_sum", <<"rms_sq">>, "rms_ax"),
        Lit("rms_invd", App("1/C", <<Num(c)>>)),
        Let(Row(s), "rms_ms", "mul", <<"rms_ss", "rms_invd">>),
        Lit("rms_eps", Real("9.765625e-4")),
        Let(Row(s), "rms_mse", "add", <<"rms_ms", "rms_eps">>),
        Lit("rms_nhalf", Real("-0.5")),
        Let(Row(s), "rms_rrms", "pow", <<"rms_mse", "rms_nhalf">>),
        Let(T(c, s), "rms_xr", "mul", <<"x", "rms_rrms">>),
        File(Col(c), "rms_w", f),
        Let(T(c, s), "out", "mul", <<"rms_xr", "rms_w">>)>>, "out")

gelu(c, s) ==
    Same(<<"x">>, c, s, <<
        Let(T(c, s), "g_x2", "mul", <<"x", "x">>),
        Let(T(c, s), "g_x3", "mul", <<"g_x2", "x">>),
        Lit("g_c1", Real("0.044715")),
        Let(T(c, s), "g_cx3", "mul", <<"g_x3", "g_c1">>),
        Let(T(c, s), "g_inner", "add", <<"x", "g_cx3">>),
        Lit("g_c2", Real("0.7979")),
        Let(T(c, s), "g_scaled", "mul", <<"g_inner", "g_c2">>),
        Let(T(c, s), "g_th", "tanh", <<"g_scaled">>),
        Lit("g_one", Num(1)),
        Let(T(c, s), "g_onep", "add", <<"g_th", "g_one">>),
        Lit("g_half", Half),
        Let(T(c, s), "g_hx", "mul", <<"x", "g_half">>),
        Let(T(c, s), "y", "mul", <<"g_hx", "g_onep">>)>>, "y")

softmax(c, s) ==
    Same(<<"x">>, c, s,
         <<Attr("sm_ax", 1), LetWith(T(c, s), "y", "softmax", <<"x">>, "sm_ax")>>, "y")

\* Pools of a 1x1 window.
avg_pool(c, s) == Same(<<"x">>, c, s, <<Let(T(c, s), "y", "identity", <<"x">>)>>, "y")
max_pool(c, s) == Same(<<"x">>, c, s, <<Let(T(c, s), "y", "identity", <<"x">>)>>, "y")

\* logical_and, logical_or and logical_xor start with the same casts.
Masks(c, s) ==
    <<Let(TB(c, s), "xb", "bool", <<"x">>), Let(TB(c, s), "yb", "bool", <<"y">>),
      Let(T(c, s), "xf", "fp16", <<"xb">>), Let(T(c, s), "yf", "fp16", <<"yb">>)>>
logical_and(c, s) ==
    Same(<<"x", "y">>, c, s, Masks(c, s) \o <<Let(T(c, s), "z", "mul", <<"xf", "yf">>)>>, "z")
logical_or(c, s) ==
    Same(<<"x", "y">>, c, s, Masks(c, s) \o <<Let(T(c, s), "z", "maximum", <<"xf", "yf">>)>>, "z")
logical_xor(c, s) ==
    Same(<<"x", "y">>, c, s,
         Masks(c, s) \o <<Let(TB(c, s), "zb", "not_equal", <<"xf", "yf">>),
                          Let(T(c, s), "z", "fp16", <<"zb">>)>>, "z")

reduce_prod(c, s) ==
    Same(<<"x">>, c, s, <<
        Lit("rp_eps", Eps),
        Let(T(c, s), "rp_x", "add", <<"x", "rp_eps">>),
        Let(T(c, s), "rp_l", "log", <<"rp_x", "rp_eps">>),
        Attr("rp_ax", 1),
        LetWith(Row(s), "rp_s", "reduce_sum", <<"rp_l">>, "rp_ax"),
        Let(Row(s), "y", "exp", <<"rp_s">>)>>, "y")

scatter_static_mask(c, s, f) ==
    Same(<<"base", "updates">>, c, s, <<
        File(T(c, s), "m", f),
        Lit("one", Num(1)),
        Let(T(c, s), "inv", "sub", <<"one", "m">>),
        Let(T(c, s), "xb", "mul", <<"base", "inv">>),
        Let(T(c, s), "uu", "mul", <<"updates", "m">>),
        Let(T(c, s), "out", "add", <<"xb", "uu">>)>>, "out")

gather_static_mask(c, s, f) ==
    Same(<<"x">>, c, s, <<File(T(c, s), "m", f), Let(T(c, s), "out", "mul", <<"x", "m">>)>>, "out")

gather_dynamic_mask(c, s) ==
    Same(<<"x", "mask">>, c, s, <<Let(T(c, s), "out", "mul", <<"x", "mask">>)>>, "out")

neg(c, s) ==
    Same(<<"x">>, c, s, <<Lit("n1", Num(-1)), Let(T(c, s), "out", "mul", <<"x", "n1">>)>>, "out")

mod(c, s) ==
    Same(<<"x", "y">>, c, s, <<
        Let(T(c, s), "q", "floor_div", <<"x", "y">>),
        Let(T(c, s), "qy", "mul", <<"q", "y">>),
        Let(T(c, s), "out", "sub", <<"x", "qy">>)>>, "out")

sinh(c, s) ==
    Same(<<"x">>, c, s, <<
        Lit("n1", Num(-1)),
        Lit("h", Half),
        Let(T(c, s), "nx", "mul", <<"x", "n1">>),
        Let(T(c, s), "ex", "exp", <<"x">>),
        Let(T(c, s), "enx", "exp", <<"nx">>),
        Let(T(c, s), "d", "sub", <<"ex", "enx">>),
        Let(T(c, s), "out", "mul", <<"d", "h">>)>>, "out")

cosh(c, s) ==
    Same(<<"x">>, c, s, <<
        Lit("n1", Num(-1)),
        Lit("h", Half),
        Let(T(c, s), "nx", "mul", <<"x", "n1">>),
        Let(T(c, s), "ex", "exp", <<"x">>),
        Let(T(c, s), "enx", "exp", <<"nx">>),
        Let(T(c, s), "s", "add", <<"ex", "enx">>),
        Let(T(c, s), "out", "mul", <<"s", "h">>)>>, "out")

tan(c, s) ==
    Same(<<"x">>, c, s, <<
        Lit("teps", Eps),
        Let(T(c, s), "sx", "sin", <<"x">>),
        Let(T(c, s), "cx", "cos", <<"x">>),
        Let(T(c, s), "cxe", "add", <<"cx", "teps">>),
        Let(T(c, s), "out", "real_div", <<"sx", "cxe">>)>>, "out")

asin(c, s) ==
    Same(<<"x">>, c, s, <<
        Lit("one", Num(1)),
        Lit("ae", Eps),
        Let(T(c, s), "xsq", "mul", <<"x", "x">>),
        Let(T(c, s), "den2", "sub", <<"one", "xsq">>),
        Let(T(c, s), "den2e", "add", <<"den2", "ae">>),
        Let(T(c, s), "den", "sqrt", <<"den2e">>),
        Let(T(c, s), "ratio", "real_div", <<"x", "den">>),
        Let(T(c, s), "out", "atan", <<"ratio">>)>>, "out")

acos(c, s) ==
    Same(<<"x">>, c, s, <<
        Lit("hp", Real("1.5703125")),
        Lit("one", Num(1)),
        Lit("ae", Eps),
        Let(T(c, s), "xsq", "mul", <<"x", "x">>),
        Let(T(c, s), "den2", "sub", <<"one", "xsq">>),
        Let(T(c, s), "den2e", "add", <<"den2", "ae">>),
        Let(T(c, s), "den", "sqrt", <<"den2e">>),
        Let(T(c, s), "ratio", "real_div", <<"x", "den">>),
        Let(T(c, s), "asv", "atan", <<"ratio">>),
        Let(T(c, s), "out", "sub", <<"hp", "asv">>)>>, "out")

transpose_cssc(c, s) ==
    Same(<<"x">>, c, s,
         <<Attr("perm", <<0, 3, 2, 1>>), LetWith(T(s, c), "y", "transpose", <<"x">>, "perm")>>, "y")

add(c, s) == Same(<<"x", "y">>, c, s, <<Let(T(c, s), "z", "add", <<"x", "y">>)>>, "z")
mul(c, s) == Same(<<"x", "y">>, c, s, <<Let(T(c, s), "z", "mul", <<"x", "y">>)>>, "z")
sub(c, s) == Same(<<"x", "y">>, c, s, <<Let(T(c, s), "z", "sub", <<"x", "y">>)>>, "z")
real_div(c, s) == Same(<<"x", "y">>, c, s, <<Let(T(c, s), "z", "real_div", <<"x", "y">>)>>, "z")

sqrt(c, s) == Same(<<"x">>, c, s, <<Let(T(c, s), "y", "sqrt", <<"x">>)>>, "y")

\* log and rsqrt, with the epsilon the ANE compiler insists on.
log(c, s) ==
    Same(<<"x">>, c, s, <<Lit("lg_eps", Eps), Let(T(c, s), "y", "log", <<"x", "lg_eps">>)>>, "y")
rsqrt(c, s) ==
    Same(<<"x">>, c, s, <<Lit("rs_eps", Eps), Let(T(c, s), "y", "rsqrt", <<"x", "rs_eps">>)>>, "y")

silu(c, s) ==
    Same(<<"x">>, c, s, <<Let(T(c, s), "sig", "sigmoid", <<"x">>),
                          Let(T(c, s), "y", "mul", <<"x", "sig">>)>>, "y")

layernorm(c, s, g, b) ==
    Same(<<"x">>, c, s, <<
        Attr("ln_ax", 1),
        LetWith(Row(s), "ln_mean", "reduce_mean", <<"x">>, "ln_ax"),
        Let(T(c, s), "ln_cent", "sub", <<"x", "ln_mean">>),
        Let(T(c, s), "ln_sq", "mul", <<"ln_cent", "ln_cent">>),
        LetWith(Row(s), "ln_var", "reduce_mean", <<"ln_sq">>, "ln_ax"),
        Lit("ln_eps", Real("eps")),
        Let(Row(s), "ln_veps", "add", <<"ln_var", "ln_eps">>),
        Lit("ln_nhalf", Real("-0.5")),
        Let(Row(s), "ln_rstd", "pow", <<"ln_veps", "ln_nhalf">>),
        Let(T(c, s), "ln_norm", "mul", <<"ln_cent", "ln_rstd">>),
        File(Col(c), "ln_g", g),
        Let(T(c, s), "ln_scaled", "mul", <<"ln_norm", "ln_g">>),
        File(Col(c), "ln_beta", b),
        Let(T(c, s), "out", "add", <<"ln_scaled", "ln_beta">>)>>, "out")

select(c, s) ==
    Same(<<"c", "x", "y">>, c, s, <<Let(TB(c, s), "cb", "bool", <<"c">>),
                                    Let(T(c, s), "z", "select", <<"cb", "x", "y">>)>>, "z")
=============================================================================
