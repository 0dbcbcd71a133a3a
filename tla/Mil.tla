-------------------------------- MODULE Mil ---------------------------------
(***************************************************************************)
(* The part of MIL, the language of the programs handed to the ANE         *)
(* compiler, that src/core/mil_builder.cpp writes: what a program is, when *)
(* its declared types are right, and what it computes.  The language       *)
(* belongs to CoreML; this is its meaning as the builder's comments and    *)
(* tests use it.                                                           *)
(*                                                                         *)
(* Arithmetic is exact.  A tensor's element is a number or a term: a       *)
(* function without an exact integer value (exp, tanh, a literal such as   *)
(* 0.044715) applied to elements.  A tensor is a function on its row-major *)
(* indices, counted from 0.                                                *)
(***************************************************************************)
EXTENDS Integers, Sequences, FiniteSets, FiniteSetsExt, SequencesExt, Functions

\* Types: an element type and the dimensions; a scalar has none.
Fp16(dims) == [dt |-> "fp16", dims |-> dims]
Bool(dims) == [dt |-> "bool", dims |-> dims]
Scalar == Fp16(<<>>)
AttrType == [dt |-> "attr", dims |-> <<>>]

\* Statements.  `args` lists the tensors an operation reads, `attrs` the names
\* of its attributes, which the text has in one list; the string that is the
\* [name=...] of a statement is left out.
Statement(type, name, op, args, attrs, val) ==
    [name |-> name, type |-> type, op |-> op, args |-> args, attrs |-> attrs, val |-> val]
Let(type, name, op, args) == Statement(type, name, op, args, <<>>, <<>>)
LetWith(type, name, op, args, attr) == Statement(type, name, op, args, <<attr>>, <<>>)
Lit(name, e) ==         \* fp16 name = const()[val=fp16(...)]
    Statement(Scalar, name, "lit", <<>>, <<>>, e)
Attr(name, v) ==        \* an int32, bool or string const
    Statement(AttrType, name, "attr", <<>>, <<>>, v)
File(type, name, f) ==  \* a const whose value is BLOBFILE(f)
    Statement(type, name, "file", <<>>, <<>>, f)

Consts == {"lit", "attr", "file"}

-----------------------------------------------------------------------------
(* Elements                                                                 *)

Num(i) == [num |-> i]
App(f, args) == [f |-> f, args |-> args]
Real(text) == App(text, <<>>)      \* a literal that is not an integer

IsNum(e) == "num" \in DOMAIN e
FloorDiv(a, b) == IF b > 0 THEN a \div b ELSE (-a) \div (-b)
Bit(b) == IF b THEN 1 ELSE 0

Arith(f, n) ==
    CASE f = "add" -> n[1] + n[2]
      [] f = "sub" -> n[1] - n[2]
      [] f = "mul" -> n[1] * n[2]
      [] f = "floor_div" -> FloorDiv(n[1], n[2])
      [] f = "maximum" -> IF n[1] > n[2] THEN n[1] ELSE n[2]
      [] f = "relu" -> IF n[1] > 0 THEN n[1] ELSE 0
      [] f = "less" -> Bit(n[1] < n[2])
      [] f = "greater" -> Bit(n[1] > n[2])
      [] f = "not_equal" -> Bit(n[1] # n[2])
      [] f = "bool" -> Bit(n[1] # 0)
      [] f = "fp16" -> n[1]
      [] f = "select" -> IF n[1] = 1 THEN n[2] ELSE n[3]

Exact == {"add", "sub", "mul", "floor_div", "maximum", "relu", "less", "greater",
          "not_equal", "bool", "fp16", "select"}

\* One element of the result of an elementwise operation.
Elem(f, a) ==
    IF f = "identity" THEN a[1]
    ELSE IF f = "select" /\ IsNum(a[1]) THEN (IF a[1].num = 1 THEN a[2] ELSE a[3])
    ELSE IF /\ f \in Exact /\ \A k \in DOMAIN a : IsNum(a[k])
            /\ f = "floor_div" => a[2].num # 0
      THEN Num(Arith(f, [k \in DOMAIN a |-> a[k].num]))
    ELSE App(f, a)

\* reduce_sum and the like over the elements a[1], a[2], ...
Reduce(f, a) ==
    IF f \in {"reduce_sum", "reduce_max"} /\ \A k \in DOMAIN a : IsNum(a[k])
      THEN LET n == [k \in DOMAIN a |-> a[k].num] IN
           Num(IF f = "reduce_sum" THEN FoldFunction(+, 0, n) ELSE Max(Range(n)))
      ELSE App(f, a)

-----------------------------------------------------------------------------
(* Row-major indices                                                        *)

\* A tensor has four dimensions, a scalar none.
Numel(d) == IF d = <<>> THEN 1 ELSE d[1] * d[2] * d[3] * d[4]
Index(d) == 0..(Numel(d) - 1)
Flat(d, co) == IF d = <<>> THEN 0 ELSE ((co[1] * d[2] + co[2]) * d[3] + co[3]) * d[4] + co[4]
Coord(d, i) ==
    IF d = <<>> THEN <<>>
    ELSE <<i \div (d[2] * d[3] * d[4]), (i \div (d[3] * d[4])) % d[2], (i \div d[4]) % d[3], i % d[4]>>

\* The element of a tensor [type, val] that meets position co of a result: a
\* scalar, and a dimension of 1, are repeated.
Pick(t, co) ==
    t.val[Flat(t.type.dims, [k \in DOMAIN t.type.dims |->
                               IF t.type.dims[k] = 1 THEN 0 ELSE co[k]])]

Broadcast(ts) ==
    LET ranked == {k \in DOMAIN ts : ts[k].type.dims # <<>>} IN
    IF ranked = {} THEN <<>>
    ELSE [d \in 1..4 |-> Max({ts[k].type.dims[d] : k \in ranked})]

-----------------------------------------------------------------------------
(* What a statement should be declared as, and what it computes             *)

Reductions == {"reduce_sum", "reduce_mean", "reduce_max"}

\* The type of op applied to the tensors ts with the attribute values at.
TypeOf(op, ts, at) ==
    LET d == ts[1].type.dims IN
    CASE op = "conv" -> Fp16(<<1, d[1], 1, ts[2].type.dims[4]>>)   \* weight, x
      [] op \in Reductions -> Fp16([d EXCEPT ![at[1] + 1] = 1])
      [] op = "concat" -> Fp16([d EXCEPT ![at[1] + 1] = @ + ts[2].type.dims[at[1] + 1]])
      [] op \in {"reshape", "slice_by_index"} -> Fp16(at[1])
      [] op = "transpose" -> Fp16([k \in DOMAIN d |-> d[at[1][k] + 1]])
      [] op \in {"less", "greater", "not_equal", "bool"} -> Bool(Broadcast(ts))
      [] OTHER -> Fp16(Broadcast(ts))

\* The operands fit each other.
OperandsOK(op, ts, at) ==
    LET d == ts[1].type.dims IN
    CASE op = "conv" -> d[2] = ts[2].type.dims[2]
      [] op = "reshape" -> Numel(d) = Numel(at[1])
      [] op = "slice_by_index" -> \A k \in DOMAIN d : at[1][k] <= d[k]
      [] op = "concat" -> \A k \in DOMAIN d : k = at[1] + 1 \/ d[k] = ts[2].type.dims[k]
      [] op = "select" -> ts[1].type.dt = "bool"
      [] OTHER -> \A k \in DOMAIN ts : \/ ts[k].type.dims = <<>>
                                       \/ \A m \in 1..4 : ts[k].type.dims[m] \in {1, Broadcast(ts)[m]}

\* The element at position co of op's result.
ElementAt(op, ts, at, co) ==
    LET d == ts[1].type.dims
        Along(k, j) == ts[1].val[Flat(d, [co EXCEPT ![k] = j - 1])] IN
    CASE op = "conv" ->
           LET x == ts[2] IN
           Reduce("reduce_sum", [c \in 1..d[2] |->
               Elem("mul", <<ts[1].val[Flat(d, <<co[2], c - 1, 0, 0>>)],
                             x.val[Flat(x.type.dims, <<0, c - 1, 0, co[4]>>)]>>)])
      [] op \in Reductions ->
           Reduce(op, [j \in 1..d[at[1] + 1] |-> Along(at[1] + 1, j)])
      [] op = "softmax" ->
           App(op, Append([j \in 1..d[at[1] + 1] |-> Along(at[1] + 1, j)], Num(co[at[1] + 1])))
      [] op = "concat" ->
           LET k == at[1] + 1 IN
           IF co[k] < d[k] THEN Pick(ts[1], co)
           ELSE Pick(ts[2], [co EXCEPT ![k] = @ - d[k]])
      [] op = "reshape" -> ts[1].val[Flat(at[1], co)]
      [] op = "slice_by_index" -> ts[1].val[Flat(d, co)]
      [] op = "transpose" ->
           ts[1].val[Flat(d, [k \in DOMAIN d |-> co[CHOOSE m \in DOMAIN d : at[1][m] + 1 = k]])]
      [] OTHER -> Elem(op, [k \in DOMAIN ts |-> Pick(ts[k], co)])

-----------------------------------------------------------------------------
(* Programs                                                                 *)

\* A program: the parameters with their types, the statements, the result.
Program(params, types, body, ret) ==
    [params |-> params, types |-> types, body |-> body, ret |-> ret]

Names(prog) == prog.params \o [k \in DOMAIN prog.body |-> prog.body[k].name]

Files(prog) == {prog.body[k].val : k \in {k \in DOMAIN prog.body : prog.body[k].op = "file"}}

\* The tensors and the attributes a statement names, looked up in env.
Operands(env, st) == [k \in DOMAIN st.args |-> env[st.args[k]]]
Attributes(env, st) == [k \in DOMAIN st.attrs |-> env[st.attrs[k]].val]

\* What a statement computes.
ValueOf(st, type, ts, at, blobs) ==
    CASE st.op = "lit" -> [i \in {0} |-> st.val]
      [] st.op = "attr" -> st.val
      [] st.op = "file" -> blobs[st.val]
      [] OTHER -> [i \in Index(type.dims) |-> ElementAt(st.op, ts, at, Coord(type.dims, i))]

\* The variables after one statement, and after all of a body.  A variable has
\* the type its value has, whatever its statement declares.
Exec(env, st, blobs) ==
    LET ts == Operands(env, st)
        at == Attributes(env, st)
        type == IF st.op \in Consts THEN st.type ELSE TypeOf(st.op, ts, at)
        new == [type |-> type, val |-> ValueOf(st, type, ts, at, blobs)]
    IN [n \in DOMAIN env \cup {st.name} |-> IF n = st.name THEN new ELSE env[n]]

Run(body, env, blobs) ==
    LET Step[k \in 0..Len(body)] ==
          IF k = 0 THEN env ELSE Exec(Step[k - 1], body[k], blobs)
    IN Step[Len(body)]

\* The parameters have the arguments: tensors, one per parameter, in the order
\* of the parameters.
Bind(params, args) ==
    [n \in ToSet(params) |-> args[CHOOSE j \in DOMAIN args : params[j] = n]]

\* All the variables after the program ran on the arguments with the given
\* weight files.
Environment(prog, args, blobs) == Run(prog.body, Bind(prog.params, args), blobs)

Result(prog, args, blobs) == Environment(prog, args, blobs)[prog.ret]

\* Every name is given once, and before it is read.
Reads(st) == ToSet(st.args) \cup ToSet(st.attrs)
NamesOK(prog) ==
    /\ IsInjective(Names(prog))
    /\ \A k \in DOMAIN prog.body :
         Reads(prog.body[k]) \subseteq ToSet(prog.params) \cup {prog.body[l].name : l \in 1..(k - 1)}
    /\ prog.ret \in ToSet(Names(prog))

\* The compiler's type check of a statement: the operands fit, and the type it
\* declares is the type of what it computes.
StatementOK(env, st) ==
    \/ st.op \in Consts
    \/ /\ OperandsOK(st.op, Operands(env, st), Attributes(env, st))
       /\ st.type = TypeOf(st.op, Operands(env, st), Attributes(env, st))

TypesOK(prog, env) == \A k \in DOMAIN prog.body : StatementOK(env, prog.body[k])
=============================================================================
