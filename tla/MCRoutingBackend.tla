-------------------------- MODULE MCRoutingBackend --------------------------
(***************************************************************************)
(* Graphs of one node: every op, on inputs of every shape, with its tensors *)
(* in any order, twice the same one included.  Graphs of two nodes: every  *)
(* op after every other, with the side inputs added before or after those  *)
(* of the first node.  Graphs of three nodes: ops of one, two and three    *)
(* inputs that read any tensors there are, so that chains fork, join, are  *)
(* interrupted, and read a tensor twice or as a side input.  One digit     *)
(* names every tensor.                                                     *)
(***************************************************************************)
EXTENDS RoutingBackend

OpCall(op, arity, weights, factor) ==
    [op |-> op, arity |-> arity, weights |-> weights, factor |-> factor]

Calls ==
    {OpCall(op, 1, "none", 0) : op \in UnaryOps \cup ReduceOps \cup {"RESHAPE", "SLICE_BY_INDEX"}}
    \cup {OpCall(op, 2, "none", 0) : op \in BinaryOps \cup {"GATHER", "CONCAT"}}
    \cup {OpCall(op, 2, "exact", 0) : op \in ScatterOps}
    \cup {OpCall(op, 1, "exact", 0) : op \in NormOps \cup {"MATMUL", "GATHER"}}
    \cup {OpCall("SELECT", 3, "none", 0), OpCall("PIXEL_SHUFFLE", 1, "exact", 2),
          OpCall("PWL_ACTIVATION", 1, "exact", 3)}

Shapes == {[c |-> 1, s |-> 2], [c |-> 2, s |-> 2], [c |-> 4, s |-> 2], [c |-> 2, s |-> 4]}

Table == [x_min |-> -1, x_max |-> 1, s |-> <<2, 0, 3>>]

\* A graph of ins input tensors, of the given shapes, and the given nodes.
GraphOf(shapes, made, ns) ==
    [tensors |-> [x \in 1..Len(shapes) |-> [shape |-> shapes[x], producer |-> 0]]
                   \o [i \in 1..Len(made) |-> [shape |-> made[i], producer |-> i]],
     nodes |-> ns,
     inputs |-> [x \in 1..Len(shapes) |-> x],
     outputs |-> <<Len(shapes) + Len(made)>>,
     half |-> [sign |-> 0, exp |-> 1, man |-> 0]]

NodeOf(c, ins, out) ==
    [op |-> c.op, inputs |-> ins, output |-> out, weights |-> c.weights, factor |-> c.factor]

Single ==
    UNION {{GraphOf(shapes, <<o>>, <<NodeOf(c, wires, c.arity + 1)>>) :
              shapes \in [1..c.arity -> Shapes], wires \in [1..c.arity -> 1..c.arity], o \in Shapes} :
           c \in {c \in Calls : c.arity < 3}}
    \cup {GraphOf(<<a, a, a>>, <<a>>, <<NodeOf(OpCall("SELECT", 3, "none", 0), wires, 4)>>) :
            a \in Shapes, wires \in [1..3 -> 1..3]}

\* The shape of the result of a call on inputs of shape a.
OutShape(c, a) ==
    CASE c.op = "TRANSPOSE" -> Sh(a.s, a.c)
      [] c.op = "PIXEL_SHUFFLE" -> Sh(a.c \div 2, a.s * 2)
      [] c.op = "CONCAT" -> Sh(a.c * 2, a.s)
      [] c.op = "RESHAPE" -> Sh(a.c \div 2, a.s * 2)
      [] c.op \in ReduceOps -> Sh(1, a.s)
      [] OTHER -> a

\* c after b, b on inputs of shape a; the side inputs of c come first or last.
Pair(b, c, a, first) ==
    LET m == OutShape(b, a)
        k == b.arity
        l == c.arity - 1
        left == IF first THEN l ELSE 0      \* the ids of b's inputs start after it
        right == IF first THEN 0 ELSE k     \* and those of c's side inputs after it
    IN GraphOf([x \in 1..(k + l) |-> IF x \in (left + 1)..(left + k) THEN a ELSE m],
               <<m, OutShape(c, m)>>,
               <<NodeOf(b, [j \in 1..k |-> left + j], k + l + 1),
                 NodeOf(c, [j \in 1..(l + 1) |-> IF j = 1 THEN k + l + 1 ELSE right + j - 1],
                        k + l + 2)>>)

Pairs ==
    {Pair(b, c, a, first) : b \in Calls, c \in Calls, a \in {Sh(2, 2), Sh(4, 4)}, first \in BOOLEAN}

\* Three nodes on input 1: node i makes tensor i + 1 of any of the tensors
\* before it, and the caller takes the last one, alone or with another.
Wired(i) ==
    UNION {{NodeOf(c, wires, i + 1) : wires \in [1..c.arity -> 1..i]} :
           c \in {OpCall("MATMUL", 1, "exact", 0), OpCall("SUB", 2, "none", 0),
                  OpCall("SELECT", 3, "none", 0), OpCall("CAST", 1, "none", 0)}}
Chains ==
    {[GraphOf(<<Sh(2, 2)>>, <<Sh(2, 2), Sh(2, 2), Sh(2, 2)>>, <<a, b, c>>) EXCEPT !.outputs = o] :
       a \in Wired(1), b \in Wired(2), c \in Wired(3), o \in {<<4>>, <<2, 4>>, <<4, 3>>}}

\* Products between numbers of channels that make the search for a surface
\* size long, or fail.
Odd == {Sh(c, s) : c \in {3, 5, 6, 7}, s \in {2, 4}}
Products ==
    {GraphOf(<<a>>, <<o>>, <<NodeOf(OpCall("MATMUL", 1, "exact", 0), <<1>>, 2)>>) :
       a \in Odd, o \in Odd}

\* A product with every weight.
Weighed ==
    {[GraphOf(<<Sh(2, 2)>>, <<Sh(2, 2)>>, <<NodeOf(OpCall("MATMUL", 1, "exact", 0), <<1>>, 2)>>)
        EXCEPT !.half = h] : h \in Halves}

\* The shapes that pass TensorShape::validate: AneGraph takes no others.
ValidShapes == {sh \in [c : 1..MaxC, s : 1..MaxSeq] : Valid(sh)}

MCGraphs ==
    {g \in Single \cup Pairs \cup Chains \cup Products \cup Weighed :
       \A x \in DOMAIN g.tensors : g.tensors[x].shape \in ValidShapes}
=============================================================================
