-------------------------- MODULE EspressoBackend ---------------------------
(***************************************************************************)
(* libane::graph::EspressoBackend (src/graph/espresso_backend.cpp) and the *)
(* EspressoBuilder it uses (src/graph/espresso_builder.cpp): a product     *)
(* alone in its group becomes a bundle of files on disk, which             *)
(* ane_load_mlmodelc reads.                                                *)
(*                                                                         *)
(* A file's contents are the values written into it; the JSON and the      *)
(* headers around them are left out.                                       *)
(***************************************************************************)
EXTENDS MilBackend

CONSTANT PathB      \* runtime::path_b_available()
ASSUME EspressoAssumption == PathB \in BOOLEAN

VARIABLES
    espresso,   \* the file compile_group writes next, 0 outside compile_group
    bundle      \* the files of the bundle written so far

espressoVars == <<espresso, bundle>>

-----------------------------------------------------------------------------
(* EspressoBuilder                                                          *)

\* The factory inner_product, without a bias and a relu.  A shape is given by
\* its w and k (n and h are 1), a schema by its channels and columns.
inner_product(in_ch, out_ch, weights, seq) ==
    [layers |-> <<[type |-> "inner_product", bottom |-> "input", top |-> "output",
                   nB |-> in_ch, nC |-> out_ch, blob_weights |-> 1, has_relu |-> 0]>>,
     shapes |-> [input |-> [w |-> seq, k |-> in_ch], output |-> [w |-> seq, k |-> out_ch]],
     weights |-> from_fp16(weights, 0, in_ch * out_ch),
     inputs |-> [name |-> "input", channels |-> in_ch, seq |-> seq],
     outputs |-> [name |-> "output", channels |-> out_ch, seq |-> seq]]

\* The files of a bundle in the order write makes them; each of the first
\* three is a directory and the stub in it.
BundleFiles == <<"model", "analytics", "neural_network_optionals", "net", "shape", "weights",
                 "metadata", "coremldata">>

Contents(b, file) ==
    CASE file = "net" -> b.layers
      [] file = "shape" -> b.shapes
      [] file = "weights" -> b.weights
      [] file = "metadata" -> <<b.inputs, b.outputs>>
      [] OTHER -> "stub"

-----------------------------------------------------------------------------
(* EspressoBackend                                                          *)

\* Mutant of transpose_fp16_to_fp32: the index of the source is kept.
transpose_not(src, ic, oc) == [k \in 0..(ic * oc - 1) |-> src[k]]

\* src is fp16 [IC, OC], the result fp32 [OC, IC].  Widening keeps the value
\* (HalfFloat!WidenExact).
transpose_fp16_to_fp32(src, ic, oc) ==
    [k \in 0..(ic * oc - 1) |-> src[(k % ic) * oc + k \div ic]]

\* S = 16, the alignment of S and so the smallest there is.
EspressoOwns(g) ==
    /\ PathB /\ Len(g.node_ids) = 1
    /\ nodes[g.node_ids[1]].op = "MATMUL"
    /\ ShapeOf(nodes[g.node_ids[1]].output).s = SeqAlign

Only == Current.node_ids[1]
IC == ShapeOf(nodes[Only].inputs[1]).c
OC == ShapeOf(nodes[Only].output).c
Builder ==
    inner_product(IC, OC, transpose_fp16_to_fp32(UserWeights(Only), IC, OC), 1)

EspressoInit == espresso = 0 /\ bundle = <<>>

\* mkdtemp gives a directory of its own, or fails.
EspressoBegin ==
    /\ stage = "compile" /\ espresso = 0
    /\ \/ espresso' = 1 /\ UNCHANGED stage
       \/ stage' = "rejected" /\ UNCHANGED espresso
    /\ UNCHANGED <<bundle, gi>>

Writing == espresso \in DOMAIN BundleFiles
Loading == espresso = Len(BundleFiles) + 1

\* The next file is written, or fails: then write returns false, compile_group
\* nullptr, and the files stay where they are.
EspressoWrite ==
    /\ Writing
    /\ \/ /\ LET file == BundleFiles[espresso] IN
             bundle' = [f \in DOMAIN bundle \cup {file} |->
                          IF f = file THEN Contents(Builder, file) ELSE bundle[f]]
          /\ espresso' = espresso + 1
          /\ UNCHANGED stage
       \/ /\ stage' = "rejected" /\ espresso' = 0
          /\ UNCHANGED bundle
    /\ UNCHANGED gi

\* ane_load_mlmodelc loads the bundle, or returns nullptr and so does compile.
EspressoLoad ==
    /\ Loading
    /\ \/ gi' = gi + 1 /\ UNCHANGED stage
       \/ stage' = "rejected" /\ UNCHANGED gi
    /\ espresso' = 0 /\ bundle' = <<>>

EspressoStep ==
    /\ EspressoBegin \/ EspressoWrite \/ EspressoLoad
    /\ UNCHANGED <<frags, chain_var, entries, prog>>

-----------------------------------------------------------------------------
\* What the service computes from a bundle: the layer's weight matrix times
\* the one column it is given.
InnerProduct(b, x) ==
    LET l == b["net"][1] IN
    [o \in 0..(l.nC - 1) |->
       Reduce("reduce_sum", [k \in 1..l.nB |->
           Elem("mul", <<b["weights"][o * l.nB + k - 1], x[k - 1]>>)])]

\* A bundle that is handed to ane_load_mlmodelc is complete, its files agree
\* with each other and with the sizes the loader is told, and it computes for
\* column 0 what the program of MilBackend for the same node computes there:
\* the two backends take the weights through different code.
BundleRight ==
    Loading =>
        /\ DOMAIN bundle = ToSet(BundleFiles)
        /\ LET layer == bundle["net"][1]
               shapes == bundle["shape"] IN
           /\ shapes[layer.bottom] = [w |-> 1, k |-> layer.nB]
           /\ shapes[layer.top] = [w |-> 1, k |-> layer.nC]
           /\ bundle["metadata"][1].channels = layer.nB
           /\ bundle["metadata"][2].channels = layer.nC
           /\ DOMAIN bundle["weights"] = 0..(layer.nB * layer.nC - 1)
           /\ layer.nB = IC /\ layer.nC = OC
        /\ Fits(Current) =>
           LET x == Unknowns[nodes[Only].inputs[1]]
               s == ShapeOf(nodes[Only].output).s
               mil == RunAlone(Only, <<x>>).val
           IN \A o \in 0..(OC - 1) :
                InnerProduct(bundle, [k \in 0..(IC - 1) |-> x[k * s]])[o] = mil[o * s]
=============================================================================
