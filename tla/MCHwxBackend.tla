---------------------------- MODULE MCHwxBackend ----------------------------
(***************************************************************************)
(* Two threads and three activation ops.  Two texts have the lengths       *)
(* hwx_emitter.hpp quotes, so that __const moves by 64 bytes either way;   *)
(* the third is longer but leaves __const where the first has it.          *)
(* The files of one shape end with __const, those of the other are padded. *)
(* In MCHwxBackend.cfg the first thread uses both shapes, and the nodes of *)
(* the threads have different tensor names; in MCHwxBackendRace.cfg the    *)
(* same, as two graphs built the same way have.                            *)
(***************************************************************************)
EXTENDS HwxBackend

CONSTANTS t1, t2, s1, s2, n1, n2

Words(a, b, c, d) ==
    [program_size |-> a, stage_flags |-> b, opcode |-> c, extra_config |-> d]
Configs ==
    [RELU    |-> [words |-> Words(3, 1, 7, 0), num_words |-> 65],
     TANH    |-> [words |-> Words(4, 3, 9, 1), num_words |-> 63],
     SIGMOID |-> [words |-> Words(4, 3, 8, 1), num_words |-> 70]]
Padding(s) == IF s = s1 THEN 0 ELSE 64
Binaries ==
    [op \in Op |-> [s \in Shape |->
        LET n == Configs[op].num_words
        IN  [magic |-> TRUE, size |-> const_off(n) + kConstSize + Padding(s),
             words |-> Configs[op].words, text_for |-> s, used |-> 4 * n,
             text_size |-> 4 * n, td_count |-> n, const_for |-> s,
             const_at |-> const_off(n), const_fileoff |-> const_off(n),
             addr |-> [text |-> kTextVmBase, const |-> const_vm(n), td |-> const_vm(n)]]]]

Nodes(ss, names) == [op : Op, shape : ss, names : {names}]
SplitNames ==
    [t \in Thread |-> IF t = t1 THEN Nodes({s1, s2}, n1) ELSE Nodes({s1}, n2)]
SameNames ==
    [t \in Thread |-> Nodes({s1}, n1)]
=============================================================================
