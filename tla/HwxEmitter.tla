----------------------------- MODULE HwxEmitter -----------------------------
(***************************************************************************)
(* The HWX binary patcher (src/graph/hwx_emitter.cpp): a binary compiled   *)
(* for one activation is made into that of another by writing four words   *)
(* of its __text and, when the text has another length, by moving __const  *)
(* behind it and correcting whatever refers to it.                         *)
(*                                                                         *)
(* A binary is the record of what the patcher reads or writes: the file's  *)
(* magic number and size, the four words, the headers that describe        *)
(* __text and __const, the addresses in the load commands, and where the   *)
(* contents of __const are.  Offsets and sizes are the real ones.          *)
(***************************************************************************)
EXTENDS Naturals

CONSTANTS
    Op,         \* the activation ops (is_hwx_eligible)
    Shape,      \* (channels, seq)
    ConfigOf,   \* external: the OpConfig of each op
    Compiled,   \* external: the binary the compiler makes of an op at a shape
    NoHwx,      \* no file, an empty vector
    NoConfig    \* an op without an entry in op_cfg_cache_

kTextFileOff == 16384
kConstAlign == 64
kConstSize == 16384
kTextVmBase == 805339136
kMinHwxSize == kTextFileOff + 96

\* The words the patcher knows of: Word[4], Word[12], Word[19] and Word[23].
OpWord == {"program_size", "stage_flags", "opcode", "extra_config"}
OpConfig == [words : [OpWord -> Nat], num_words : Nat]

\* Addresses in the load commands: of __text, of __const in its section
\* header (kConstVmaddrOff), and of __const in the task descriptor.
Address == {"text", "const", "td"}

Hwx == [magic : BOOLEAN,            \* kBeeffaceMagic in front
        size : Nat,                 \* of the file
        words : [OpWord -> Nat],
        text_for : Shape,           \* whose sizes and strides the other words of __text hold
        used : Nat,                 \* bytes of __text up to the last that is not zero
        text_size : Nat,            \* kTextSectSizeOff
        td_count : Nat,             \* kTdInstrCntOff
        const_for : Shape,          \* whose pipeline configuration __const holds
        const_at : Nat,             \* where its contents are; 0 when they are lost
        const_fileoff : Nat,        \* kConstFileoffOff
        addr : [Address -> Nat]]

-----------------------------------------------------------------------------
valid_hwx(hwx) == hwx.size >= kMinHwxSize /\ hwx.magic

\* What capture_from_model_dir gets from the first .hwx file of a directory.
read_hwx_from_dir(file) == IF file # NoHwx /\ valid_hwx(file) THEN file ELSE NoHwx

extract_op_config(hwx) ==
    IF hwx.size < kMinHwxSize
    THEN [words |-> [w \in OpWord |-> 0], num_words |-> 0]
    ELSE [words |-> hwx.words, num_words |-> hwx.text_size \div 4]

\* Where __const is for a text of n words, in the file and in memory.
const_off(n) == ((kTextFileOff + 4 * n + kConstAlign - 1) \div kConstAlign) * kConstAlign
const_vm(n) == kTextVmBase + (const_off(n) - kTextFileOff)

\* A mutant: references outside the section header keep the old address.
update_refs_not(addr, new, old) == addr

\* The old address of __const becomes the new one wherever it is in the load
\* commands.
update_refs(addr, new, old) ==
    [a \in Address |-> IF addr[a] = const_vm(old) THEN const_vm(new) ELSE addr[a]]

\* The binary after its __text went from old to new words: __const is saved
\* if it is in the file, the file grows if it must, the end of a longer text
\* is cleared, and __const is moved.
relocate(hwx, new, old) ==
    LET needed == const_off(new) + kConstSize
        saved == const_off(old) + kConstSize <= hwx.size
    IN  [hwx EXCEPT
          !.size = IF @ < needed THEN needed ELSE @,
          !.used = IF new < old /\ 4 * new < @ THEN 4 * new ELSE @,
          !.const_at = IF const_off(old) = const_off(new) \/ ~saved THEN @
                       ELSE IF @ = const_off(old) THEN const_off(new) ELSE 0,
          !.text_size = 4 * new,
          !.const_fileoff = const_off(new),
          !.addr = update_refs([@ EXCEPT !["const"] = const_vm(new)], new, old),
          !.td_count = new]

patch_op(hwx, new_cfg, old_cfg) ==
    LET patched == [hwx EXCEPT !.words = new_cfg.words]
    IN  IF ~valid_hwx(hwx) THEN hwx
        ELSE IF new_cfg.num_words = old_cfg.num_words THEN patched
        ELSE relocate(patched, new_cfg.num_words, old_cfg.num_words)

-----------------------------------------------------------------------------
(***************************************************************************)
(* External, from hwx_emitter.hpp: what the framework's compiler makes.    *)
(* The words of a binary that depend on its op are those of OpConfig, and  *)
(* they are the same at every shape; the rest of __text and __const depend *)
(* on the shape alone.                                                     *)
(***************************************************************************)

\* The headers, the addresses and the place of __const agree with each other
\* and with the length of __text.
WellLaid(hwx) ==
    /\ hwx.text_size = 4 * hwx.td_count /\ hwx.used <= hwx.text_size
    /\ hwx.const_fileoff = const_off(hwx.td_count)
    /\ hwx.const_at = hwx.const_fileoff
    /\ hwx.const_fileoff + kConstSize <= hwx.size
    /\ hwx.addr["text"] = kTextVmBase
    /\ hwx.addr["const"] = const_vm(hwx.td_count)
    /\ hwx.addr["td"] = const_vm(hwx.td_count)

\* What runs when the binary is loaded is op on tensors of the shape.
Computes(hwx, op, shape) ==
    /\ hwx.magic /\ WellLaid(hwx)
    /\ hwx.words = ConfigOf[op].words /\ hwx.td_count = ConfigOf[op].num_words
    /\ hwx.text_for = shape /\ hwx.const_for = shape

\* kPP_ExtraConfig, the last of the four words, is Word[23].
ASSUME CompilerAssumption ==
    /\ ConfigOf \in [Op -> OpConfig]
    /\ \A op \in Op : ConfigOf[op].num_words >= 24
    /\ Compiled \in [Op -> [Shape -> Hwx]]
    /\ \A op \in Op, s \in Shape : Computes(Compiled[op][s], op, s)
    /\ NoHwx \notin Hwx /\ NoConfig \notin OpConfig
=============================================================================
