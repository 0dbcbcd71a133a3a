------------------------------- MODULE LruOps -------------------------------
(***************************************************************************)
(* Constants of the compile cache and the operations on its LRU list.      *)
(***************************************************************************)
EXTENDS Naturals, Sequences, FiniteSets, SequencesExt

CONSTANTS
    Key,        \* cache keys: (op, shape, weight hash)
    Thread,     \* callers
    Entry,      \* compiled entries; one is created by every put
    NoEntry,    \* nullptr
    EntryKey,   \* the key an entry is filed under
    EntrySize,  \* its size_bytes
    MaxBytes    \* max_bytes_

ASSUME CacheAssumption ==
    /\ NoEntry \notin Entry
    /\ Key # {}
    /\ EntryKey \in [Entry -> Key]
    /\ EntrySize \in [Entry -> Nat]
    /\ MaxBytes \in Nat

(***************************************************************************)
(* The total size of a set of entries: the number of their byte cells.     *)
(* (A sum written as a cardinality, which the finite-set theorems reason   *)
(* about.)                                                                 *)
(***************************************************************************)
Cells(e) == {e} \X (1 .. EntrySize[e])

Bytes(S) == Cardinality(UNION {Cells(e) : e \in S})

Elements(s) == {s[i] : i \in DOMAIN s}

\* Positions of s that hold an entry filed under k (at most one, in a cache).
At(s, k) == {i \in DOMAIN s : EntryKey[s[i]] = k}

\* s without the entry filed under k.
Without(s, k) ==
    IF At(s, k) = {} THEN s ELSE RemoveAt(s, CHOOSE i \in At(s, k) : TRUE)

MoveToFront(s, i) == <<s[i]>> \o RemoveAt(s, i)

\* Lengths n such that the n most recent entries of s leave room for e.
Fitting(s, e) ==
    {n \in 0 .. Len(s) :
        n = 0 \/ Bytes(Elements(SubSeq(s, 1, n))) + EntrySize[e] <= MaxBytes}

\* The longest prefix of s that leaves room for e.
Keep(s, e) ==
    SubSeq(s, 1, CHOOSE n \in Fitting(s, e) : \A m \in Fitting(s, e) : m <= n)
=============================================================================
