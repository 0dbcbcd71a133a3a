-------------------------- MODULE LibaneApiProofs ---------------------------
(***************************************************************************)
(* Proofs about LibaneApi, for any threads, keys, entries, entry sizes and *)
(* any cache budget: no program is used after it was freed, handles stay   *)
(* usable, batches are reported as they went, and results are right as     *)
(* long as products and compilations do not share keys.                    *)
(***************************************************************************)
EXTENDS LibaneApi, TLAPS, FiniteSetTheorems, SequenceTheorems, WellFoundedInduction

\* The keys that libane_compile and libane_compile_batch are asked for.
CompileKeys == UNION {Elements(ks) : ks \in Requests}

\* No product has the key of a compilation.
KeysApart == CompileKeys \cap MatmulKeys = {}

(***************************************************************************)
(* The inductive invariant.                                                *)
(***************************************************************************)
Label ==
    {"idle", "lookup", "compile", "store", "execute", "reload",
     "matmul f32", "matmul compile", "matmul store", "matmul"}

Results ==
    {"none", "compiled", "compile failed", "ok", "wrong", "failed", "unavailable",
     "invalid argument"}

Pointer == Entry \cup {NoEntry}

SharedTypes ==
    /\ available \in BOOLEAN
    /\ backend \in {"auto", "ane", "cpu"}
    /\ order \in Seq(Entry)
    /\ got \in [Thread -> Pointer]
    /\ code \in [Entry -> {"none", "raw", "transposed"}]
    /\ model \in [Entry -> {"unborn", "absent", "loaded", "unloaded", "freed"}]
    /\ broken \subseteq Entry

ThreadTypes ==
    /\ pc \in [Thread -> Label]
    /\ requests \in [Thread -> Requests \cup {<<>>}]
    /\ success \in [Thread -> BOOLEAN]
    /\ req \in [Thread -> Key \cup {NoKey}]
    /\ local \in [Thread -> Pointer]
    /\ prog \in [Thread -> Pointer]
    /\ handle \in [Thread -> Seq(Pointer)]
    /\ res \in [Thread -> Results]

\* A call of libane_compile_batch has one handle or NULL for each request it
\* is done with, and knows whether there was a NULL.
Filed(h, ks) ==
    \A i \in DOMAIN h : i \in DOMAIN ks /\ (h[i] = NoEntry \/ EntryKey[h[i]] = ks[i])

BatchOK(t) ==
    IF pc[t] \in {"lookup", "compile", "store"}
      THEN /\ requests[t] \in Requests
           /\ Len(handle[t]) < Len(requests[t])
           /\ Filed(handle[t], requests[t])
           /\ success[t] <=> NoEntry \notin Elements(handle[t])
      ELSE requests[t] = <<>> /\ success[t]

\* A handle is filed under a key of a compilation.
HandlesOK(t) ==
    \A h \in Elements(handle[t]) \ {NoEntry} : EntryKey[h] \in CompileKeys

\* The raw pointer of a call is kept alive by its shared_ptr local or by the
\* handle of the caller.
ProgOK(t) ==
    /\ pc[t] \in {"idle", "lookup", "compile", "matmul f32", "matmul compile"} =>
           prog[t] = NoEntry /\ local[t] = NoEntry
    /\ pc[t] \in {"store", "matmul store", "matmul"} =>
           prog[t] = local[t] /\ local[t] # NoEntry
    /\ pc[t] \in {"execute", "reload"} =>
           prog[t] \in Elements(handle[t]) \ {NoEntry} /\ local[t] = NoEntry
    /\ pc[t] = "store" => EntryKey[prog[t]] = Request(t)
    /\ pc[t] \in {"matmul store", "matmul"} => EntryKey[prog[t]] \in MatmulKeys
    /\ pc[t] \in {"matmul f32", "matmul compile"} => req[t] \in MatmulKeys
    /\ KeysApart => res[t] # "wrong"

ThreadOK(t) == BatchOK(t) /\ HandlesOK(t) /\ ProgOK(t)

\* What is held exists.
Live ==
    \A e \in Held(order, handle, local) \ {NoEntry} : model[e] \notin {"unborn", "freed"}

\* A compilation makes raw programs; a product a transposed one or none.
CodesOK ==
    \A e \in Entry :
        /\ code[e] = "none" <=> model[e] \in {"unborn", "absent"}
        /\ KeysApart /\ model[e] # "unborn" =>
               /\ EntryKey[e] \in CompileKeys => code[e] = "raw"
               /\ EntryKey[e] \in MatmulKeys => code[e] # "raw"

\* A program that is not loaded is being reloaded, or its reload failed.
ReloadsOK ==
    /\ \A e \in Entry : model[e] = "unloaded" =>
           e \in broken \/ \E u \in Thread : pc[u] = "reload" /\ prog[u] = e
    /\ \A u \in Thread : pc[u] = "reload" => code[prog[u]] # "none"

IInv ==
    /\ SharedTypes /\ ThreadTypes
    /\ \A t \in Thread : ThreadOK(t)
    /\ Live /\ CodesOK /\ ReloadsOK

-----------------------------------------------------------------------------
(***************************************************************************)
(* The cache                                                               *)
(***************************************************************************)

\* The elements of a part of a list are elements of the list.
LEMMA SubSeqIn ==
    ASSUME NEW S, NEW s \in Seq(S), NEW m \in Int, NEW n \in Int, 1 <= m, n <= Len(s)
    PROVE  /\ SubSeq(s, m, n) \in Seq(S)
           /\ Elements(SubSeq(s, m, n)) \subseteq Elements(s)
<1> DEFINE q == SubSeq(s, m, n)
<1>1. Len(s) \in Nat /\ DOMAIN s = 1 .. Len(s)
  BY LenProperties
<1>2. \A i \in m .. n : s[i] \in S
  BY <1>1, ElementOfSeq
<1>3. /\ q \in Seq(S) /\ Len(q) = IF m <= n THEN n - m + 1 ELSE 0
      /\ \A i \in 1 .. n - m + 1 : q[i] = s[m + i - 1]
  BY <1>2, SubSeqProperties
<1>4. DOMAIN q = 1 .. Len(q)
  BY <1>3, LenProperties
<1> HIDE DEF q
<1>5. ASSUME NEW i \in DOMAIN q PROVE q[i] \in Elements(s)
  <2>1. i \in 1 .. n - m + 1 /\ m + i - 1 \in 1 .. Len(s)
    BY <1>1, <1>3, <1>4
  <2> QED BY <1>1, <1>3, <2>1 DEF Elements
<1> QED BY <1>3, <1>5 DEF Elements, q

\* Joining lists joins their elements.
LEMMA ConcatIn ==
    ASSUME NEW S, NEW a \in Seq(S), NEW b \in Seq(S)
    PROVE  a \o b \in Seq(S) /\ Elements(a \o b) \subseteq Elements(a) \cup Elements(b)
<1>1. /\ a \o b \in Seq(S) /\ Len(a \o b) = Len(a) + Len(b)
      /\ \A i \in 1 .. Len(a) + Len(b) :
            (a \o b)[i] = IF i <= Len(a) THEN a[i] ELSE b[i - Len(a)]
  BY ConcatProperties
<1>2. /\ Len(a) \in Nat /\ Len(b) \in Nat /\ DOMAIN a = 1 .. Len(a) /\ DOMAIN b = 1 .. Len(b)
      /\ DOMAIN (a \o b) = 1 .. Len(a) + Len(b)
  BY <1>1, LenProperties
<1>3. ASSUME NEW i \in DOMAIN (a \o b) PROVE (a \o b)[i] \in Elements(a) \cup Elements(b)
  <2>1. CASE i <= Len(a)
    BY <1>1, <1>2, <2>1 DEF Elements
  <2>2. CASE ~(i <= Len(a))
    <3>1. i - Len(a) \in DOMAIN b
      BY <1>2, <2>2
    <3> QED BY <1>1, <1>2, <2>2, <3>1 DEF Elements
  <2> QED BY <2>1, <2>2
<1> QED BY <1>1, <1>3 DEF Elements

LEMMA RemoveAtIn ==
    ASSUME NEW S, NEW s \in Seq(S), NEW i \in 1 .. Len(s)
    PROVE  RemoveAt(s, i) \in Seq(S) /\ Elements(RemoveAt(s, i)) \subseteq Elements(s)
<1> DEFINE a == SubSeq(s, 1, i - 1)
           b == SubSeq(s, i + 1, Len(s))
<1>1. Len(s) \in Nat
  BY LenProperties
<1>2. a \in Seq(S) /\ Elements(a) \subseteq Elements(s)
  BY <1>1, SubSeqIn
<1>3. b \in Seq(S) /\ Elements(b) \subseteq Elements(s)
  BY <1>1, SubSeqIn
<1>4. RemoveAt(s, i) = a \o b
  BY DEF RemoveAt
<1> HIDE DEF a, b
<1> QED BY <1>2, <1>3, <1>4, ConcatIn

\* A set of numbers with a bound has a greatest member.
LEMMA Greatest ==
    ASSUME NEW n \in Nat, NEW T \in SUBSET (0 .. n), T # {}
    PROVE  \E m \in T : \A k \in T : k <= m
<1> DEFINE D == {n - k : k \in T}
<1>1. D \subseteq Nat /\ D # {}
  <2>1. \A k \in T : n - k \in Nat
    OBVIOUS
  <2>2. PICK k \in T : TRUE
    OBVIOUS
  <2>3. n - k \in D
    OBVIOUS
  <2> QED BY <2>1, <2>3
<1>2. PICK x \in D : \A y \in D : ~(<<y, x>> \in OpToRel(<, Nat))
  BY <1>1, NatLessThanWellFounded, WFMin
<1>3. \A y \in D : ~(y < x)
  BY <1>1, <1>2 DEF OpToRel
<1>4. PICK m \in T : x = n - m
  OBVIOUS
<1>5. ASSUME NEW k \in T PROVE k <= m
  <2>1. n - k \in D
    OBVIOUS
  <2>2. ~(n - k < n - m)
    BY <1>3, <1>4, <2>1
  <2> QED BY <2>2
<1> QED BY <1>5

\* What the cache keeps for a new entry was there.
LEMMA KeepIn ==
    ASSUME NEW s \in Seq(Entry), NEW e \in Entry
    PROVE  Keep(s, e) \in Seq(Entry) /\ Elements(Keep(s, e)) \subseteq Elements(s)
<1> DEFINE n == CHOOSE n \in Fitting(s, e) : \A m \in Fitting(s, e) : m <= n
<1>1. Len(s) \in Nat
  BY LenProperties
<1>2. Fitting(s, e) \in SUBSET (0 .. Len(s)) /\ 0 \in Fitting(s, e)
  BY <1>1 DEF Fitting
<1>3. \E m \in Fitting(s, e) : \A k \in Fitting(s, e) : k <= m
  BY <1>1, <1>2, Greatest
<1>4. n \in Fitting(s, e)
  BY <1>3
<1>5. Keep(s, e) = SubSeq(s, 1, n)
  BY DEF Keep
<1> HIDE DEF n
<1>6. n \in Int /\ n <= Len(s)
  BY <1>1, <1>2, <1>4
<1> QED BY <1>5, <1>6, SubSeqIn

LEMMA WithoutIn ==
    ASSUME NEW s \in Seq(Entry), NEW k
    PROVE  Without(s, k) \in Seq(Entry) /\ Elements(Without(s, k)) \subseteq Elements(s)
<1>1. CASE At(s, k) = {}
  BY <1>1 DEF Without
<1>2. CASE At(s, k) # {}
  <2> DEFINE i == CHOOSE i \in At(s, k) : TRUE
  <2>1. i \in At(s, k)
    BY <1>2
  <2>2. i \in 1 .. Len(s)
    BY <2>1, LenProperties DEF At
  <2>3. Without(s, k) = RemoveAt(s, i)
    BY <1>2 DEF Without
  <2> HIDE DEF i
  <2> QED BY <2>2, <2>3, RemoveAtIn
<1> QED BY <1>1, <1>2

\* The cache's operators are the ones of LruOps.
LEMMA SameOps ==
    /\ \A s, k : Cache!At(s, k) = At(s, k)
    /\ \A s, i : Cache!MoveToFront(s, i) = MoveToFront(s, i)
    /\ \A s : Cache!Elements(s) = Elements(s)
    /\ \A s, k : Cache!Without(s, k) = Without(s, k)
    /\ \A s, e : Cache!Keep(s, e) = Keep(s, e)
<1>1. \A s, k : Cache!At(s, k) = At(s, k)
  BY DEF Cache!At, At
<1>2. \A s, i : Cache!MoveToFront(s, i) = MoveToFront(s, i)
  BY DEF Cache!MoveToFront, MoveToFront, Cache!RemoveAt, RemoveAt
<1>3. \A s : Cache!Elements(s) = Elements(s)
  BY DEF Cache!Elements, Elements
<1>4. \A s, k : Cache!Without(s, k) = Without(s, k)
  BY DEF Cache!Without, Without, Cache!At, At, Cache!RemoveAt, RemoveAt
<1>5. \A T : Cache!Bytes(T) = Bytes(T)
  <2>1. \A e : Cache!Cells(e) = Cells(e)
    BY DEF Cache!Cells, Cells
  <2>2. \A T : {Cache!Cells(e) : e \in T} = {Cells(e) : e \in T}
    BY <2>1
  <2>3. \A T : Cache!Cardinality(T) = Cardinality(T)
    BY DEF Cache!Cardinality, Cardinality
  <2> QED BY <2>2, <2>3 DEF Cache!Bytes, Bytes
<1>6. \A s, e : Cache!Fitting(s, e) = Fitting(s, e)
  BY <1>3, <1>5 DEF Cache!Fitting, Fitting
<1>7. \A s, e : Cache!Keep(s, e) = Keep(s, e)
  BY <1>6 DEF Cache!Keep, Keep
<1> QED BY <1>1, <1>2, <1>3, <1>4, <1>7

\* A lookup adds nothing to the cache and returns NULL or a cached entry of
\* the key.
LEMMA LookupFacts ==
    ASSUME SharedTypes, NEW t \in Thread, NEW k, Cache!Lookup(t, k)
    PROVE  /\ order' \in Seq(Entry) /\ Elements(order') \subseteq Elements(order)
           /\ got' \in [Thread -> Pointer]
           /\ got'[t] # NoEntry => got'[t] \in Elements(order) /\ EntryKey[got'[t]] = k
<1>1. order \in Seq(Entry) /\ got \in [Thread -> Pointer]
  BY DEF SharedTypes
<1>2. CASE got' = [got EXCEPT ![t] = NoEntry] /\ order' = order
  <2>1. got'[t] = NoEntry /\ got' \in [Thread -> Pointer]
    BY <1>1, <1>2 DEF Pointer
  <2> QED BY <1>1, <1>2, <2>1
<1>3. ASSUME NEW i \in At(order, k), got' = [got EXCEPT ![t] = order[i]],
             order' = MoveToFront(order, i)
      PROVE  /\ order' \in Seq(Entry) /\ Elements(order') \subseteq Elements(order)
             /\ got' \in [Thread -> Pointer]
             /\ got'[t] \in Elements(order) /\ EntryKey[got'[t]] = k
  <2>1. /\ i \in 1 .. Len(order) /\ EntryKey[order[i]] = k
        /\ order[i] \in Entry /\ order[i] \in Elements(order)
    BY <1>1, LenProperties, ElementOfSeq DEF At, Elements
  <2>2. /\ RemoveAt(order, i) \in Seq(Entry)
        /\ Elements(RemoveAt(order, i)) \subseteq Elements(order)
    BY <1>1, <2>1, RemoveAtIn
  <2>3. <<order[i]>> \in Seq(Entry) /\ Elements(<<order[i]>>) \subseteq {order[i]}
    BY <2>1 DEF Elements
  <2>4. order' \in Seq(Entry) /\ Elements(order') \subseteq Elements(order)
    <3>1. order' = <<order[i]>> \o RemoveAt(order, i)
      BY <1>3 DEF MoveToFront
    <3>2. /\ order' \in Seq(Entry)
          /\ Elements(order') \subseteq Elements(<<order[i]>>) \cup Elements(RemoveAt(order, i))
      BY <2>2, <2>3, <3>1, ConcatIn
    <3> QED BY <2>1, <2>2, <2>3, <3>2
  <2>5. got'[t] = order[i] /\ got' \in [Thread -> Pointer]
    BY <1>1, <1>3, <2>1 DEF Pointer
  <2> QED BY <2>1, <2>4, <2>5
<1>4. \/ got' = [got EXCEPT ![t] = NoEntry] /\ order' = order
      \/ \E i \in At(order, k) :
            got' = [got EXCEPT ![t] = order[i]] /\ order' = MoveToFront(order, i)
  BY SameOps DEF Cache!Lookup
<1> QED BY <1>2, <1>3, <1>4

\* A store adds the new entry and nothing else.
LEMMA StoreFacts ==
    ASSUME SharedTypes, NEW t \in Thread, NEW e \in Entry, Cache!Store(t, e)
    PROVE  /\ order' \in Seq(Entry) /\ Elements(order') \subseteq Elements(order) \cup {e}
           /\ got' \in [Thread -> Pointer]
<1>1. order \in Seq(Entry) /\ got \in [Thread -> Pointer]
  BY DEF SharedTypes
<1> DEFINE w == Without(order, EntryKey[e])
           q == Keep(w, e)
<1>2. order' = <<e>> \o q /\ got' = [got EXCEPT ![t] = e]
  BY SameOps DEF Cache!Store
<1>3. w \in Seq(Entry) /\ Elements(w) \subseteq Elements(order)
  BY <1>1, WithoutIn
<1> HIDE DEF w
<1>4. q \in Seq(Entry) /\ Elements(q) \subseteq Elements(w)
  BY <1>3, KeepIn
<1> HIDE DEF q
<1>5. <<e>> \in Seq(Entry) /\ Elements(<<e>>) \subseteq {e}
  BY DEF Elements
<1>6. /\ <<e>> \o q \in Seq(Entry)
      /\ Elements(<<e>> \o q) \subseteq Elements(<<e>>) \cup Elements(q)
  BY <1>4, <1>5, ConcatIn
<1> QED BY <1>1, <1>2, <1>3, <1>4, <1>5, <1>6 DEF Pointer

-----------------------------------------------------------------------------
(***************************************************************************)
(* A step of one thread                                                    *)
(***************************************************************************)

\* The step leaves the other threads' part of the state alone.
Others(t) ==
    \A u \in Thread \ {t} :
        /\ pc'[u] = pc[u] /\ requests'[u] = requests[u] /\ req'[u] = req[u]
        /\ (success'[u] <=> success[u]) /\ local'[u] = local[u] /\ prog'[u] = prog[u]
        /\ handle'[u] = handle[u] /\ res'[u] = res[u]

\* A pointer is an entry or NULL, and a held one is an entry.
LEMMA HeldFacts ==
    ASSUME SharedTypes, ThreadTypes, NEW t \in Thread
    PROVE  /\ Elements(order) \subseteq Entry
           /\ Elements(handle[t]) \subseteq Pointer /\ local[t] \in Pointer
           /\ prog[t] \in Pointer
           /\ Elements(handle[t]) \cup {local[t]} \cup Elements(order)
                \subseteq Held(order, handle, local)
<1>1. handle[t] \in Seq(Pointer) /\ order \in Seq(Entry) /\ local[t] \in Pointer /\ prog[t] \in Pointer
  BY DEF SharedTypes, ThreadTypes
<1>2. Elements(order) \subseteq Entry
  BY <1>1, ElementOfSeq, LenProperties DEF Elements
<1>3. Elements(handle[t]) \subseteq Pointer
  BY <1>1, ElementOfSeq, LenProperties DEF Elements
<1> QED BY <1>1, <1>2, <1>3 DEF Held

\* The program a thread reloads is an entry.
LEMMA ReloadedFacts ==
    ASSUME IInv, NEW u \in Thread, pc[u] \in {"reload", "execute"}
    PROVE  prog[u] \in Entry /\ prog[u] \in Elements(handle[u])
<1>1. prog[u] \in Elements(handle[u]) \ {NoEntry}
  BY DEF IInv, ThreadOK, ProgOK
<1> QED BY <1>1, HeldFacts DEF IInv, Pointer

LEMMA OneThread ==
    ASSUME IInv, NEW t \in Thread, SharedTypes', ThreadTypes', ThreadOK(t)', Others(t),
           Live', CodesOK', ReloadsOK'
    PROVE  IInv'
<1>1. ASSUME NEW u \in Thread, u # t PROVE ThreadOK(u)'
  <2>1. ThreadOK(u)
    BY DEF IInv
  <2>2. BatchOK(u)' /\ HandlesOK(u)'
    BY <1>1, <2>1 DEF ThreadOK, BatchOK, Filed, HandlesOK, Others
  <2>3. ProgOK(u)'
    BY <1>1, <2>1 DEF ThreadOK, ProgOK, Request, Others
  <2> QED BY <2>2, <2>3 DEF ThreadOK
<1> QED BY <1>1 DEF IInv

\* What the step does not hold on to was held before.
LEMMA HeldLess ==
    ASSUME NEW t \in Thread, Others(t), NEW A,
           Elements(order') \subseteq Elements(order) \cup A,
           Elements(handle'[t]) \cup {local'[t]} \subseteq
               Elements(handle[t]) \cup {local[t]} \cup Elements(order) \cup A
    PROVE  Held(order', handle', local') \subseteq Held(order, handle, local) \cup A
<1> SUFFICES ASSUME NEW e \in Held(order', handle', local')
             PROVE  e \in Held(order, handle, local) \cup A
  OBVIOUS
<1>1. CASE e \in Elements(order')
  BY <1>1 DEF Held
<1>2. CASE e \in Elements(handle'[t]) \cup {local'[t]}
  BY <1>2 DEF Held
<1>3. ASSUME NEW u \in Thread, u # t, e \in Elements(handle'[u]) \cup {local'[u]}
      PROVE  e \in Held(order, handle, local)
  BY <1>3 DEF Held, Others
<1> QED BY <1>1, <1>2, <1>3 DEF Held

\* Reap frees what is not held any more.
LEMMA ReapFacts ==
    ASSUME SharedTypes, Reap(model)
    PROVE  /\ model' \in [Entry -> {"unborn", "absent", "loaded", "unloaded", "freed"}]
           /\ \A e \in Entry :
                 \/ model'[e] = model[e]
                 \/ /\ model[e] \in {"loaded", "unloaded"} /\ model'[e] = "freed"
                    /\ e \notin Held(order', handle', local')
<1> DEFINE H == Held(order', handle', local')
<1>1. model' = [e \in Entry |-> IF model[e] \in {"loaded", "unloaded"} /\ e \notin H
                                 THEN "freed" ELSE model[e]]
  BY DEF Reap
<1> HIDE DEF H
<1> QED BY <1>1 DEF SharedTypes, H

\* A step that compiles and reloads nothing and takes hold of nothing that was
\* not held before.
LEMMA QuietStep ==
    ASSUME IInv, NEW t \in Thread, SharedTypes', ThreadTypes', ThreadOK(t)', Others(t),
           code' = code, broken' = broken, pc[t] # "reload", pc'[t] # "reload",
           \A e \in Entry :
               \/ model'[e] = model[e]
               \/ /\ model[e] \in {"loaded", "unloaded"} /\ model'[e] = "freed"
                  /\ e \notin Held(order', handle', local'),
           Held(order', handle', local') \subseteq Held(order, handle, local) \cup {NoEntry}
    PROVE  IInv'
<1>1. Live'
  <2> SUFFICES ASSUME NEW e \in Held(order', handle', local') \ {NoEntry}
               PROVE  model'[e] \notin {"unborn", "freed"}
    BY DEF Live
  <2>1. e \in Held(order, handle, local) \ {NoEntry}
    OBVIOUS
  <2>2. e \in Entry
    BY <2>1, HeldFacts DEF Held, Pointer, IInv
  <2>3. model[e] \notin {"unborn", "freed"}
    BY <2>1 DEF IInv, Live
  <2> QED BY <2>2, <2>3
<1>2. CodesOK'
  BY DEF IInv, CodesOK
<1>3. ReloadsOK'
  <2>1. ASSUME NEW e \in Entry, model'[e] = "unloaded"
        PROVE  e \in broken' \/ \E u \in Thread : pc'[u] = "reload" /\ prog'[u] = e
    BY <2>1 DEF IInv, ReloadsOK, Others
  <2>2. ASSUME NEW u \in Thread, pc'[u] = "reload" PROVE code'[prog'[u]] # "none"
    BY <2>2 DEF IInv, ReloadsOK, Others
  <2> QED BY <2>1, <2>2 DEF ReloadsOK
<1> QED BY <1>1, <1>2, <1>3, OneThread

\* A call that is not a compilation returns r.
LEMMA LeaveFacts ==
    ASSUME IInv, NEW t \in Thread, NEW r \in Results, Leave(t, r),
           pc[t] \notin {"lookup", "compile", "store"}, KeysApart => r # "wrong",
           handle' = handle, success' = success
    PROVE  /\ ThreadTypes' /\ Others(t) /\ ThreadOK(t)'
           /\ pc'[t] = "idle" /\ prog'[t] = NoEntry /\ local'[t] = NoEntry
<1>1. /\ pc' = [pc EXCEPT ![t] = "idle"] /\ res' = [res EXCEPT ![t] = r]
      /\ local' = [local EXCEPT ![t] = NoEntry] /\ prog' = [prog EXCEPT ![t] = NoEntry]
      /\ req' = [req EXCEPT ![t] = NoKey] /\ requests' = [requests EXCEPT ![t] = <<>>]
  BY DEF Leave
<1>2. ThreadTypes /\ BatchOK(t) /\ HandlesOK(t)
  BY DEF IInv, ThreadOK
<1>3. /\ pc'[t] = "idle" /\ res'[t] = r /\ local'[t] = NoEntry /\ prog'[t] = NoEntry
      /\ requests'[t] = <<>> /\ success'[t] /\ handle'[t] = handle[t]
  BY <1>1, <1>2 DEF ThreadTypes, BatchOK
<1>4. ThreadTypes' /\ Others(t)
  BY <1>1, <1>2 DEF ThreadTypes, Others, Label, Pointer
<1>5. BatchOK(t)' /\ HandlesOK(t)'
  BY <1>2, <1>3 DEF BatchOK, HandlesOK
<1>6. ProgOK(t)'
  BY <1>3 DEF ProgOK
<1> QED BY <1>3, <1>4, <1>5, <1>6 DEF ThreadOK

LEMMA AppendFacts ==
    ASSUME NEW S, NEW h \in Seq(S), NEW e \in S
    PROVE  /\ Append(h, e) \in Seq(S) /\ Len(Append(h, e)) = Len(h) + 1 /\ Len(h) \in Nat
           /\ DOMAIN h = 1 .. Len(h) /\ DOMAIN Append(h, e) = 1 .. Len(h) + 1
           /\ \A i \in 1 .. Len(h) : Append(h, e)[i] = h[i]
           /\ Append(h, e)[Len(h) + 1] = e
           /\ Elements(Append(h, e)) = Elements(h) \cup {e}
<1> DEFINE a == Append(h, e)
<1>1. /\ a \in Seq(S) /\ Len(a) = Len(h) + 1
      /\ \A i \in 1 .. Len(h) : a[i] = h[i]
      /\ a[Len(h) + 1] = e
  BY AppendProperties
<1>2. Len(h) \in Nat /\ DOMAIN h = 1 .. Len(h) /\ DOMAIN a = 1 .. Len(h) + 1
  BY <1>1, LenProperties
<1> HIDE DEF a
<1>3. Elements(a) \subseteq Elements(h) \cup {e}
  <2> SUFFICES ASSUME NEW i \in 1 .. Len(h) + 1 PROVE a[i] \in Elements(h) \cup {e}
    BY <1>2 DEF Elements
  <2>1. CASE i = Len(h) + 1
    BY <1>1, <2>1
  <2>2. CASE i # Len(h) + 1
    <3>1. i \in 1 .. Len(h)
      BY <1>2, <2>2
    <3> QED BY <1>1, <1>2, <3>1 DEF Elements
  <2> QED BY <2>1, <2>2
<1>4. Elements(h) \subseteq Elements(a)
  <2> SUFFICES ASSUME NEW i \in 1 .. Len(h) PROVE h[i] \in Elements(a)
    BY <1>2 DEF Elements
  <2>1. i \in DOMAIN a /\ a[i] = h[i]
    BY <1>1, <1>2
  <2> QED BY <2>1 DEF Elements
<1>5. e \in Elements(a)
  <2>1. Len(h) + 1 \in DOMAIN a
    BY <1>2
  <2> QED BY <1>1, <2>1 DEF Elements
<1> QED BY <1>1, <1>2, <1>3, <1>4, <1>5 DEF a

\* libane_compile is done with a request: the batch goes on or returns.  When
\* it returns it reports what became of each request.
Reported(t) ==
    requests'[t] = <<>> =>
        /\ Len(handle'[t]) = Len(requests[t])
        /\ Filed(handle'[t], requests[t])
        /\ res'[t] = "compiled" <=> NoEntry \notin Elements(handle'[t])

LEMMA DeliverFacts ==
    ASSUME IInv, NEW t \in Thread, pc[t] \in {"lookup", "compile", "store"}, NEW e \in Pointer,
           e # NoEntry => EntryKey[e] = Request(t), Deliver(t, e)
    PROVE  /\ ThreadTypes' /\ Others(t) /\ ThreadOK(t)' /\ Reported(t)
           /\ pc'[t] # "reload" /\ local'[t] = NoEntry
           /\ Elements(handle'[t]) = Elements(handle[t]) \cup {e}
<1> DEFINE h == handle[t]
           ks == requests[t]
           hh == Append(h, e)
           all == success[t] /\ e # NoEntry
<1>1. ThreadTypes /\ BatchOK(t) /\ HandlesOK(t)
  BY DEF IInv, ThreadOK
<1>2. /\ h \in Seq(Pointer) /\ ks \in Requests /\ ks \in Seq(Key) /\ Len(ks) \in Nat
      /\ DOMAIN ks = 1 .. Len(ks) /\ Len(h) < Len(ks) /\ Filed(h, ks)
      /\ success[t] <=> NoEntry \notin Elements(h)
  BY <1>1, ApiAssumption, LenProperties DEF ThreadTypes, BatchOK
<1>3. /\ hh \in Seq(Pointer) /\ Len(hh) = Len(h) + 1 /\ Len(h) \in Nat
      /\ DOMAIN h = 1 .. Len(h) /\ DOMAIN hh = 1 .. Len(h) + 1
      /\ \A i \in 1 .. Len(h) : hh[i] = h[i]
      /\ hh[Len(h) + 1] = e
      /\ Elements(hh) = Elements(h) \cup {e}
  BY <1>2, AppendFacts
<1>4. handle' = [handle EXCEPT ![t] = hh]
  BY DEF Deliver
<1>5. e # NoEntry => EntryKey[e] = ks[Len(h) + 1] /\ EntryKey[e] \in CompileKeys
  <2>1. e # NoEntry => EntryKey[e] = ks[Len(h) + 1]
    BY DEF Request
  <2>2. ks[Len(h) + 1] \in Elements(ks)
    BY <1>2, <1>3 DEF Elements
  <2> QED BY <1>2, <2>1, <2>2 DEF CompileKeys
<1> HIDE DEF hh
<1>6. Filed(hh, ks)
  <2> SUFFICES ASSUME NEW i \in 1 .. Len(h) + 1
               PROVE  i \in 1 .. Len(ks) /\ (hh[i] = NoEntry \/ EntryKey[hh[i]] = ks[i])
    BY <1>2, <1>3 DEF Filed
  <2>1. CASE i = Len(h) + 1
    BY <1>2, <1>3, <1>5, <2>1
  <2>2. CASE i # Len(h) + 1
    <3>1. i \in 1 .. Len(h)
      BY <1>3, <2>2
    <3> QED BY <1>2, <1>3, <3>1 DEF Filed
  <2> QED BY <2>1, <2>2
<1>7. all <=> NoEntry \notin Elements(hh)
  BY <1>2, <1>3
<1>8. handle'[t] = hh /\ handle' \in [Thread -> Seq(Pointer)]
  BY <1>1, <1>3, <1>4 DEF ThreadTypes
<1>9. HandlesOK(t)'
  BY <1>1, <1>3, <1>5, <1>8 DEF HandlesOK
<1>10. CASE /\ Len(h) + 1 < Len(ks) /\ success' = [success EXCEPT ![t] = all]
            /\ pc' = [pc EXCEPT ![t] = "lookup"] /\ res' = [res EXCEPT ![t] = "none"]
            /\ local' = [local EXCEPT ![t] = NoEntry] /\ prog' = [prog EXCEPT ![t] = NoEntry]
            /\ requests' = requests /\ req' = req
  <2>1. /\ pc'[t] = "lookup" /\ res'[t] = "none" /\ local'[t] = NoEntry
        /\ prog'[t] = NoEntry /\ requests'[t] = ks /\ (success'[t] <=> all)
    BY <1>1, <1>10 DEF ThreadTypes
  <2>2. ThreadTypes' /\ Others(t)
    <3>1. all \in BOOLEAN
      BY <1>1 DEF ThreadTypes
    <3> HIDE DEF all
    <3>2. ThreadTypes'
      BY <1>1, <1>8, <1>10, <3>1 DEF ThreadTypes, Label, Pointer, Results
    <3>3. Others(t)
      BY <1>1, <1>4, <1>10 DEF ThreadTypes, Others
    <3> QED BY <3>2, <3>3
  <2>3. BatchOK(t)'
    BY <1>2, <1>3, <1>6, <1>7, <1>8, <1>10, <2>1 DEF BatchOK
  <2>4. ProgOK(t)'
    BY <2>1 DEF ProgOK
  <2>5. Reported(t)
    BY <1>2, <2>1, ApiAssumption DEF Reported
  <2> QED BY <1>3, <1>8, <1>9, <2>1, <2>2, <2>3, <2>4, <2>5 DEF ThreadOK
<1>11. CASE /\ Len(h) + 1 = Len(ks) /\ success' = [success EXCEPT ![t] = TRUE]
            /\ Leave(t, IF all THEN "compiled" ELSE "compile failed")
  <2> DEFINE r == IF all THEN "compiled" ELSE "compile failed"
  <2>1. /\ pc' = [pc EXCEPT ![t] = "idle"] /\ res' = [res EXCEPT ![t] = r]
        /\ local' = [local EXCEPT ![t] = NoEntry] /\ prog' = [prog EXCEPT ![t] = NoEntry]
        /\ req' = [req EXCEPT ![t] = NoKey] /\ requests' = [requests EXCEPT ![t] = <<>>]
    BY <1>11 DEF Leave
  <2>2. r \in Results /\ r # "wrong" /\ (r = "compiled" <=> all)
    BY DEF Results
  <2> HIDE DEF r
  <2>3. /\ pc'[t] = "idle" /\ res'[t] = r /\ local'[t] = NoEntry
        /\ prog'[t] = NoEntry /\ requests'[t] = <<>> /\ success'[t]
    BY <1>1, <1>11, <2>1 DEF ThreadTypes
  <2>4. ThreadTypes' /\ Others(t)
    <3>1. ThreadTypes'
      BY <1>1, <1>8, <1>11, <2>1, <2>2 DEF ThreadTypes, Label, Pointer
    <3>2. Others(t)
      BY <1>1, <1>4, <1>11, <2>1 DEF ThreadTypes, Others
    <3> QED BY <3>1, <3>2
  <2>5. BatchOK(t)'
    BY <2>3 DEF BatchOK
  <2>6. ProgOK(t)'
    BY <2>2, <2>3 DEF ProgOK
  <2>7. Reported(t)
    BY <1>3, <1>6, <1>7, <1>8, <1>11, <2>2, <2>3 DEF Reported
  <2> QED BY <1>3, <1>8, <1>9, <2>3, <2>4, <2>5, <2>6, <2>7 DEF ThreadOK
<1> QED BY <1>10, <1>11 DEF Deliver, Goto

-----------------------------------------------------------------------------
(***************************************************************************)
(* libane_compile, libane_compile_batch                                    *)
(***************************************************************************)
LEMMA CompileBatchStep ==
    ASSUME IInv, NEW t \in Thread, NEW ks \in Requests, CompileBatch(t, ks)
    PROVE  IInv'
<1>1. /\ requests' = [requests EXCEPT ![t] = ks] /\ handle' = [handle EXCEPT ![t] = <<>>]
      /\ pc' = [pc EXCEPT ![t] = "lookup"] /\ res' = [res EXCEPT ![t] = "none"]
      /\ success' = success /\ req' = req /\ local' = local /\ prog' = prog
      /\ available' = available /\ broken' = broken /\ backend' = backend /\ order' = order
      /\ got' = got /\ code' = code /\ model' = model
      /\ pc[t] = "idle"
  BY DEF CompileBatch, Goto
<1>2. SharedTypes /\ ThreadTypes /\ BatchOK(t) /\ ProgOK(t)
  BY DEF IInv, ThreadOK
<1>3. /\ pc'[t] = "lookup" /\ requests'[t] = ks /\ handle'[t] = <<>> /\ res'[t] = "none"
      /\ success'[t] /\ local'[t] = NoEntry /\ prog'[t] = NoEntry
  BY <1>1, <1>2 DEF ThreadTypes, BatchOK, ProgOK
<1>4. <<>> \in Seq(Pointer) /\ Len(<<>>) = 0 /\ DOMAIN <<>> = {} /\ Elements(<<>>) = {}
  BY DEF Elements
<1>5. ks \in Seq(Key) /\ Len(ks) \in Nat \ {0}
  BY ApiAssumption, EmptySeq, LenProperties
<1>6. SharedTypes'
  BY <1>1, <1>2 DEF SharedTypes
<1>7. ThreadTypes' /\ Others(t)
  BY <1>1, <1>2, <1>4 DEF ThreadTypes, Others, Label, Results
<1>8. BatchOK(t)' /\ HandlesOK(t)'
  BY <1>3, <1>4, <1>5 DEF BatchOK, Filed, HandlesOK
<1>9. ProgOK(t)'
  BY <1>3 DEF ProgOK
<1>10. Held(order', handle', local') \subseteq Held(order, handle, local) \cup {NoEntry}
  BY <1>1, <1>3, <1>4, <1>7, HeldLess
<1> QED BY <1>1, <1>3, <1>6, <1>7, <1>8, <1>9, <1>10, QuietStep DEF ThreadOK

LEMMA CompileStep ==
    ASSUME IInv, NEW t \in Thread, Compile(t)
    PROVE  IInv' /\ (Deliver(t, got'[t]) => Reported(t))
<1>1. /\ pc[t] = "lookup" /\ Cache!Lookup(t, Request(t))
      /\ available' = available /\ broken' = broken /\ backend' = backend
      /\ code' = code /\ model' = model
  BY DEF Compile
<1>2. SharedTypes /\ ThreadTypes /\ BatchOK(t) /\ HandlesOK(t) /\ ProgOK(t)
  BY DEF IInv, ThreadOK
<1>3. /\ order' \in Seq(Entry) /\ Elements(order') \subseteq Elements(order)
      /\ got' \in [Thread -> Pointer]
      /\ got'[t] # NoEntry => got'[t] \in Elements(order) /\ EntryKey[got'[t]] = Request(t)
  BY <1>1, <1>2, LookupFacts
<1>4. SharedTypes'
  BY <1>1, <1>2, <1>3 DEF SharedTypes
<1>5. got'[t] \in Pointer
  BY <1>3
<1>6. CASE got'[t] # NoEntry /\ Deliver(t, got'[t])
  <2>1. /\ ThreadTypes' /\ Others(t) /\ ThreadOK(t)' /\ Reported(t)
        /\ pc'[t] # "reload" /\ local'[t] = NoEntry
        /\ Elements(handle'[t]) = Elements(handle[t]) \cup {got'[t]}
    BY <1>1, <1>3, <1>5, <1>6, DeliverFacts
  <2>2. Held(order', handle', local') \subseteq Held(order, handle, local) \cup {NoEntry}
    <3>1. /\ Elements(order') \subseteq Elements(order) \cup {NoEntry}
          /\ Elements(handle'[t]) \cup {local'[t]} \subseteq
               Elements(handle[t]) \cup {local[t]} \cup Elements(order) \cup {NoEntry}
      BY <1>3, <1>6, <2>1
    <3> QED BY <2>1, <3>1, HeldLess
  <2> QED BY <1>1, <1>4, <2>1, <2>2, QuietStep
<1>7. CASE /\ got'[t] = NoEntry
           /\ pc' = [pc EXCEPT ![t] = "compile"] /\ res' = [res EXCEPT ![t] = "none"]
           /\ UNCHANGED <<requests, success, req, local, prog, handle>>
  <2>1. /\ pc'[t] = "compile" /\ res'[t] = "none"
        /\ requests' = requests /\ success' = success /\ req' = req /\ local' = local
        /\ prog' = prog /\ handle' = handle
    BY <1>2, <1>7 DEF ThreadTypes
  <2>2. ThreadTypes' /\ Others(t)
    BY <1>2, <1>7, <2>1 DEF ThreadTypes, Others, Label, Results
  <2>3. BatchOK(t)' /\ HandlesOK(t)'
    BY <1>1, <1>2, <2>1 DEF BatchOK, HandlesOK
  <2>4. ProgOK(t)'
    BY <1>1, <1>2, <2>1 DEF ProgOK
  <2>5. Held(order', handle', local') \subseteq Held(order, handle, local) \cup {NoEntry}
    BY <1>3, <2>1, <2>2, HeldLess
  <2>6. IInv'
    BY <1>1, <1>4, <2>1, <2>2, <2>3, <2>4, <2>5, QuietStep DEF ThreadOK
  <2>7. ~Deliver(t, got'[t])
    <3>1. ASSUME Deliver(t, got'[t]) PROVE pc'[t] # "compile"
      BY <1>2, <3>1 DEF Deliver, Goto, Leave, ThreadTypes
    <3> QED BY <2>1, <3>1
  <2> QED BY <2>6, <2>7
<1> QED BY <1>6, <1>7 DEF Compile, Goto

\* A new entry is held by its maker and exists.
LEMMA NewEntryStep ==
    ASSUME IInv, NEW t \in Thread, NEW k, NEW c \in {"none", "raw", "transposed"},
           NewEntry(t, k, c), SharedTypes', ThreadTypes', ThreadOK(t)', Others(t),
           order' = order, handle' = handle, broken' = broken,
           pc[t] # "reload", pc'[t] # "reload",
           KeysApart => (k \in CompileKeys => c = "raw") /\ (k \in MatmulKeys => c # "raw")
    PROVE  IInv'
<1>1. PICK e \in Entry :
        /\ model[e] = "unborn" /\ EntryKey[e] = k
        /\ code' = [code EXCEPT ![e] = c]
        /\ model' = [model EXCEPT ![e] = IF c = "none" THEN "absent" ELSE "loaded"]
        /\ local' = [local EXCEPT ![t] = e]
  BY DEF NewEntry, Unborn
<1>2. SharedTypes /\ ThreadTypes /\ Live /\ CodesOK /\ ReloadsOK
  BY DEF IInv
<1>3. /\ \A f \in Entry \ {e} : code'[f] = code[f] /\ model'[f] = model[f]
      /\ code'[e] = c /\ model'[e] = IF c = "none" THEN "absent" ELSE "loaded"
      /\ local'[t] = e
  BY <1>1, <1>2 DEF SharedTypes, ThreadTypes
<1>4. Live'
  <2>1. Held(order', handle', local') \subseteq Held(order, handle, local) \cup {e}
    BY <1>3, HeldLess
  <2> SUFFICES ASSUME NEW f \in Held(order', handle', local') \ {NoEntry}
               PROVE  model'[f] \notin {"unborn", "freed"}
    BY DEF Live
  <2>2. CASE f = e
    BY <1>3, <2>2
  <2>3. CASE f # e
    <3>1. f \in Held(order, handle, local) \ {NoEntry}
      BY <2>1, <2>3
    <3>2. f \in Entry
      BY <1>2, <3>1, HeldFacts DEF Held, Pointer
    <3> QED BY <1>2, <1>3, <2>3, <3>1, <3>2 DEF Live
  <2> QED BY <2>2, <2>3
<1>5. CodesOK'
  <2> SUFFICES ASSUME NEW f \in Entry
               PROVE  /\ code'[f] = "none" <=> model'[f] \in {"unborn", "absent"}
                      /\ KeysApart /\ model'[f] # "unborn" =>
                           /\ EntryKey[f] \in CompileKeys => code'[f] = "raw"
                           /\ EntryKey[f] \in MatmulKeys => code'[f] # "raw"
    BY DEF CodesOK
  <2>1. CASE f = e
    BY <1>1, <1>3, <2>1
  <2>2. CASE f # e
    BY <1>2, <1>3, <2>2 DEF CodesOK
  <2> QED BY <2>1, <2>2
<1>6. ReloadsOK'
  <2>1. ASSUME NEW f \in Entry, model'[f] = "unloaded"
        PROVE  f \in broken' \/ \E u \in Thread : pc'[u] = "reload" /\ prog'[u] = f
    <3>1. f # e /\ model[f] = "unloaded"
      BY <1>3, <2>1
    <3> QED BY <1>2, <3>1 DEF ReloadsOK, Others
  <2>2. ASSUME NEW u \in Thread, pc'[u] = "reload" PROVE code'[prog'[u]] # "none"
    <3>1. pc[u] = "reload" /\ prog'[u] = prog[u]
      BY <2>2 DEF Others
    <3>2. prog[u] \in Entry /\ code[prog[u]] # "none"
      BY <1>2, <3>1, ReloadedFacts DEF ReloadsOK
    <3>3. prog[u] # e
      BY <1>1, <1>2, <3>2 DEF CodesOK
    <3> QED BY <1>3, <3>1, <3>2, <3>3
  <2> QED BY <2>1, <2>2 DEF ReloadsOK
<1> QED BY <1>4, <1>5, <1>6, OneThread

\* The types after NewEntry.
LEMMA NewEntryFacts ==
    ASSUME SharedTypes, ThreadTypes, NEW t \in Thread, NEW k,
           NEW c \in {"none", "raw", "transposed"}, NewEntry(t, k, c)
    PROVE  /\ code' \in [Entry -> {"none", "raw", "transposed"}]
           /\ model' \in [Entry -> {"unborn", "absent", "loaded", "unloaded", "freed"}]
           /\ \E e \in Entry : /\ EntryKey[e] = k
                               /\ prog' = [prog EXCEPT ![t] = e]
                               /\ local' = [local EXCEPT ![t] = e]
<1>1. PICK e \in Entry :
        /\ EntryKey[e] = k
        /\ code' = [code EXCEPT ![e] = c]
        /\ model' = [model EXCEPT ![e] = IF c = "none" THEN "absent" ELSE "loaded"]
        /\ prog' = [prog EXCEPT ![t] = e] /\ local' = [local EXCEPT ![t] = e]
  BY DEF NewEntry, Unborn
<1> QED BY <1>1 DEF SharedTypes

LEMMA CompileBuildStep ==
    ASSUME IInv, NEW t \in Thread, CompileBuild(t)
    PROVE  IInv' /\ (Deliver(t, NoEntry) => Reported(t))
<1>1. /\ pc[t] = "compile"
      /\ available' = available /\ broken' = broken /\ backend' = backend
      /\ order' = order /\ got' = got
  BY DEF CompileBuild
<1>2. SharedTypes /\ ThreadTypes /\ BatchOK(t) /\ HandlesOK(t) /\ ProgOK(t)
  BY DEF IInv, ThreadOK
<1>3. CASE Deliver(t, NoEntry) /\ code' = code /\ model' = model
  <2>1. /\ ThreadTypes' /\ Others(t) /\ ThreadOK(t)' /\ Reported(t)
        /\ pc'[t] # "reload" /\ local'[t] = NoEntry
        /\ Elements(handle'[t]) = Elements(handle[t]) \cup {NoEntry}
    BY <1>1, <1>3, DeliverFacts DEF Pointer
  <2>2. Held(order', handle', local') \subseteq Held(order, handle, local) \cup {NoEntry}
    BY <1>1, <2>1, HeldLess
  <2>3. SharedTypes'
    BY <1>1, <1>2, <1>3 DEF SharedTypes
  <2> QED BY <1>1, <1>3, <2>1, <2>2, <2>3, QuietStep
<1>4. CASE /\ NewEntry(t, Request(t), "raw")
           /\ pc' = [pc EXCEPT ![t] = "store"] /\ res' = [res EXCEPT ![t] = "none"]
           /\ requests' = requests /\ success' = success /\ req' = req /\ handle' = handle
  <2>1. PICK e \in Entry : /\ EntryKey[e] = Request(t) /\ prog' = [prog EXCEPT ![t] = e]
                           /\ local' = [local EXCEPT ![t] = e]
    BY <1>2, <1>4, NewEntryFacts
  <2>2. SharedTypes'
    BY <1>1, <1>2, <1>4, NewEntryFacts DEF SharedTypes
  <2>3. ThreadTypes' /\ Others(t)
    BY <1>2, <1>4, <2>1 DEF ThreadTypes, Others, Label, Results, Pointer
  <2>4. /\ pc'[t] = "store" /\ res'[t] = "none" /\ prog'[t] = e /\ local'[t] = e /\ e # NoEntry
    BY <1>2, <1>4, <2>1, CacheAssumption DEF ThreadTypes
  <2>5. BatchOK(t)' /\ HandlesOK(t)'
    BY <1>1, <1>2, <1>4, <2>4 DEF BatchOK, HandlesOK
  <2>6. ProgOK(t)'
    BY <1>4, <2>1, <2>4 DEF ProgOK, Request
  <2>7. Request(t) \in CompileKeys
    <3>1. /\ requests[t] \in Requests /\ Len(handle[t]) < Len(requests[t])
          /\ requests[t] \in Seq(Key) /\ handle[t] \in Seq(Pointer)
      BY <1>1, <1>2, ApiAssumption DEF BatchOK, ThreadTypes
    <3>2. Len(handle[t]) + 1 \in DOMAIN requests[t]
      BY <3>1, LenProperties
    <3> QED BY <3>1, <3>2 DEF Request, CompileKeys, Elements
  <2>8. IInv'
    BY <1>1, <1>4, <2>2, <2>3, <2>4, <2>5, <2>6, <2>7, NewEntryStep DEF ThreadOK, KeysApart
  <2>9. ~Deliver(t, NoEntry)
    <3>1. ASSUME Deliver(t, NoEntry) PROVE pc'[t] # "store"
      BY <1>2, <3>1 DEF Deliver, Goto, Leave, ThreadTypes
    <3> QED BY <2>4, <3>1
  <2> QED BY <2>8, <2>9
<1> QED BY <1>3, <1>4 DEF CompileBuild, Goto

LEMMA CompileStoreStep ==
    ASSUME IInv, NEW t \in Thread, CompileStore(t)
    PROVE  IInv' /\ Reported(t)
<1>1. /\ pc[t] = "store" /\ Cache!Store(t, prog[t]) /\ Deliver(t, prog[t]) /\ Reap(model)
      /\ available' = available /\ broken' = broken /\ backend' = backend /\ code' = code
  BY DEF CompileStore
<1>2. SharedTypes /\ ThreadTypes /\ ProgOK(t)
  BY DEF IInv, ThreadOK
<1>3. prog[t] = local[t] /\ prog[t] \in Entry /\ EntryKey[prog[t]] = Request(t)
  BY <1>1, <1>2, HeldFacts DEF ProgOK, Pointer
<1>4. /\ order' \in Seq(Entry) /\ Elements(order') \subseteq Elements(order) \cup {prog[t]}
      /\ got' \in [Thread -> Pointer]
  BY <1>1, <1>2, <1>3, StoreFacts
<1>5. /\ ThreadTypes' /\ Others(t) /\ ThreadOK(t)' /\ Reported(t)
      /\ pc'[t] # "reload" /\ local'[t] = NoEntry
      /\ Elements(handle'[t]) = Elements(handle[t]) \cup {prog[t]}
  BY <1>1, <1>3, DeliverFacts DEF Pointer
<1>6. SharedTypes'
  BY <1>1, <1>2, <1>4, ReapFacts DEF SharedTypes
<1>7. Held(order', handle', local') \subseteq Held(order, handle, local) \cup {NoEntry}
  <2>1. Held(order', handle', local') \subseteq Held(order, handle, local) \cup {NoEntry, prog[t]}
    BY <1>4, <1>5, HeldLess
  <2>2. prog[t] \in Held(order, handle, local)
    BY <1>2, <1>3, HeldFacts
  <2> QED BY <2>1, <2>2
<1> QED BY <1>1, <1>2, <1>5, <1>6, <1>7, ReapFacts, QuietStep

-----------------------------------------------------------------------------
(***************************************************************************)
(* libane_execute, libane_delta_reload, libane_release                     *)
(***************************************************************************)

\* A call that returns and touches neither the cache nor a handle.
LEMMA ReturnStep ==
    ASSUME IInv, NEW t \in Thread, NEW r \in Results, Leave(t, r),
           pc[t] \notin {"lookup", "compile", "store", "reload"}, KeysApart => r # "wrong",
           handle' = handle, success' = success, available' = available, broken' = broken,
           backend' = backend, code' = code, SharedTypes',
           Elements(order') \subseteq Elements(order),
           \A e \in Entry :
               \/ model'[e] = model[e]
               \/ /\ model[e] \in {"loaded", "unloaded"} /\ model'[e] = "freed"
                  /\ e \notin Held(order', handle', local')
    PROVE  IInv'
<1>1. /\ ThreadTypes' /\ Others(t) /\ ThreadOK(t)'
      /\ pc'[t] = "idle" /\ prog'[t] = NoEntry /\ local'[t] = NoEntry
  BY LeaveFacts
<1>2. Held(order', handle', local') \subseteq Held(order, handle, local) \cup {NoEntry}
  BY <1>1, HeldLess
<1> QED BY <1>1, <1>2, QuietStep

\* The call takes the handle h as its raw pointer.
LEMMA UseHandleFacts ==
    ASSUME IInv, NEW t \in Thread, pc[t] = "idle", NEW h \in Elements(handle[t]), h # NoEntry,
           NEW l \in {"execute", "reload"}, prog' = [prog EXCEPT ![t] = h], Goto(t, l),
           requests' = requests, req' = req, local' = local, success' = success,
           handle' = handle
    PROVE  /\ ThreadTypes' /\ Others(t) /\ ThreadOK(t)' /\ h \in Entry
           /\ pc'[t] = l /\ prog'[t] = h
<1>1. SharedTypes /\ ThreadTypes /\ BatchOK(t) /\ HandlesOK(t) /\ ProgOK(t)
  BY DEF IInv, ThreadOK
<1>2. pc' = [pc EXCEPT ![t] = l] /\ res' = [res EXCEPT ![t] = "none"] /\ h \in Entry
  BY <1>1, HeldFacts DEF Goto, Pointer
<1>3. pc'[t] = l /\ prog'[t] = h /\ res'[t] = "none"
  BY <1>1, <1>2 DEF ThreadTypes
<1>4. ThreadTypes'
  BY <1>1, <1>2 DEF ThreadTypes, Label, Results, Pointer
<1>5. Others(t)
  BY <1>1, <1>2 DEF ThreadTypes, Others
<1>6. BatchOK(t)' /\ HandlesOK(t)'
  BY <1>1, <1>3 DEF BatchOK, HandlesOK
<1>7. ProgOK(t)'
  BY <1>1, <1>3 DEF ProgOK
<1> QED BY <1>2, <1>3, <1>4, <1>5, <1>6, <1>7 DEF ThreadOK

LEMMA ExecuteBeginStep ==
    ASSUME IInv, NEW t \in Thread, ExecuteBegin(t)
    PROVE  IInv'
<1>1. /\ pc[t] = "idle"
      /\ available' = available /\ broken' = broken /\ backend' = backend /\ order' = order
      /\ got' = got /\ code' = code /\ model' = model /\ success' = success /\ handle' = handle
  BY DEF ExecuteBegin
<1>2. SharedTypes' /\ SharedTypes
  BY <1>1 DEF IInv, SharedTypes
<1>3. CASE \E r \in {"invalid argument", "unavailable"} : Leave(t, r)
  BY <1>1, <1>2, <1>3, ReturnStep DEF Results
<1>4. ASSUME NEW h \in Elements(handle[t]), h # NoEntry, prog' = [prog EXCEPT ![t] = h],
             Goto(t, "execute"), UNCHANGED <<requests, req, local>>
      PROVE  IInv'
  <2>1. /\ ThreadTypes' /\ Others(t) /\ ThreadOK(t)' /\ pc'[t] = "execute"
    BY <1>1, <1>4, UseHandleFacts
  <2>2. Held(order', handle', local') = Held(order, handle, local)
    BY <1>1, <1>4
  <2> QED BY <1>1, <1>2, <2>1, <2>2, QuietStep
<1> QED BY <1>3, <1>4 DEF ExecuteBegin

LEMMA ExecuteEndStep ==
    ASSUME IInv, NEW t \in Thread, ExecuteEnd(t)
    PROVE  IInv'
<1>1. /\ pc[t] = "execute"
      /\ available' = available /\ broken' = broken /\ backend' = backend /\ order' = order
      /\ got' = got /\ code' = code /\ model' = model /\ success' = success /\ handle' = handle
  BY DEF ExecuteEnd
<1>2. SharedTypes'
  BY <1>1 DEF IInv, SharedTypes
<1>3. prog[t] \in Entry /\ prog[t] \in Elements(handle[t]) \ {NoEntry}
  BY <1>1, ReloadedFacts, CacheAssumption
<1>4. KeysApart => code[prog[t]] = "raw"
  <2>1. EntryKey[prog[t]] \in CompileKeys
    BY <1>3 DEF IInv, ThreadOK, HandlesOK
  <2>2. model[prog[t]] # "unborn"
    BY <1>3, HeldFacts DEF IInv, Live
  <2> QED BY <1>3, <2>1, <2>2 DEF IInv, CodesOK
<1>5. PICK r \in Results : Leave(t, r) /\ (KeysApart => r # "wrong")
  BY <1>4 DEF ExecuteEnd, Results
<1> QED BY <1>1, <1>2, <1>5, ReturnStep

LEMMA ReloadBeginStep ==
    ASSUME IInv, NEW t \in Thread, ReloadBegin(t)
    PROVE  IInv'
<1>1. /\ pc[t] = "idle"
      /\ available' = available /\ broken' = broken /\ backend' = backend /\ order' = order
      /\ got' = got /\ code' = code /\ success' = success /\ handle' = handle
  BY DEF ReloadBegin
<1>2. SharedTypes /\ Live /\ CodesOK /\ ReloadsOK
  BY DEF IInv
<1>3. CASE (\E r \in {"invalid argument", "unavailable"} : Leave(t, r)) /\ model' = model
  <2>1. SharedTypes'
    BY <1>1, <1>2, <1>3 DEF SharedTypes
  <2> QED BY <1>1, <1>3, <2>1, ReturnStep DEF Results
<1>4. ASSUME NEW h \in Elements(handle[t]), h # NoEntry, code[h] # "none",
             prog' = [prog EXCEPT ![t] = h], model' = [model EXCEPT ![h] = "unloaded"],
             Goto(t, "reload"), UNCHANGED <<requests, req, local>>
      PROVE  IInv'
  <2>1. /\ ThreadTypes' /\ Others(t) /\ ThreadOK(t)' /\ h \in Entry
        /\ pc'[t] = "reload" /\ prog'[t] = h
    BY <1>1, <1>4, UseHandleFacts
  <2>2. SharedTypes'
    BY <1>1, <1>2, <1>4 DEF SharedTypes
  <2>3. model'[h] = "unloaded" /\ \A f \in Entry \ {h} : model'[f] = model[f]
    BY <1>2, <1>4, <2>1 DEF SharedTypes
  <2>4. Live'
    <3>1. Held(order', handle', local') = Held(order, handle, local)
      BY <1>1, <1>4
    <3>2. ASSUME NEW f \in Held(order, handle, local) \ {NoEntry}
          PROVE  f \in Entry
      BY <3>2, HeldFacts DEF IInv, Held, Pointer
    <3> QED BY <1>2, <2>3, <3>1, <3>2 DEF Live
  <2>5. CodesOK'
    BY <1>1, <1>2, <1>4, <2>1, <2>3 DEF CodesOK
  <2>6. ReloadsOK'
    <3>1. ASSUME NEW f \in Entry, model'[f] = "unloaded"
          PROVE  f \in broken' \/ \E u \in Thread : pc'[u] = "reload" /\ prog'[u] = f
      <4>1. CASE f = h
        BY <2>1, <4>1
      <4>2. CASE f # h
        <5>1. model[f] = "unloaded"
          BY <2>3, <3>1, <4>2
        <5> QED BY <1>1, <1>2, <2>1, <5>1 DEF ReloadsOK, Others
      <4> QED BY <4>1, <4>2
    <3>2. ASSUME NEW u \in Thread, pc'[u] = "reload" PROVE code'[prog'[u]] # "none"
      BY <1>1, <1>2, <1>4, <2>1, <3>2 DEF ReloadsOK, Others
    <3> QED BY <3>1, <3>2 DEF ReloadsOK
  <2> QED BY <2>1, <2>2, <2>4, <2>5, <2>6, OneThread
<1> QED BY <1>3, <1>4 DEF ReloadBegin

LEMMA ReloadEndStep ==
    ASSUME IInv, NEW t \in Thread, ReloadEnd(t)
    PROVE  IInv'
<1>1. /\ pc[t] = "reload"
      /\ available' = available /\ backend' = backend /\ order' = order
      /\ got' = got /\ code' = code /\ success' = success /\ handle' = handle
  BY DEF ReloadEnd
<1>2. SharedTypes /\ ThreadTypes /\ Live /\ CodesOK /\ ReloadsOK
  BY DEF IInv
<1>3. PICK r \in {"failed", "ok"} : Leave(t, r)
  BY DEF ReloadEnd
<1>4. /\ ThreadTypes' /\ Others(t) /\ ThreadOK(t)'
      /\ pc'[t] = "idle" /\ prog'[t] = NoEntry /\ local'[t] = NoEntry
  BY <1>1, <1>3, LeaveFacts DEF Results
<1>5. prog[t] \in Entry /\ code[prog[t]] # "none" /\ prog[t] \in Held(order, handle, local)
  BY <1>1, <1>2, ReloadedFacts, HeldFacts DEF ReloadsOK
<1>6. \/ broken' = broken \cup {prog[t]} /\ model' = model
      \/ broken' = broken \ {prog[t]} /\ model' = [model EXCEPT ![prog[t]] = "loaded"]
  BY DEF ReloadEnd
<1>7. /\ \A f \in Entry \ {prog[t]} : model'[f] = model[f] /\ (f \in broken' <=> f \in broken)
      /\ model'[prog[t]] = "loaded" \/ (model'[prog[t]] = model[prog[t]] /\ prog[t] \in broken')
  BY <1>2, <1>5, <1>6 DEF SharedTypes
<1>8. SharedTypes'
  BY <1>1, <1>2, <1>5, <1>6 DEF SharedTypes
<1>9. Live'
  <2>1. Held(order', handle', local') \subseteq Held(order, handle, local) \cup {NoEntry}
    BY <1>1, <1>4, HeldLess
  <2> SUFFICES ASSUME NEW f \in Held(order', handle', local') \ {NoEntry}
               PROVE  model'[f] \notin {"unborn", "freed"}
    BY DEF Live
  <2>2. f \in Held(order, handle, local) \ {NoEntry}
    BY <2>1
  <2>3. f \in Entry
    BY <1>2, <2>2, HeldFacts DEF Held, Pointer
  <2> QED BY <1>2, <1>7, <2>2, <2>3 DEF Live
<1>10. CodesOK'
  <2> SUFFICES ASSUME NEW f \in Entry
               PROVE  /\ code[f] = "none" <=> model'[f] \in {"unborn", "absent"}
                      /\ KeysApart /\ model'[f] # "unborn" =>
                           /\ EntryKey[f] \in CompileKeys => code[f] = "raw"
                           /\ EntryKey[f] \in MatmulKeys => code[f] # "raw"
    BY <1>1 DEF CodesOK
  <2>1. CASE f = prog[t]
    BY <1>2, <1>5, <1>7, <2>1 DEF CodesOK
  <2>2. CASE f # prog[t]
    BY <1>2, <1>7, <2>2 DEF CodesOK
  <2> QED BY <2>1, <2>2
<1>11. ReloadsOK'
  <2>1. ASSUME NEW f \in Entry, model'[f] = "unloaded"
        PROVE  f \in broken' \/ \E u \in Thread : pc'[u] = "reload" /\ prog'[u] = f
    <3>1. CASE f = prog[t]
      BY <1>7, <2>1, <3>1
    <3>2. CASE f # prog[t]
      <4>1. model[f] = "unloaded" /\ (f \in broken' <=> f \in broken)
        BY <1>7, <2>1, <3>2
      <4> QED BY <1>2, <1>4, <3>2, <4>1 DEF ReloadsOK, Others
    <3> QED BY <3>1, <3>2
  <2>2. ASSUME NEW u \in Thread, pc'[u] = "reload" PROVE code'[prog'[u]] # "none"
    BY <1>1, <1>2, <1>4, <2>2 DEF ReloadsOK, Others
  <2> QED BY <2>1, <2>2 DEF ReloadsOK
<1> QED BY <1>4, <1>8, <1>9, <1>10, <1>11, OneThread

LEMMA ReleaseStep ==
    ASSUME IInv, NEW t \in Thread, Release(t)
    PROVE  IInv'
<1>1. /\ pc[t] = "idle" /\ res' = [res EXCEPT ![t] = "none"]
      /\ available' = available /\ broken' = broken /\ backend' = backend /\ order' = order
      /\ got' = got /\ code' = code /\ pc' = pc /\ requests' = requests /\ success' = success
      /\ req' = req /\ local' = local /\ prog' = prog
      /\ Reap(model)
  BY DEF Release
<1>2. SharedTypes /\ ThreadTypes /\ BatchOK(t) /\ HandlesOK(t) /\ ProgOK(t)
  BY DEF IInv, ThreadOK
<1>3. PICK i \in DOMAIN handle[t] :
        handle' = [handle EXCEPT ![t] = [handle[t] EXCEPT ![i] = NoEntry]]
  BY DEF Release
<1> DEFINE h == [handle[t] EXCEPT ![i] = NoEntry]
<1>4. /\ h \in Seq(Pointer) /\ Elements(h) \subseteq Elements(handle[t]) \cup {NoEntry}
  <2>1. handle[t] \in Seq(Pointer) /\ NoEntry \in Pointer
    BY <1>2 DEF ThreadTypes, Pointer
  <2>2. DOMAIN handle[t] = 1 .. Len(handle[t]) /\ Len(handle[t]) \in Nat
    BY <2>1, LenProperties
  <2>3. \A j \in 1 .. Len(handle[t]) : h[j] \in Pointer /\ (h[j] = NoEntry \/ h[j] = handle[t][j])
    BY <2>1, <2>2, ElementOfSeq
  <2>4. DOMAIN h = 1 .. Len(handle[t]) /\ h = [j \in 1 .. Len(handle[t]) |-> h[j]]
    BY <2>2
  <2>5. h \in Seq(Pointer)
    <3> HIDE DEF h
    <3> QED BY <2>2, <2>3, <2>4, IsASeq
  <2>6. Elements(h) \subseteq Elements(handle[t]) \cup {NoEntry}
    <3> HIDE DEF h
    <3> QED BY <2>2, <2>3, <2>4 DEF Elements
  <2> QED BY <2>5, <2>6
<1>5. handle' = [handle EXCEPT ![t] = h]
  BY <1>3
<1> HIDE DEF h
<1>6. handle'[t] = h /\ handle' \in [Thread -> Seq(Pointer)] /\ res'[t] = "none"
  BY <1>1, <1>2, <1>4, <1>5 DEF ThreadTypes
<1>7. ThreadTypes' /\ Others(t)
  BY <1>1, <1>2, <1>5, <1>6 DEF ThreadTypes, Others, Results
<1>8. BatchOK(t)' /\ HandlesOK(t)' /\ ProgOK(t)'
  <2>1. BatchOK(t)' /\ HandlesOK(t)'
    BY <1>1, <1>2, <1>4, <1>6 DEF BatchOK, HandlesOK
  <2>2. ProgOK(t)'
    BY <1>1, <1>2, <1>6 DEF ProgOK
  <2> QED BY <2>1, <2>2
<1>9. SharedTypes'
  BY <1>1, <1>2, ReapFacts DEF SharedTypes
<1>10. Held(order', handle', local') \subseteq Held(order, handle, local) \cup {NoEntry}
  BY <1>1, <1>4, <1>6, <1>7, HeldLess
<1> QED BY <1>1, <1>2, <1>7, <1>8, <1>9, <1>10, ReapFacts, QuietStep DEF ThreadOK

-----------------------------------------------------------------------------
(***************************************************************************)
(* libane_matmul_f16, libane_matmul_f32                                    *)
(***************************************************************************)

\* A product goes on at l, holding nothing, with its key in req.
LEMMA MatmulGoes ==
    ASSUME IInv, NEW t \in Thread, pc[t] \in {"idle", "matmul f32"}, NEW k \in MatmulKeys,
           NEW l \in {"matmul f32", "matmul compile"}, Goto(t, l),
           req' = [req EXCEPT ![t] = k],
           requests' = requests, local' = local, prog' = prog, success' = success,
           handle' = handle, SharedTypes', Elements(order') \subseteq Elements(order),
           code' = code, broken' = broken, model' = model
    PROVE  IInv'
<1>1. SharedTypes /\ ThreadTypes /\ BatchOK(t) /\ HandlesOK(t) /\ ProgOK(t)
  BY DEF IInv, ThreadOK
<1>2. pc' = [pc EXCEPT ![t] = l] /\ res' = [res EXCEPT ![t] = "none"] /\ k \in Key
  BY ApiAssumption DEF Goto
<1>3. pc'[t] = l /\ res'[t] = "none" /\ req'[t] = k
  BY <1>1, <1>2 DEF ThreadTypes
<1>4. ThreadTypes'
  BY <1>1, <1>2 DEF ThreadTypes, Label, Results
<1>5. Others(t)
  BY <1>1, <1>2 DEF ThreadTypes, Others
<1>6. BatchOK(t)' /\ HandlesOK(t)'
  BY <1>1, <1>3 DEF BatchOK, HandlesOK
<1>7. ProgOK(t)'
  BY <1>1, <1>3 DEF ProgOK
<1>8. Held(order', handle', local') \subseteq Held(order, handle, local) \cup {NoEntry}
  BY <1>5, HeldLess
<1> QED BY <1>3, <1>4, <1>5, <1>6, <1>7, <1>8, QuietStep DEF ThreadOK

LEMMA MatmulF32Step ==
    ASSUME IInv, NEW t \in Thread, NEW k \in MatmulKeys, MatmulF32(t, k)
    PROVE  IInv'
<1>1. /\ pc[t] = "idle"
      /\ available' = available /\ broken' = broken /\ backend' = backend /\ order' = order
      /\ got' = got /\ code' = code /\ model' = model /\ success' = success /\ handle' = handle
  BY DEF MatmulF32
<1>2. SharedTypes'
  BY <1>1 DEF IInv, SharedTypes
<1>3. CASE Leave(t, "ok")
  BY <1>1, <1>2, <1>3, ReturnStep DEF Results
<1>4. CASE /\ req' = [req EXCEPT ![t] = k] /\ Goto(t, "matmul f32")
           /\ UNCHANGED <<requests, local, prog>>
  BY <1>1, <1>2, <1>4, MatmulGoes
<1> QED BY <1>3, <1>4 DEF MatmulF32

\* A product executes the entry e.
LEMMA MatmulRuns ==
    ASSUME IInv, NEW t \in Thread, pc[t] \in {"idle", "matmul f32", "matmul store"},
           NEW e \in Entry, EntryKey[e] \in MatmulKeys,
           e \in Held(order, handle, local), pc' = [pc EXCEPT ![t] = "matmul"],
           res' = [res EXCEPT ![t] = "none"], req' = [req EXCEPT ![t] = NoKey],
           local' = [local EXCEPT ![t] = e], prog' = [prog EXCEPT ![t] = e],
           requests' = requests, success' = success, handle' = handle, SharedTypes',
           Elements(order') \subseteq Elements(order) \cup {e},
           code' = code, broken' = broken,
           \A f \in Entry :
               \/ model'[f] = model[f]
               \/ /\ model[f] \in {"loaded", "unloaded"} /\ model'[f] = "freed"
                  /\ f \notin Held(order', handle', local')
    PROVE  IInv'
<1>1. SharedTypes /\ ThreadTypes /\ BatchOK(t) /\ HandlesOK(t) /\ ProgOK(t)
  BY DEF IInv, ThreadOK
<1>2. /\ pc'[t] = "matmul" /\ res'[t] = "none" /\ local'[t] = e /\ prog'[t] = e
      /\ e # NoEntry
  BY <1>1, CacheAssumption DEF ThreadTypes
<1>3. ThreadTypes'
  BY <1>1 DEF ThreadTypes, Label, Results, Pointer
<1>4. Others(t)
  BY <1>1 DEF ThreadTypes, Others
<1>5. BatchOK(t)' /\ HandlesOK(t)'
  BY <1>1, <1>2 DEF BatchOK, HandlesOK
<1>6. ProgOK(t)'
  BY <1>2 DEF ProgOK
<1>7. Held(order', handle', local') \subseteq Held(order, handle, local) \cup {NoEntry}
  <2>1. Held(order', handle', local') \subseteq Held(order, handle, local) \cup {e}
    <3>1. Elements(handle'[t]) \cup {local'[t]} \subseteq
               Elements(handle[t]) \cup {local[t]} \cup Elements(order) \cup {e}
      BY <1>2
    <3> QED BY <1>4, <3>1, HeldLess
  <2> QED BY <2>1
<1> QED BY <1>2, <1>3, <1>4, <1>5, <1>6, <1>7, QuietStep DEF ThreadOK

LEMMA MatmulStep ==
    ASSUME IInv, NEW t \in Thread, NEW k \in MatmulKeys, Matmul(t, k)
    PROVE  IInv'
<1>1. /\ pc[t] \in {"idle", "matmul f32"}
      /\ available' = available /\ broken' = broken /\ backend' = backend
      /\ code' = code /\ model' = model /\ success' = success /\ handle' = handle
  BY DEF Matmul
<1>2. SharedTypes /\ ThreadTypes /\ ProgOK(t)
  BY DEF IInv, ThreadOK
<1>3. CASE Leave(t, "ok") /\ order' = order /\ got' = got
  <2>1. SharedTypes'
    BY <1>1, <1>2, <1>3 DEF SharedTypes
  <2> QED BY <1>1, <1>3, <2>1, ReturnStep DEF Results
<1>4. CASE Cache!Lookup(t, k)
  <2>1. /\ order' \in Seq(Entry) /\ Elements(order') \subseteq Elements(order)
        /\ got' \in [Thread -> Pointer]
        /\ got'[t] # NoEntry => got'[t] \in Elements(order) /\ EntryKey[got'[t]] = k
    BY <1>2, <1>4, LookupFacts
  <2>2. SharedTypes'
    BY <1>1, <1>2, <2>1 DEF SharedTypes
  <2>3. CASE /\ got'[t] # NoEntry
             /\ local' = [local EXCEPT ![t] = got'[t]] /\ prog' = [prog EXCEPT ![t] = got'[t]]
             /\ Goto(t, "matmul") /\ req' = [req EXCEPT ![t] = NoKey] /\ requests' = requests
    <3> DEFINE e == got'[t]
    <3>1. /\ e \in Entry /\ EntryKey[e] \in MatmulKeys /\ e \in Held(order, handle, local)
      BY <1>2, <2>1, <2>3, HeldFacts
    <3>2. /\ local' = [local EXCEPT ![t] = e] /\ prog' = [prog EXCEPT ![t] = e]
          /\ pc' = [pc EXCEPT ![t] = "matmul"] /\ res' = [res EXCEPT ![t] = "none"]
      BY <2>3 DEF Goto
    <3> HIDE DEF e
    <3> QED BY <1>1, <2>1, <2>2, <2>3, <3>1, <3>2, MatmulRuns
  <2>4. CASE Leave(t, "ok")
    BY <1>1, <2>1, <2>2, <2>4, ReturnStep DEF Results
  <2>5. CASE /\ Goto(t, "matmul compile") /\ req' = [req EXCEPT ![t] = k]
             /\ UNCHANGED <<requests, local, prog>>
    BY <1>1, <2>1, <2>2, <2>5, MatmulGoes
  <2> QED BY <1>3, <2>3, <2>4, <2>5 DEF Matmul
<1> QED BY <1>3, <1>4 DEF Matmul

LEMMA MatmulBuildStep ==
    ASSUME IInv, NEW t \in Thread, MatmulBuild(t)
    PROVE  IInv'
<1>1. /\ pc[t] = "matmul compile"
      /\ available' = available /\ broken' = broken /\ backend' = backend /\ order' = order
      /\ got' = got /\ success' = success /\ handle' = handle
  BY DEF MatmulBuild
<1>2. SharedTypes /\ ThreadTypes /\ BatchOK(t) /\ HandlesOK(t) /\ ProgOK(t)
  BY DEF IInv, ThreadOK
<1>3. CASE Leave(t, "ok") /\ code' = code /\ model' = model
  <2>1. SharedTypes'
    BY <1>1, <1>2, <1>3 DEF SharedTypes
  <2> QED BY <1>1, <1>3, <2>1, ReturnStep DEF Results
<1>4. ASSUME NEW c \in {"transposed", "none"}, NewEntry(t, req[t], c), Goto(t, "matmul store"),
             UNCHANGED <<requests, req>>
      PROVE  IInv'
  <2>1. PICK e \in Entry : /\ EntryKey[e] = req[t] /\ prog' = [prog EXCEPT ![t] = e]
                           /\ local' = [local EXCEPT ![t] = e]
    BY <1>4 DEF NewEntry, Unborn
  <2>2. SharedTypes'
    BY <1>1, <1>2, <1>4, NewEntryFacts DEF SharedTypes
  <2>3. /\ pc' = [pc EXCEPT ![t] = "matmul store"] /\ res' = [res EXCEPT ![t] = "none"]
        /\ requests' = requests /\ req' = req
    BY <1>4 DEF Goto
  <2>4. ThreadTypes' /\ Others(t)
    BY <1>1, <1>2, <2>1, <2>3 DEF ThreadTypes, Others, Label, Results, Pointer
  <2>5. /\ pc'[t] = "matmul store" /\ res'[t] = "none" /\ prog'[t] = e /\ local'[t] = e
        /\ e # NoEntry /\ req[t] \in MatmulKeys
    BY <1>1, <1>2, <2>1, <2>3, CacheAssumption DEF ThreadTypes, ProgOK
  <2>6. BatchOK(t)' /\ HandlesOK(t)'
    BY <1>1, <1>2, <2>3, <2>5 DEF BatchOK, HandlesOK
  <2>7. ProgOK(t)'
    BY <2>1, <2>5 DEF ProgOK
  <2>8. KeysApart => (req[t] \in CompileKeys => c = "raw") /\ (req[t] \in MatmulKeys => c # "raw")
    BY <2>5 DEF KeysApart
  <2> QED BY <1>1, <1>4, <2>2, <2>4, <2>5, <2>6, <2>7, <2>8, NewEntryStep DEF ThreadOK
<1> QED BY <1>3, <1>4 DEF MatmulBuild

LEMMA MatmulStoreStep ==
    ASSUME IInv, NEW t \in Thread, MatmulStore(t)
    PROVE  IInv'
<1>1. /\ pc[t] = "matmul store" /\ Cache!Store(t, prog[t]) /\ Reap(model)
      /\ available' = available /\ broken' = broken /\ backend' = backend /\ code' = code
      /\ success' = success /\ handle' = handle
  BY DEF MatmulStore
<1>2. SharedTypes /\ ThreadTypes /\ ProgOK(t)
  BY DEF IInv, ThreadOK
<1>3. /\ prog[t] = local[t] /\ prog[t] \in Entry /\ EntryKey[prog[t]] \in MatmulKeys
      /\ prog[t] \in Held(order, handle, local)
  BY <1>1, <1>2, HeldFacts DEF ProgOK, Pointer
<1>4. /\ order' \in Seq(Entry) /\ Elements(order') \subseteq Elements(order) \cup {prog[t]}
      /\ got' \in [Thread -> Pointer]
  BY <1>1, <1>2, <1>3, StoreFacts
<1>5. SharedTypes'
  BY <1>1, <1>2, <1>4, ReapFacts DEF SharedTypes
<1>6. CASE Leave(t, "ok")
  <2>1. /\ ThreadTypes' /\ Others(t) /\ ThreadOK(t)'
        /\ pc'[t] = "idle" /\ prog'[t] = NoEntry /\ local'[t] = NoEntry
    BY <1>1, <1>6, LeaveFacts DEF Results
  <2>2. Held(order', handle', local') \subseteq Held(order, handle, local) \cup {NoEntry, prog[t]}
    BY <1>1, <1>4, <2>1, HeldLess
  <2>3. Held(order', handle', local') \subseteq Held(order, handle, local) \cup {NoEntry}
    BY <1>3, <2>2
  <2> QED BY <1>1, <1>2, <1>5, <2>1, <2>3, ReapFacts, QuietStep
<1>7. CASE /\ Goto(t, "matmul") /\ req' = [req EXCEPT ![t] = NoKey]
           /\ UNCHANGED <<requests, prog, local>>
  <2>1. /\ local' = [local EXCEPT ![t] = prog[t]] /\ prog' = [prog EXCEPT ![t] = prog[t]]
        /\ pc' = [pc EXCEPT ![t] = "matmul"] /\ res' = [res EXCEPT ![t] = "none"]
    BY <1>2, <1>3, <1>7 DEF Goto, ThreadTypes
  <2> QED BY <1>1, <1>2, <1>3, <1>4, <1>5, <1>7, <2>1, ReapFacts, MatmulRuns
<1> QED BY <1>6, <1>7 DEF MatmulStore

LEMMA MatmulExecuteStep ==
    ASSUME IInv, NEW t \in Thread, MatmulExecute(t)
    PROVE  IInv'
<1>1. /\ pc[t] = "matmul" /\ Reap(model)
      /\ available' = available /\ broken' = broken /\ backend' = backend /\ order' = order
      /\ got' = got /\ code' = code /\ success' = success /\ handle' = handle
  BY DEF MatmulExecute
<1>2. SharedTypes /\ ThreadTypes /\ ProgOK(t) /\ CodesOK
  BY DEF IInv, ThreadOK
<1>3. SharedTypes'
  BY <1>1, <1>2, ReapFacts DEF SharedTypes
<1>4. prog[t] \in Entry /\ EntryKey[prog[t]] \in MatmulKeys
  BY <1>1, <1>2, HeldFacts DEF ProgOK, Pointer
<1>5. KeysApart /\ model[prog[t]] = "loaded" => code[prog[t]] = "transposed"
  BY <1>2, <1>4 DEF CodesOK, SharedTypes
<1>6. PICK r \in Results : Leave(t, r) /\ (KeysApart => r # "wrong")
  BY <1>5 DEF MatmulExecute, Results
<1> QED BY <1>1, <1>2, <1>3, <1>6, ReapFacts, ReturnStep

-----------------------------------------------------------------------------
(***************************************************************************)
(* libane_set_backend, libane_cache_flush                                  *)
(***************************************************************************)
LEMMA SetBackendStep ==
    ASSUME IInv, NEW b \in {"auto", "ane", "cpu"}, SetBackend(b)
    PROVE  IInv'
<1>1. /\ backend' = b
      /\ available' = available /\ broken' = broken /\ order' = order /\ got' = got
      /\ code' = code /\ model' = model /\ pc' = pc /\ requests' = requests
      /\ success' = success /\ req' = req /\ local' = local /\ prog' = prog
      /\ handle' = handle /\ res' = res
  BY DEF SetBackend
<1>2. SharedTypes' /\ ThreadTypes'
  BY <1>1 DEF IInv, SharedTypes, ThreadTypes
<1>3. \A t \in Thread : ThreadOK(t)'
  BY <1>1 DEF IInv, ThreadOK, BatchOK, Filed, HandlesOK, ProgOK, Request
<1>4. Live' /\ CodesOK' /\ ReloadsOK'
  BY <1>1 DEF IInv, Live, CodesOK, ReloadsOK
<1> QED BY <1>2, <1>3, <1>4 DEF IInv

LEMMA CacheFlushStep ==
    ASSUME IInv, CacheFlush
    PROVE  IInv'
<1>1. /\ order' = <<>> /\ got' = got /\ Reap(model)
      /\ available' = available /\ broken' = broken /\ backend' = backend
      /\ code' = code /\ pc' = pc /\ requests' = requests
      /\ success' = success /\ req' = req /\ local' = local /\ prog' = prog
      /\ handle' = handle /\ res' = res
  BY DEF CacheFlush, Cache!Clear
<1>2. SharedTypes /\ ThreadTypes /\ Live /\ CodesOK /\ ReloadsOK
  BY DEF IInv
<1>3. SharedTypes' /\ ThreadTypes'
  BY <1>1, <1>2, ReapFacts DEF SharedTypes, ThreadTypes
<1>4. \A t \in Thread : ThreadOK(t)'
  BY <1>1 DEF IInv, ThreadOK, BatchOK, Filed, HandlesOK, ProgOK, Request
<1>5. Live'
  <2> SUFFICES ASSUME NEW e \in Held(order', handle', local') \ {NoEntry}
               PROVE  model'[e] \notin {"unborn", "freed"}
    BY DEF Live
  <2>1. Elements(order') = {}
    BY <1>1 DEF Elements
  <2>2. PICK t \in Thread : e \in Elements(handle[t]) \cup {local[t]}
    BY <1>1, <2>1 DEF Held
  <2>3. e \in Held(order, handle, local) /\ e \in Entry
    BY <1>2, <2>2, HeldFacts DEF Pointer
  <2>4. model[e] \notin {"unborn", "freed"}
    BY <1>2, <2>3 DEF Live
  <2> QED BY <1>1, <1>2, <2>3, <2>4, ReapFacts
<1>6. CodesOK'
  BY <1>1, <1>2, ReapFacts DEF CodesOK
<1>7. ReloadsOK'
  <2>1. \A e \in Entry : model'[e] = "unloaded" => model[e] = "unloaded"
    BY <1>1, <1>2, ReapFacts
  <2> QED BY <1>1, <1>2, <2>1 DEF ReloadsOK
<1> QED BY <1>3, <1>4, <1>5, <1>6, <1>7 DEF IInv

-----------------------------------------------------------------------------
(***************************************************************************)
(* The theorems                                                            *)
(***************************************************************************)
LEMMA InitEstablishes == Init => IInv
<1> SUFFICES ASSUME Init PROVE IInv
  OBVIOUS
<1> USE DEF Init
<1>1. SharedTypes /\ ThreadTypes
  BY DEF SharedTypes, ThreadTypes, Label, Results, Pointer
<1>2. Elements(<<>>) = {}
  BY DEF Elements
<1>3. ASSUME NEW t \in Thread PROVE ThreadOK(t)
  BY <1>2 DEF ThreadOK, BatchOK, HandlesOK, ProgOK
<1>4. Live
  BY <1>2 DEF Live, Held
<1>5. CodesOK /\ ReloadsOK
  BY DEF CodesOK, ReloadsOK
<1> QED BY <1>1, <1>3, <1>4, <1>5 DEF IInv

LEMMA NextKeeps == ASSUME IInv, [Next]_vars PROVE IInv'
<1>1. CASE Next
  BY <1>1, CompileBatchStep, CompileStep, CompileBuildStep, CompileStoreStep, ExecuteBeginStep,
     ExecuteEndStep, ReloadBeginStep, ReloadEndStep, ReleaseStep, MatmulF32Step, MatmulStep,
     MatmulBuildStep, MatmulStoreStep, MatmulExecuteStep, SetBackendStep, CacheFlushStep
     DEF Next
<1>2. CASE UNCHANGED vars
  <2>1. /\ available' = available /\ broken' = broken /\ backend' = backend /\ order' = order
        /\ got' = got /\ code' = code /\ model' = model /\ pc' = pc /\ requests' = requests
        /\ success' = success /\ req' = req /\ local' = local /\ prog' = prog
        /\ handle' = handle /\ res' = res
    BY <1>2 DEF vars
  <2>2. SharedTypes' /\ ThreadTypes'
    BY <2>1 DEF IInv, SharedTypes, ThreadTypes
  <2>3. \A t \in Thread : ThreadOK(t)'
    BY <2>1 DEF IInv, ThreadOK, BatchOK, Filed, HandlesOK, ProgOK, Request
  <2>4. Live' /\ CodesOK' /\ ReloadsOK'
    BY <2>1 DEF IInv, Live, CodesOK, ReloadsOK
  <2> QED BY <2>2, <2>3, <2>4 DEF IInv
<1> QED BY <1>1, <1>2

\* The invariant of the operation API, for any threads, keys and entries:
\* where each call is and what it holds, what every entry computes and
\* whether its program is on the device.
THEOREM ApiInvariant == Spec => []IInv
BY InitEstablishes, NextKeeps, PTL DEF Spec

\* The types of the operation API, and that an entry has a program exactly
\* when a compilation made one (CacheEntry::is_ane).
THEOREM ApiTypes == Spec => []TypeOK
<1>1. ASSUME IInv PROVE TypeOK
  <2>1. SharedTypes /\ ThreadTypes /\ CodesOK
    BY <1>1 DEF IInv
  <2>2. \A t \in Thread : requests[t] \in Requests \cup {<<>>}
    BY <2>1 DEF ThreadTypes
  <2> QED BY <2>1, <2>2 DEF TypeOK, SharedTypes, ThreadTypes, CodesOK, Label, Results, Pointer
<1>2. IInv => TypeOK
  BY <1>1
<1> QED BY <1>2, ApiInvariant, PTL

\* No program is unloaded and freed while a call executes, reloads or returns
\* it or a handle to it exists, whatever the cache evicts meanwhile.
THEOREM NothingFreedInUse == Spec => []NoUseAfterFree
<1>1. ASSUME IInv PROVE NoUseAfterFree
  <2> SUFFICES ASSUME NEW t \in Thread, NEW e \in Entry, e = prog[t] \/ e \in Elements(handle[t])
               PROVE  model[e] # "freed"
    BY DEF NoUseAfterFree
  <2>1. SharedTypes /\ ThreadTypes /\ ProgOK(t) /\ Live
    BY <1>1 DEF IInv, ThreadOK
  <2>2. e # NoEntry
    BY CacheAssumption
  <2>3. e \in Elements(handle[t]) \cup {local[t]}
    <3>1. CASE e = prog[t]
      BY <2>1, <2>2, <3>1 DEF ProgOK, ThreadTypes, Label
    <3> QED BY <3>1
  <2>4. e \in Held(order, handle, local)
    BY <2>1, <2>3, HeldFacts
  <2> QED BY <2>1, <2>2, <2>4 DEF Live
<1>2. IInv => NoUseAfterFree
  BY <1>1
<1> QED BY <1>2, ApiInvariant, PTL

\* A handle libane_compile returned stays usable until libane_delta_reload
\* fails on it, as long as no product has the key of a compilation (a failed
\* product leaves an entry without a program under its key).
THEOREM HandlesUsable == Spec => [](KeysApart => HandleUsable)
<1>1. ASSUME IInv, KeysApart PROVE HandleUsable
  <2> SUFFICES ASSUME NEW t \in Thread, NEW h \in Elements(handle[t]) \ {NoEntry}
               PROVE  \/ model[h] = "loaded"
                      \/ model[h] = "unloaded" /\ h \in broken
                      \/ /\ model[h] = "unloaded"
                         /\ \E u \in Thread : pc[u] = "reload" /\ prog[u] = h
    BY DEF HandleUsable
  <2>1. SharedTypes /\ ThreadTypes /\ HandlesOK(t) /\ Live /\ CodesOK /\ ReloadsOK
    BY <1>1 DEF IInv, ThreadOK
  <2>2. h \in Entry /\ h \in Held(order, handle, local) \ {NoEntry}
    BY <2>1, HeldFacts DEF Pointer
  <2>3. model[h] \notin {"unborn", "freed"}
    BY <2>1, <2>2 DEF Live
  <2>4. code[h] = "raw"
    BY <1>1, <2>1, <2>2, <2>3 DEF CodesOK, HandlesOK
  <2>5. model[h] \in {"loaded", "unloaded"}
    BY <2>1, <2>2, <2>3, <2>4 DEF CodesOK, SharedTypes
  <2> QED BY <2>1, <2>2, <2>5 DEF ReloadsOK
<1>2. IInv => (KeysApart => HandleUsable)
  BY <1>1
<1> QED BY <1>2, ApiInvariant, PTL

\* libane_execute and libane_matmul_f16 report success only for results
\* computed with the caller's weights in the caller's layout, as long as no
\* product has the key of a compilation.  The hypothesis is needed:
\* MCLibaneApiSharedKey violates ResultsRight without it.
THEOREM ResultsCorrect == Spec => [](KeysApart => ResultsRight)
<1>1. IInv => (KeysApart => ResultsRight)
  BY DEF IInv, ThreadOK, ProgOK, ResultsRight
<1> QED BY <1>1, ApiInvariant, PTL

-----------------------------------------------------------------------------
\* A batch that returns has filed and reported every request.
LEMMA BatchStep ==
    ASSUME IInv, Next, NEW t \in Thread, requests[t] # <<>>, requests'[t] = <<>>
    PROVE  Reported(t)
<1>1. ThreadTypes /\ BatchOK(t)
  BY DEF IInv, ThreadOK
<1>2. pc[t] \in {"lookup", "compile", "store"}
  BY <1>1 DEF BatchOK
<1>3. requests' # requests
  OBVIOUS
<1>4. ASSUME NEW u \in Thread, NEW r, Leave(u, r) PROVE u = t
  BY <1>1, <1>4 DEF Leave, ThreadTypes
<1>5. ASSUME NEW u \in Thread, \E e : Deliver(u, e) PROVE u = t
  BY <1>1, <1>3, <1>5 DEF Deliver, Leave, ThreadTypes
<1>6. CASE \/ \E u \in Thread : Compile(u) \/ CompileBuild(u) \/ CompileStore(u)
  <2>1. PICK u \in Thread : Compile(u) \/ CompileBuild(u) \/ CompileStore(u)
    BY <1>6
  <2>2. CASE Compile(u)
    BY <1>3, <1>5, <2>2, CompileStep DEF Compile
  <2>3. CASE CompileBuild(u)
    BY <1>3, <1>5, <2>3, CompileBuildStep DEF CompileBuild
  <2>4. CASE CompileStore(u)
    BY <1>5, <2>4, CompileStoreStep DEF CompileStore
  <2> QED BY <2>1, <2>2, <2>3, <2>4
<1>7. ASSUME NEW u \in Thread, NEW ks \in Requests, CompileBatch(u, ks) PROVE FALSE
  BY <1>1, <1>2, <1>7, ApiAssumption DEF CompileBatch, ThreadTypes
<1>8. ASSUME NEW u \in Thread,
             \/ ExecuteBegin(u) \/ ExecuteEnd(u) \/ ReloadBegin(u) \/ ReloadEnd(u) \/ Release(u)
             \/ MatmulBuild(u) \/ MatmulStore(u) \/ MatmulExecute(u)
             \/ \E k \in MatmulKeys : MatmulF32(u, k) \/ Matmul(u, k)
      PROVE  FALSE
  <2>1. pc[u] \notin {"lookup", "compile", "store"}
    BY <1>8 DEF ExecuteBegin, ExecuteEnd, ReloadBegin, ReloadEnd, Release, MatmulBuild,
       MatmulStore, MatmulExecute, MatmulF32, Matmul
  <2>2. \E r : Leave(u, r)
    BY <1>3, <1>8 DEF ExecuteBegin, ExecuteEnd, ReloadBegin, ReloadEnd, Release, MatmulBuild,
       MatmulStore, MatmulExecute, MatmulF32, Matmul
  <2> QED BY <1>2, <1>4, <2>1, <2>2
<1>9. ASSUME (\E b \in {"auto", "ane", "cpu"} : SetBackend(b)) \/ CacheFlush PROVE FALSE
  BY <1>3, <1>9 DEF SetBackend, CacheFlush
<1> QED BY <1>6, <1>7, <1>8, <1>9 DEF Next

\* libane_compile_batch returns a handle or NULL for every request, filed
\* under the request's key, and its status says whether there is a NULL,
\* whatever the other threads put into and drop from the cache meanwhile.
THEOREM BatchesReported == Spec => BatchReported
<1> DEFINE P ==
      \A t \in Thread :
         requests[t] # <<>> /\ requests'[t] = <<>> =>
            /\ Len(handle'[t]) = Len(requests[t])
            /\ \A i \in DOMAIN requests[t] :
                 handle'[t][i] = NoEntry \/ EntryKey[handle'[t][i]] = requests[t][i]
            /\ res'[t] = "compiled" <=> NoEntry \notin Elements(handle'[t])
<1>1. ASSUME IInv, IInv', [Next]_vars PROVE [P]_vars
  <2> SUFFICES ASSUME Next, NEW t \in Thread, requests[t] # <<>>, requests'[t] = <<>>
               PROVE  /\ Len(handle'[t]) = Len(requests[t])
                      /\ \A i \in DOMAIN requests[t] :
                           handle'[t][i] = NoEntry \/ EntryKey[handle'[t][i]] = requests[t][i]
                      /\ res'[t] = "compiled" <=> NoEntry \notin Elements(handle'[t])
    BY <1>1
  <2>1. /\ Len(handle'[t]) = Len(requests[t]) /\ Filed(handle'[t], requests[t])
        /\ res'[t] = "compiled" <=> NoEntry \notin Elements(handle'[t])
    BY <1>1, BatchStep DEF Reported
  <2>2. handle'[t] \in Seq(Pointer) /\ requests[t] \in Seq(Key)
    BY <1>1, ApiAssumption DEF IInv, ThreadTypes
  <2>3. DOMAIN handle'[t] = DOMAIN requests[t]
    BY <2>1, <2>2, LenProperties
  <2> QED BY <2>1, <2>3 DEF Filed
<1> QED BY <1>1, ApiInvariant, PTL DEF Spec, BatchReported
=============================================================================
