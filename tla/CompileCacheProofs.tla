------------------------- MODULE CompileCacheProofs -------------------------
(***************************************************************************)
(* Proofs about CompileCache, for any sets of keys, threads and entries,   *)
(* any entry sizes and any budget.                                         *)
(***************************************************************************)
EXTENDS CompileCache, TLAPS, FiniteSetTheorems, SequenceTheorems

-----------------------------------------------------------------------------
(***************************************************************************)
(* The LRU list                                                            *)
(***************************************************************************)

NoDup(s) == \A i, j \in DOMAIN s : s[i] = s[j] => i = j

\* Erasing one node of a list keeps the others in order.
LEMMA RemoveAtFacts ==
    ASSUME NEW S, NEW s \in Seq(S), NEW i \in 1 .. Len(s)
    PROVE  /\ RemoveAt(s, i) \in Seq(S)
           /\ Len(RemoveAt(s, i)) = Len(s) - 1
           /\ \A j \in 1 .. Len(s) - 1 :
                 RemoveAt(s, i)[j] = IF j < i THEN s[j] ELSE s[j + 1]
<1> DEFINE a == SubSeq(s, 1, i - 1)
           b == SubSeq(s, i + 1, Len(s))
<1>1. /\ a \in Seq(S) /\ Len(a) = i - 1
      /\ \A j \in 1 .. i - 1 : a[j] = s[j]
  <2>1. \A j \in 1 .. i - 1 : s[j] \in S
    BY ElementOfSeq
  <2>2. 1 \in Int /\ i - 1 \in Int
    OBVIOUS
  <2>3. a \in Seq(S) /\ Len(a) = IF 1 <= i - 1 THEN (i - 1) - 1 + 1 ELSE 0
    BY <2>1, <2>2, SubSeqProperties
  <2>4. \A j \in 1 .. (i - 1) - 1 + 1 : a[j] = s[1 + j - 1]
    BY <2>1, <2>2, SubSeqProperties
  <2> QED
    BY <2>3, <2>4
<1>2. /\ b \in Seq(S) /\ Len(b) = Len(s) - i
      /\ \A j \in 1 .. Len(s) - i : b[j] = s[i + j]
  <2>1. \A j \in i + 1 .. Len(s) : s[j] \in S
    BY ElementOfSeq
  <2>2. i + 1 \in Int /\ Len(s) \in Int
    BY LenProperties
  <2>3. b \in Seq(S) /\ Len(b) = IF i + 1 <= Len(s) THEN Len(s) - (i + 1) + 1 ELSE 0
    BY <2>1, <2>2, SubSeqProperties
  <2>4. \A j \in 1 .. Len(s) - (i + 1) + 1 : b[j] = s[(i + 1) + j - 1]
    BY <2>1, <2>2, SubSeqProperties
  <2> QED
    BY <2>2, <2>3, <2>4
<1>3. RemoveAt(s, i) = a \o b
  BY DEF RemoveAt
<1>4. /\ a \o b \in Seq(S)
      /\ Len(a \o b) = Len(a) + Len(b)
      /\ \A j \in 1 .. Len(a) + Len(b) :
            (a \o b)[j] = IF j <= Len(a) THEN a[j] ELSE b[j - Len(a)]
  BY <1>1, <1>2, ConcatProperties
<1> HIDE DEF a, b
<1>5. Len(s) \in Nat
  BY LenProperties
<1>6. ASSUME NEW j \in 1 .. Len(s) - 1
      PROVE  RemoveAt(s, i)[j] = IF j < i THEN s[j] ELSE s[j + 1]
  <2>1. CASE j < i
    BY <1>1, <1>2, <1>3, <1>4, <1>5, <2>1
  <2>2. CASE ~(j < i)
    <3>1. j - (i - 1) \in 1 .. Len(s) - i /\ i + (j - (i - 1)) = j + 1
      BY <1>5, <2>2
    <3>2. (a \o b)[j] = b[j - (i - 1)]
      BY <1>1, <1>2, <1>4, <1>5, <2>2
    <3> QED
      BY <1>2, <1>3, <2>2, <3>1, <3>2
  <2> QED
    BY <2>1, <2>2
<1> QED
  BY <1>1, <1>2, <1>3, <1>4, <1>5, <1>6

\* Erasing a node of a list without duplicates removes just that element.
LEMMA RemoveAtElements ==
    ASSUME NEW S, NEW s \in Seq(S), NEW i \in 1 .. Len(s), NoDup(s)
    PROVE  /\ Elements(RemoveAt(s, i)) = Elements(s) \ {s[i]}
           /\ NoDup(RemoveAt(s, i))
<1> DEFINE r == RemoveAt(s, i)
<1>1. /\ r \in Seq(S) /\ Len(r) = Len(s) - 1
      /\ \A j \in 1 .. Len(s) - 1 : r[j] = IF j < i THEN s[j] ELSE s[j + 1]
  BY RemoveAtFacts
<1>2. DOMAIN s = 1 .. Len(s) /\ DOMAIN r = 1 .. Len(s) - 1 /\ Len(s) \in Nat
  BY <1>1, LenProperties
<1> HIDE DEF r
<1>3. ASSUME NEW x \in Elements(r) PROVE x \in Elements(s) \ {s[i]}
  <2>1. PICK j \in 1 .. Len(s) - 1 : x = r[j]
    BY <1>2, <1>3 DEF Elements
  <2>2. PICK h \in 1 .. Len(s) : x = s[h] /\ h # i
    BY <1>1, <1>2, <2>1
  <2> QED
    BY <1>2, <2>2 DEF Elements, NoDup
<1>4. ASSUME NEW x \in Elements(s), x # s[i] PROVE x \in Elements(r)
  <2>1. PICK j \in 1 .. Len(s) : x = s[j]
    BY <1>2 DEF Elements
  <2>2. CASE j < i
    BY <2>1, <2>2, <1>1, <1>2, SMTT(30) DEF Elements
  <2>3. CASE j > i
    <3>1. j - 1 \in DOMAIN r /\ r[j - 1] = s[j]
      BY <2>3, <1>1, <1>2
    <3> QED
      BY <2>1, <3>1 DEF Elements
  <2> QED
    BY <1>4, <2>1, <2>2, <2>3
<1>5. NoDup(r)
  <2> SUFFICES ASSUME NEW j \in 1 .. Len(s) - 1, NEW h \in 1 .. Len(s) - 1,
                      r[j] = r[h]
               PROVE  j = h
    BY <1>2 DEF NoDup
  <2> DEFINE g(n) == IF n < i THEN n ELSE n + 1
  <2>1. /\ g(j) \in DOMAIN s /\ g(h) \in DOMAIN s
        /\ r[j] = s[g(j)] /\ r[h] = s[g(h)]
    BY <1>1, <1>2
  <2>2. g(j) = g(h)
    BY <2>1 DEF NoDup
  <2> QED
    BY <2>2
<1> QED
  BY <1>3, <1>4, <1>5 DEF r

\* Pushing a new element in front adds just that element.
LEMMA PushFront ==
    ASSUME NEW S, NEW s \in Seq(S), NEW x \in S, NoDup(s), x \notin Elements(s)
    PROVE  /\ <<x>> \o s \in Seq(S)
           /\ Len(<<x>> \o s) = Len(s) + 1
           /\ Elements(<<x>> \o s) = Elements(s) \cup {x}
           /\ NoDup(<<x>> \o s)
<1> DEFINE r == <<x>> \o s
<1>1. /\ r \in Seq(S) /\ Len(r) = Len(s) + 1 /\ Len(s) \in Nat
      /\ DOMAIN r = 1 .. Len(s) + 1 /\ DOMAIN s = 1 .. Len(s)
      /\ r[1] = x
      /\ \A j \in 2 .. Len(s) + 1 : r[j] = s[j - 1]
  <2>1. <<x>> \in Seq(S) /\ Len(<<x>>) = 1 /\ <<x>>[1] = x
    OBVIOUS
  <2>2. /\ r \in Seq(S) /\ Len(r) = 1 + Len(s)
        /\ \A j \in 1 .. 1 + Len(s) : r[j] = IF j <= 1 THEN <<x>>[j] ELSE s[j - 1]
    BY <2>1, ConcatProperties
  <2>3. DOMAIN s = 1 .. Len(s) /\ Len(s) \in Nat
    BY LenProperties
  <2>4. DOMAIN r = 1 .. Len(r)
    BY <2>2, LenProperties
  <2> HIDE DEF r
  <2> QED
    BY <2>1, <2>2, <2>3, <2>4
<1> HIDE DEF r
<1>2. Elements(r) \subseteq Elements(s) \cup {x}
  BY <1>1, SMTT(30) DEF Elements
<1>3. ASSUME NEW y \in Elements(s) PROVE y \in Elements(r)
  <2>1. PICK j \in 1 .. Len(s) : y = s[j]
    BY <1>1, <1>3 DEF Elements
  <2>2. j + 1 \in DOMAIN r /\ r[j + 1] = y
    BY <1>1, <2>1
  <2> QED
    BY <2>2 DEF Elements
<1>4. x \in Elements(r)
  BY <1>1 DEF Elements
<1>5. NoDup(r)
  <2> SUFFICES ASSUME NEW i \in DOMAIN r, NEW j \in DOMAIN r, r[i] = r[j]
               PROVE  i = j
    BY DEF NoDup
  <2>1. ASSUME NEW h \in 2 .. Len(s) + 1
        PROVE  h - 1 \in DOMAIN s /\ r[h] = s[h - 1] /\ r[h] # x
    <3>1. h - 1 \in DOMAIN s /\ r[h] = s[h - 1]
      BY <1>1
    <3> QED
      BY <3>1 DEF Elements
  <2>2. CASE i = 1 \/ j = 1
    BY <1>1, <2>1, <2>2
  <2>3. CASE i # 1 /\ j # 1
    <3>1. i \in 2 .. Len(s) + 1 /\ j \in 2 .. Len(s) + 1
      BY <1>1, <2>3
    <3>2. i - 1 = j - 1
      BY <2>1, <3>1 DEF NoDup
    <3> QED
      BY <3>1, <3>2
  <2> QED
    BY <2>2, <2>3
<1> QED
  BY <1>1, <1>2, <1>3, <1>4, <1>5 DEF r

\* Splicing a node to the front keeps the elements of a list.
LEMMA MoveToFrontFacts ==
    ASSUME NEW S, NEW s \in Seq(S), NEW i \in 1 .. Len(s), NoDup(s)
    PROVE  /\ MoveToFront(s, i) \in Seq(S)
           /\ Len(MoveToFront(s, i)) = Len(s)
           /\ Elements(MoveToFront(s, i)) = Elements(s)
           /\ NoDup(MoveToFront(s, i))
<1> DEFINE r == RemoveAt(s, i)
<1>1. /\ r \in Seq(S) /\ Len(r) = Len(s) - 1 /\ Len(s) \in Nat
      /\ NoDup(r) /\ Elements(r) = Elements(s) \ {s[i]}
  BY RemoveAtFacts, RemoveAtElements, LenProperties
<1>2. s[i] \in S /\ s[i] \in Elements(s)
  BY ElementOfSeq, LenProperties DEF Elements
<1> HIDE DEF r
<1>3. /\ <<s[i]>> \o r \in Seq(S) /\ Len(<<s[i]>> \o r) = Len(r) + 1
      /\ Elements(<<s[i]>> \o r) = Elements(r) \cup {s[i]}
      /\ NoDup(<<s[i]>> \o r)
  BY <1>1, <1>2, PushFront
<1>4. MoveToFront(s, i) = <<s[i]>> \o r
  BY DEF MoveToFront, r
<1>5. Elements(r) \cup {s[i]} = Elements(s)
  BY <1>1, <1>2
<1>6. Len(r) + 1 = Len(s)
  BY <1>1
<1> QED
  BY <1>3, <1>4, <1>5, <1>6

\* Popping the tail removes just the last element.
LEMMA FrontFacts ==
    ASSUME NEW S, NEW s \in Seq(S), s # <<>>, NoDup(s)
    PROVE  /\ Front(s) \in Seq(S)
           /\ Len(Front(s)) = Len(s) - 1 /\ Len(s) \in Nat \ {0}
           /\ \A j \in 1 .. Len(s) - 1 : Front(s)[j] = s[j]
           /\ Elements(Front(s)) = Elements(s) \ {Last(s)}
           /\ Last(s) \in Elements(s) /\ Last(s) \in S
           /\ NoDup(Front(s))
<1> DEFINE n == Len(s)
<1>1. n \in Nat \ {0} /\ DOMAIN s = 1 .. n
  BY EmptySeq, LenProperties
<1>2. \A j \in 1 .. n - 1 : s[j] \in S
  BY <1>1, ElementOfSeq
<1>3. /\ Front(s) \in Seq(S)
      /\ Len(Front(s)) = IF 1 <= n - 1 THEN (n - 1) - 1 + 1 ELSE 0
      /\ \A j \in 1 .. (n - 1) - 1 + 1 : Front(s)[j] = s[1 + j - 1]
  BY <1>1, <1>2, SubSeqProperties DEF Front
<1> HIDE DEF n
<1>4. /\ Len(Front(s)) = n - 1 /\ DOMAIN Front(s) = 1 .. n - 1
      /\ \A j \in 1 .. n - 1 : Front(s)[j] = s[j]
  <2>1. Len(Front(s)) = n - 1
    BY <1>1, <1>3
  <2>2. DOMAIN Front(s) = 1 .. Len(Front(s))
    BY <1>3, LenProperties
  <2>3. ASSUME NEW j \in 1 .. n - 1 PROVE Front(s)[j] = s[j]
    <3>1. j \in 1 .. (n - 1) - 1 + 1 /\ 1 + j - 1 = j
      BY <1>1
    <3> QED
      BY <1>3, <3>1
  <2> QED
    BY <2>1, <2>2, <2>3
<1>5. Last(s) = s[n] /\ Last(s) \in S /\ Last(s) \in Elements(s)
  BY <1>1, ElementOfSeq DEF Last, Elements
<1>6. Elements(Front(s)) = Elements(s) \ {Last(s)}
  BY <1>1, <1>4, <1>5 DEF Elements, NoDup
<1>7. NoDup(Front(s))
  BY <1>1, <1>4 DEF NoDup
<1> QED
  BY <1>1, <1>3, <1>4, <1>5, <1>6, <1>7 DEF n

-----------------------------------------------------------------------------
(***************************************************************************)
(* Sizes                                                                   *)
(***************************************************************************)

\* The elements of a list are finitely many.
LEMMA ElementsFinite ==
    ASSUME NEW S, NEW s \in Seq(S)
    PROVE  IsFiniteSet(Elements(s))
<1>1. DOMAIN s = 1 .. Len(s) /\ Len(s) \in Int /\ 1 \in Int
  BY LenProperties
<1>2. IsFiniteSet(DOMAIN s)
  BY <1>1, FS_Interval
<1>3. [i \in DOMAIN s |-> s[i]] \in Surjection(DOMAIN s, Elements(s))
  BY DEF Surjection, Elements
<1> QED
  BY <1>2, <1>3, FS_Surjection

\* An entry has EntrySize[e] byte cells.
LEMMA CellsFacts ==
    ASSUME NEW e \in Entry
    PROVE  /\ IsFiniteSet(Cells(e))
           /\ Cardinality(Cells(e)) = EntrySize[e]
<1>1. EntrySize[e] \in Nat
  BY CacheAssumption
<1>2. IsFiniteSet(1 .. EntrySize[e]) /\ Cardinality(1 .. EntrySize[e]) = EntrySize[e]
  BY <1>1, FS_Interval
<1>3. IsFiniteSet({e}) /\ Cardinality({e}) = 1
  BY FS_Singleton
<1>4. /\ IsFiniteSet({e} \X (1 .. EntrySize[e]))
      /\ Cardinality({e} \X (1 .. EntrySize[e])) = 1 * EntrySize[e]
  BY <1>2, <1>3, FS_Product, ZenonT(60)
<1> QED
  BY <1>1, <1>4 DEF Cells

\* The byte cells of a finite set of entries are finitely many.
LEMMA CellsUnionFinite ==
    ASSUME NEW T \in SUBSET Entry, IsFiniteSet(T)
    PROVE  /\ IsFiniteSet(UNION {Cells(e) : e \in T})
           /\ Bytes(T) \in Nat
<1> DEFINE C == {Cells(e) : e \in T}
<1>1. [e \in T |-> Cells(e)] \in Surjection(T, C)
  BY DEF Surjection
<1>2. IsFiniteSet(C)
  BY <1>1, FS_Surjection
<1>3. \A c \in C : IsFiniteSet(c)
  BY CellsFacts
<1>4. IsFiniteSet(UNION C)
  BY <1>2, <1>3, FS_UNION
<1> QED
  BY <1>4, FS_CardinalityType DEF Bytes

\* Adding an entry adds its size.
LEMMA BytesAdd ==
    ASSUME NEW T \in SUBSET Entry, IsFiniteSet(T), NEW e \in Entry, e \notin T
    PROVE  Bytes(T \cup {e}) = Bytes(T) + EntrySize[e]
<1> DEFINE U == UNION {Cells(x) : x \in T}
<1>1. UNION {Cells(x) : x \in T \cup {e}} = U \cup Cells(e)
  OBVIOUS
<1>2. U \cap Cells(e) = {}
  BY DEF Cells
<1>3. IsFiniteSet(U) /\ Bytes(T) \in Nat /\ Bytes(T) = Cardinality(U)
  BY CellsUnionFinite DEF Bytes
<1>4. IsFiniteSet(Cells(e)) /\ Cardinality(Cells(e)) = EntrySize[e]
  BY CellsFacts
<1> HIDE DEF U
<1>5. Cardinality(U \cup Cells(e)) = Cardinality(U) + Cardinality(Cells(e)) - Cardinality(U \cap Cells(e))
  BY <1>3, <1>4, FS_Union
<1>6. EntrySize[e] \in Nat
  BY CacheAssumption
<1>7. Bytes(T \cup {e}) = Cardinality(U \cup Cells(e))
  BY <1>1 DEF Bytes
<1> QED
  BY <1>2, <1>3, <1>4, <1>5, <1>6, <1>7, FS_EmptySet

\* Removing one subtracts it.
LEMMA BytesRemove ==
    ASSUME NEW T \in SUBSET Entry, IsFiniteSet(T), NEW e \in T
    PROVE  /\ Bytes(T \ {e}) = Bytes(T) - EntrySize[e]
           /\ Bytes(T \ {e}) \in Nat /\ Bytes(T) \in Nat
<1>1. IsFiniteSet(T \ {e})
  BY FS_RemoveElement
<1>2. (T \ {e}) \cup {e} = T /\ e \in Entry
  OBVIOUS
<1>3. Bytes(T) = Bytes(T \ {e}) + EntrySize[e]
  BY <1>1, <1>2, BytesAdd
<1>4. Bytes(T \ {e}) \in Nat /\ Bytes(T) \in Nat /\ EntrySize[e] \in Nat
  BY <1>1, <1>2, CellsUnionFinite, CacheAssumption
<1> QED
  BY <1>3, <1>4

\* A smaller set of entries takes no more bytes.
LEMMA BytesMonotone ==
    ASSUME NEW T \in SUBSET Entry, IsFiniteSet(T), NEW V \in SUBSET T
    PROVE  Bytes(V) <= Bytes(T) /\ Bytes(V) \in Nat /\ Bytes(T) \in Nat
<1>1. IsFiniteSet(UNION {Cells(e) : e \in T})
  BY CellsUnionFinite
<1>2. UNION {Cells(e) : e \in V} \subseteq UNION {Cells(e) : e \in T}
  OBVIOUS
<1>3. IsFiniteSet(V)
  BY FS_Subset
<1> QED
  BY <1>1, <1>2, <1>3, FS_Subset, CellsUnionFinite DEF Bytes

-----------------------------------------------------------------------------
(***************************************************************************)
(* The inductive invariant                                                 *)
(*                                                                         *)
(* MapMatchesLru, BytesExact and WithinBudget are not inductive by         *)
(* themselves: put is several steps long, and PutInsert preserves them     *)
(* only because the entry it files is not in the list, nothing is filed    *)
(* under its key any more, and no other thread is inside.                  *)
(***************************************************************************)

\* The thread in put's loop is the one that holds the lock exclusively.
LockInv == \A t \in Thread : pc[t] = "put" <=> writer = t

\* What PutBegin established stays true through the loop.
PutInv ==
    \A t \in Thread : pc[t] = "put" =>
        /\ entry[t] \in used
        /\ entry[t] \notin Elements(lru)
        /\ map[EntryKey[entry[t]]] = NoEntry

\* Everything cached was put: an entry not yet put is not in the list.
CachedWasPut == Elements(lru) \subseteq used

IInv ==
    /\ TypeOK
    /\ MapMatchesLru
    /\ BytesExact
    /\ WithinBudget
    /\ LockInv
    /\ PutInv
    /\ CachedWasPut

\* The initial state satisfies the invariant.
LEMMA InitIInv == Init => IInv
<1> SUFFICES ASSUME Init PROVE IInv
  OBVIOUS
<1> USE DEF Init
<1>1. Elements(lru) = {} /\ DOMAIN lru = {}
  BY DEF Elements
<1>2. TypeOK
  BY CacheAssumption, BoundAssumption DEF TypeOK
<1>3. MapMatchesLru
  BY <1>1 DEF MapMatchesLru
<1>4. BytesExact
  <2>1. Bytes({}) = Cardinality({})
    BY DEF Bytes
  <2> QED
    BY <1>1, <2>1, FS_EmptySet DEF BytesExact
<1>5. WithinBudget
  BY CacheAssumption DEF WithinBudget
<1>6. LockInv /\ PutInv
  BY BoundAssumption DEF LockInv, PutInv
<1>7. CachedWasPut
  BY <1>1 DEF CachedWasPut
<1> QED
  BY <1>2, <1>3, <1>4, <1>5, <1>6, <1>7 DEF IInv

\* Facts about the list that every step uses.
LEMMA LruFacts ==
    ASSUME IInv
    PROVE  /\ lru \in Seq(Entry) /\ Len(lru) \in Nat /\ DOMAIN lru = 1 .. Len(lru)
           /\ NoDup(lru)
           /\ Elements(lru) \in SUBSET Entry /\ IsFiniteSet(Elements(lru))
           /\ \A x \in Elements(lru) : EntryKey[x] \in Key /\ map[EntryKey[x]] = x
           /\ \A k \in Key : map[k] # NoEntry =>
                 map[k] \in Elements(lru) /\ EntryKey[map[k]] = k
<1> USE DEF IInv
<1>1. lru \in Seq(Entry) /\ Len(lru) \in Nat /\ DOMAIN lru = 1 .. Len(lru)
  BY LenProperties DEF TypeOK
<1>2. \A i \in DOMAIN lru : lru[i] \in Entry
  BY <1>1, ElementOfSeq
<1>3. Elements(lru) \in SUBSET Entry
  BY <1>2 DEF Elements
<1>4. IsFiniteSet(Elements(lru))
  BY <1>1, ElementsFinite
<1> QED
  BY <1>1, <1>2, <1>3, <1>4, CacheAssumption DEF MapMatchesLru, NoDup, Elements

\* The position put and get take from map_ is the node of that entry.
LEMMA LruPosFacts ==
    ASSUME NEW e \in Elements(lru)
    PROVE  LruPos(e) \in DOMAIN lru /\ lru[LruPos(e)] = e
BY DEF LruPos, Elements

\* A step that leaves the table and the loops of put alone.
LEMMA QuietStep ==
    ASSUME IInv, UNCHANGED <<lru, map, current_bytes, writer, entry, used>>, TypeOK',
           \A t \in Thread : pc'[t] = "put" <=> pc[t] = "put"
    PROVE  IInv'
<1> USE DEF IInv
<1>1. MapMatchesLru' /\ BytesExact' /\ WithinBudget'
  BY DEF MapMatchesLru, BytesExact, WithinBudget, Bytes, Elements, Cells
<1>2. LockInv' /\ PutInv' /\ CachedWasPut'
  BY DEF LockInv, PutInv, CachedWasPut, Elements
<1> QED
  BY <1>1, <1>2

\* get: miss, hit and promotion.
LEMMA GetStep ==
    ASSUME IInv, NEW t \in Thread,
           \/ \E k \in Key : GetMiss(t, k) \/ GetHit(t, k)
           \/ GetPromote(t)
    PROVE  IInv'
<1> USE DEF IInv
<1>1. CASE \E k \in Key : GetMiss(t, k) \/ GetHit(t, k)
  <2>1. PICK k \in Key : GetMiss(t, k) \/ GetHit(t, k)
    BY <1>1
  <2>2. UNCHANGED <<lru, map, current_bytes, writer, entry, used>>
    BY <2>1 DEF GetMiss, GetHit, table
  <2>3. TypeOK'
    <3>1. CASE GetMiss(t, k)
      BY <3>1 DEF TypeOK, GetMiss, table, Return, Goto
    <3>2. CASE GetHit(t, k)
      BY <3>2 DEF TypeOK, GetHit, table, Goto
    <3> QED
      BY <2>1, <3>1, <3>2
  <2>4. \A u \in Thread : pc'[u] = "put" <=> pc[u] = "put"
    BY <2>1 DEF TypeOK, GetMiss, GetHit, Return, Goto
  <2> QED
    BY <2>2, <2>3, <2>4, QuietStep
<1>2. CASE GetPromote(t) /\ map[key[t]] = NoEntry
  <2>1. UNCHANGED <<lru, map, current_bytes, writer, entry, used>>
    BY <1>2 DEF GetPromote
  <2>2. TypeOK'
    BY <1>2 DEF TypeOK, GetPromote, Return, Goto, stats
  <2>3. \A u \in Thread : pc'[u] = "put" <=> pc[u] = "put"
    BY <1>2 DEF TypeOK, GetPromote, Return, Goto
  <2> QED
    BY <2>1, <2>2, <2>3, QuietStep
<1>3. CASE GetPromote(t) /\ map[key[t]] # NoEntry
  <2> DEFINE e == map[key[t]]
             i == LruPos(e)
  <2>1. key[t] \in Key /\ e \in Elements(lru)
    BY <1>3, LruFacts DEF TypeOK
  <2>2. i \in 1 .. Len(lru) /\ lru[i] = e
    BY <2>1, LruPosFacts, LruFacts
  <2>3. /\ lru' = MoveToFront(lru, i)
        /\ ret' = [ret EXCEPT ![t] = e] /\ pc' = [pc EXCEPT ![t] = "idle"]
        /\ UNCHANGED <<map, current_bytes, hits, misses, evictions, writer, key,
                       entry, used, before>>
    BY <1>3 DEF GetPromote, Return, Goto, stats
  <2>4. /\ lru' \in Seq(Entry) /\ Len(lru') = Len(lru)
        /\ Elements(lru') = Elements(lru) /\ NoDup(lru')
    BY <2>2, <2>3, LruFacts, MoveToFrontFacts
  <2>5. TypeOK'
    BY <2>1, <2>3, <2>4, LruFacts DEF TypeOK
  <2>6. MapMatchesLru'
    <3>1. /\ \A x \in Elements(lru)' : map'[EntryKey[x]] = x
          /\ \A k \in Key : map'[k] # NoEntry =>
                map'[k] \in Elements(lru)' /\ EntryKey[map'[k]] = k
      BY <2>3, <2>4, LruFacts DEF Elements
    <3>2. NoDup(lru)'
      BY <2>4 DEF NoDup
    <3> QED
      BY <3>1, <3>2 DEF MapMatchesLru, NoDup, Elements
  <2>7. BytesExact' /\ WithinBudget' /\ CachedWasPut'
    BY <2>3, <2>4 DEF BytesExact, WithinBudget, CachedWasPut
  <2>8. LockInv' /\ PutInv'
    BY <1>3, <2>3, <2>4 DEF LockInv, PutInv, TypeOK, GetPromote
  <2> QED
    BY <2>5, <2>6, <2>7, <2>8
<1> QED
  BY <1>1, <1>2, <1>3

\* put takes the lock and unlinks the entry of the same key.
LEMMA PutBeginStep ==
    ASSUME IInv, NEW t \in Thread, NEW e \in Entry, PutBegin(t, e)
    PROVE  IInv'
<1> DEFINE k == EntryKey[e]
           old == map[k]
<1> USE DEF IInv
<1>1. k \in Key /\ EntrySize[e] \in Nat /\ old \in Entry \cup {NoEntry}
  BY CacheAssumption DEF TypeOK
<1>2. /\ writer = NoThread /\ writer' = t /\ t # NoThread
      /\ pc' = [pc EXCEPT ![t] = "put"] /\ entry' = [entry EXCEPT ![t] = e]
      /\ used' = used \cup {e} /\ e \notin used /\ before' = lru
      /\ UNCHANGED <<hits, misses, evictions, key, ret>>
  BY BoundAssumption DEF PutBegin, Goto, stats
<1>3. \A u \in Thread : pc[u] # "put"
  BY <1>2, BoundAssumption DEF LockInv
<1>4. LockInv'
  BY <1>2, <1>3 DEF LockInv, TypeOK
<1>5. CASE old = NoEntry
  <2>1. UNCHANGED <<lru, map, current_bytes>>
    BY <1>5 DEF PutBegin, table
  <2>2. TypeOK'
    BY <1>2, <2>1 DEF TypeOK
  <2>3. MapMatchesLru' /\ BytesExact' /\ WithinBudget'
    BY <1>2, <2>1 DEF MapMatchesLru, BytesExact, WithinBudget, Bytes, Elements, Cells
  <2>4. PutInv' /\ CachedWasPut'
    BY <1>2, <1>3, <1>5, <2>1 DEF PutInv, CachedWasPut, Elements, TypeOK
  <2> QED
    BY <1>4, <2>2, <2>3, <2>4
<1>6. CASE old # NoEntry
  <2> DEFINE i == LruPos(old)
  <2>1. /\ current_bytes' = current_bytes - EntrySize[old]
        /\ lru' = RemoveAt(lru, i)
        /\ map' = [map EXCEPT ![k] = NoEntry]
    BY <1>6 DEF PutBegin
  <2>2. old \in Elements(lru) /\ EntryKey[old] = k
    BY <1>1, <1>6, LruFacts
  <2>3. i \in 1 .. Len(lru) /\ lru[i] = old
    BY <2>2, LruPosFacts, LruFacts
  <2>4. /\ lru' \in Seq(Entry) /\ NoDup(lru')
        /\ Elements(lru') = Elements(lru) \ {old}
    BY <2>1, <2>3, LruFacts, RemoveAtFacts, RemoveAtElements
  <2>5. /\ current_bytes' = Bytes(Elements(lru'))
        /\ current_bytes' \in Nat
    <3>1. /\ Bytes(Elements(lru) \ {old}) = Bytes(Elements(lru)) - EntrySize[old]
          /\ Bytes(Elements(lru) \ {old}) \in Nat
      BY <2>2, LruFacts, BytesRemove
    <3> QED
      BY <2>1, <2>4, <3>1 DEF BytesExact
  <2>6. TypeOK'
    BY <1>1, <1>2, <2>1, <2>4, <2>5, LruFacts DEF TypeOK
  <2>7. MapMatchesLru'
    <3>1. \A x \in Elements(lru') : x # old /\ x \in Elements(lru)
      BY <2>4
    <3>2. \A x \in Elements(lru') : EntryKey[x] # k /\ EntryKey[x] \in Key
      BY <3>1, <2>2, LruFacts
    <3>3. \A x \in Elements(lru') : map'[EntryKey[x]] = x
      BY <2>1, <3>1, <3>2, LruFacts DEF TypeOK
    <3>4. \A h \in Key : map'[h] # NoEntry =>
                map'[h] \in Elements(lru') /\ EntryKey[map'[h]] = h
      <4> SUFFICES ASSUME NEW h \in Key, map'[h] # NoEntry
                   PROVE  map'[h] \in Elements(lru') /\ EntryKey[map'[h]] = h
        OBVIOUS
      <4>1. h # k /\ map'[h] = map[h]
        BY <2>1 DEF TypeOK
      <4> QED
        BY <2>2, <2>4, <4>1, LruFacts
    <3> QED
      BY <2>4, <3>3, <3>4 DEF MapMatchesLru, NoDup, Elements
  <2>8. BytesExact' /\ WithinBudget'
    BY <1>2, <2>5 DEF BytesExact, WithinBudget
  <2>9. PutInv' /\ CachedWasPut'
    <3>1. CachedWasPut'
      BY <1>2, <2>4 DEF CachedWasPut
    <3>2. map'[k] = NoEntry
      BY <1>1, <2>1 DEF TypeOK
    <3>3. e \notin Elements(lru')
      BY <1>2, <2>4 DEF CachedWasPut
    <3> QED
      BY <1>2, <1>3, <3>1, <3>2, <3>3 DEF PutInv, TypeOK
  <2> QED
    BY <1>4, <2>6, <2>7, <2>8, <2>9
<1> QED
  BY <1>5, <1>6

\* One iteration of put's loop evicts the last entry of the list.
LEMMA PutEvictStep ==
    ASSUME IInv, NEW t \in Thread, PutEvict(t)
    PROVE  IInv'
<1> DEFINE v == Last(lru)
           k == EntryKey[v]
<1> USE DEF IInv
<1>1. /\ pc[t] = "put" /\ lru # <<>> /\ lru' = Front(lru)
      /\ current_bytes' = current_bytes - EntrySize[v]
      /\ map' = [map EXCEPT ![k] = NoEntry]
      /\ evictions' = evictions + 1
      /\ UNCHANGED <<hits, misses, writer, pc, key, entry, ret, used, before>>
  BY DEF PutEvict, NoRoom
<1>2. /\ lru' \in Seq(Entry) /\ NoDup(lru')
      /\ Elements(lru') = Elements(lru) \ {v} /\ v \in Elements(lru)
  BY <1>1, LruFacts, FrontFacts
<1>3. current_bytes' = Bytes(Elements(lru')) /\ current_bytes' \in Nat
  <2>1. /\ Bytes(Elements(lru) \ {v}) = Bytes(Elements(lru)) - EntrySize[v]
        /\ Bytes(Elements(lru) \ {v}) \in Nat
    BY <1>2, LruFacts, BytesRemove
  <2> QED
    BY <1>1, <1>2, <2>1 DEF BytesExact
<1>4. k \in Key /\ map[k] = v
  BY <1>2, LruFacts
<1> HIDE DEF v, k
<1>5. TypeOK'
  BY <1>1, <1>2, <1>3, <1>4 DEF TypeOK
<1>6. MapMatchesLru'
  <2>1. \A x \in Elements(lru') : map'[EntryKey[x]] = x
    <3> SUFFICES ASSUME NEW x \in Elements(lru') PROVE map'[EntryKey[x]] = x
      OBVIOUS
    <3>1. x \in Elements(lru) /\ x # v /\ EntryKey[x] \in Key /\ map[EntryKey[x]] = x
      BY <1>2, LruFacts
    <3>2. EntryKey[x] # k
      BY <1>4, <3>1
    <3> QED
      BY <1>1, <3>1, <3>2 DEF TypeOK
  <2>2. \A h \in Key : map'[h] # NoEntry =>
              map'[h] \in Elements(lru') /\ EntryKey[map'[h]] = h
    <3> SUFFICES ASSUME NEW h \in Key, map'[h] # NoEntry
                 PROVE  map'[h] \in Elements(lru') /\ EntryKey[map'[h]] = h
      OBVIOUS
    <3>1. h # k /\ map'[h] = map[h]
      BY <1>1 DEF TypeOK
    <3>2. map[h] \in Elements(lru) /\ EntryKey[map[h]] = h
      BY <3>1, LruFacts
    <3> QED
      BY <1>2, <3>1, <3>2 DEF k
  <2> QED
    BY <1>2, <2>1, <2>2 DEF MapMatchesLru, NoDup, Elements
<1>7. BytesExact' /\ LockInv' /\ CachedWasPut'
  BY <1>1, <1>2, <1>3 DEF BytesExact, LockInv, CachedWasPut
<1>8. WithinBudget'
  BY <1>1, BoundAssumption DEF WithinBudget, LockInv
<1>9. PutInv'
  <2> SUFFICES ASSUME NEW u \in Thread, pc[u] = "put"
               PROVE  /\ entry[u] \in used /\ entry[u] \notin Elements(lru')
                      /\ map'[EntryKey[entry[u]]] = NoEntry
    BY <1>1 DEF PutInv
  <2>1. /\ entry[u] \in used /\ entry[u] \notin Elements(lru)
        /\ map[EntryKey[entry[u]]] = NoEntry /\ EntryKey[entry[u]] \in Key
    BY CacheAssumption DEF PutInv, TypeOK
  <2> QED
    BY <1>1, <1>2, <2>1 DEF TypeOK
<1> QED
  BY <1>5, <1>6, <1>7, <1>8, <1>9

\* put files its entry once the loop has made room or emptied the list.
LEMMA PutInsertStep ==
    ASSUME IInv, NEW t \in Thread, PutInsert(t)
    PROVE  IInv'
<1> DEFINE e == entry[t]
           k == EntryKey[e]
<1> USE DEF IInv
<1>1. /\ pc[t] = "put" /\ writer' = NoThread /\ before' = <<>>
      /\ lru' = <<e>> \o lru /\ map' = [map EXCEPT ![k] = e]
      /\ current_bytes' = current_bytes + EntrySize[e]
      /\ ret' = [ret EXCEPT ![t] = e] /\ pc' = [pc EXCEPT ![t] = "idle"]
      /\ UNCHANGED <<hits, misses, evictions, key, entry, used>>
  BY DEF PutInsert, Return, Goto, stats
<1>2. /\ e \in used /\ e \in Entry /\ e \notin Elements(lru) /\ map[k] = NoEntry
      /\ k \in Key /\ EntrySize[e] \in Nat /\ e # NoEntry
  BY <1>1, CacheAssumption DEF PutInv, TypeOK
<1>3. current_bytes + EntrySize[e] <= MaxBytes \/ lru = <<>>
  BY <1>2, CacheAssumption DEF PutInsert, NoRoom, TypeOK
<1>4. /\ lru' \in Seq(Entry) /\ NoDup(lru') /\ Len(lru') = Len(lru) + 1
      /\ Elements(lru') = Elements(lru) \cup {e}
  BY <1>1, <1>2, LruFacts, PushFront
<1>5. current_bytes' = Bytes(Elements(lru')) /\ current_bytes' \in Nat
  <2>1. Bytes(Elements(lru) \cup {e}) = Bytes(Elements(lru)) + EntrySize[e]
    BY <1>2, LruFacts, BytesAdd
  <2>2. current_bytes = Bytes(Elements(lru)) /\ current_bytes \in Nat
    BY DEF BytesExact, TypeOK
  <2>3. current_bytes' = current_bytes + EntrySize[e] /\ EntrySize[e] \in Nat
    BY <1>1, <1>2
  <2> HIDE DEF e, IInv
  <2> QED
    BY <1>4, <2>1, <2>2, <2>3
<1>6. \A u \in Thread : pc'[u] # "put"
  BY <1>1 DEF LockInv, TypeOK
<1> HIDE DEF e, k
<1>7. TypeOK'
  BY <1>1, <1>2, <1>4, <1>5, EmptySeq DEF TypeOK
<1>8. MapMatchesLru'
  <2>1. \A x \in Elements(lru') : map'[EntryKey[x]] = x
    <3> SUFFICES ASSUME NEW x \in Elements(lru') PROVE map'[EntryKey[x]] = x
      OBVIOUS
    <3>1. CASE x = e
      BY <1>1, <1>2, <3>1 DEF TypeOK, k
    <3>2. CASE x # e
      <4>1. x \in Elements(lru) /\ EntryKey[x] \in Key /\ map[EntryKey[x]] = x
        BY <1>4, <3>2, LruFacts
      <4>2. x # NoEntry
        BY <4>1, LruFacts, CacheAssumption
      <4>3. EntryKey[x] # k
        BY <1>2, <4>1, <4>2
      <4> QED
        BY <1>1, <4>1, <4>3 DEF TypeOK
    <3> QED
      BY <3>1, <3>2
  <2>2. \A h \in Key : map'[h] # NoEntry =>
              map'[h] \in Elements(lru') /\ EntryKey[map'[h]] = h
    <3> SUFFICES ASSUME NEW h \in Key, map'[h] # NoEntry
                 PROVE  map'[h] \in Elements(lru') /\ EntryKey[map'[h]] = h
      OBVIOUS
    <3>1. CASE h = k
      BY <1>1, <1>2, <1>4, <3>1 DEF TypeOK, k
    <3>2. CASE h # k
      <4>1. map'[h] = map[h]
        BY <1>1, <3>2 DEF TypeOK
      <4> QED
        BY <1>4, <4>1, LruFacts
    <3> QED
      BY <3>1, <3>2
  <2> QED
    BY <1>4, <2>1, <2>2 DEF MapMatchesLru, NoDup, Elements
<1>9. BytesExact' /\ CachedWasPut'
  BY <1>1, <1>2, <1>4, <1>5 DEF BytesExact, CachedWasPut
<1>10. WithinBudget'
  <2>1. CASE lru = <<>>
    <3>1. Len(lru') = 1
      BY <1>4, <2>1, EmptySeq
    <3> QED
      BY <3>1 DEF WithinBudget
  <2>2. CASE current_bytes + EntrySize[e] <= MaxBytes
    BY <1>1, <2>2 DEF WithinBudget
  <2> QED
    BY <1>3, <2>1, <2>2
<1>11. LockInv' /\ PutInv'
  BY <1>1, <1>6, BoundAssumption DEF LockInv, PutInv
<1> QED
  BY <1>7, <1>8, <1>9, <1>10, <1>11

\* flush empties everything.
LEMMA FlushStep ==
    ASSUME IInv, NEW t \in Thread, Flush(t)
    PROVE  IInv'
<1> USE DEF IInv
<1>1. /\ lru' = <<>> /\ map' = [k \in Key |-> NoEntry] /\ current_bytes' = 0
      /\ writer = NoThread
      /\ UNCHANGED <<hits, misses, evictions, writer, pc, key, entry, ret, used, before>>
  BY DEF Flush, stats
<1>2. Elements(lru') = {} /\ DOMAIN lru' = {}
  BY <1>1 DEF Elements
<1>3. TypeOK'
  BY <1>1, EmptySeq DEF TypeOK
<1>4. MapMatchesLru'
  BY <1>1, <1>2 DEF MapMatchesLru
<1>5. BytesExact'
  <2>1. Bytes({}) = Cardinality({})
    BY DEF Bytes
  <2> QED
    BY <1>1, <1>2, <2>1, FS_EmptySet DEF BytesExact
<1>6. WithinBudget' /\ CachedWasPut'
  BY <1>1, <1>2, CacheAssumption DEF WithinBudget, CachedWasPut
<1>7. LockInv' /\ PutInv'
  BY <1>1, BoundAssumption DEF LockInv, PutInv
<1> QED
  BY <1>3, <1>4, <1>5, <1>6, <1>7

\* Every step of every thread preserves the invariant.
LEMMA NextIInv == IInv /\ [Next]_vars => IInv'
<1> SUFFICES ASSUME IInv, [Next]_vars PROVE IInv'
  OBVIOUS
<1>1. CASE UNCHANGED vars
  <2>1. UNCHANGED <<lru, map, current_bytes, writer, entry, used>> /\ pc' = pc
    BY <1>1 DEF vars
  <2>2. TypeOK'
    BY <1>1 DEF vars, TypeOK, IInv
  <2> QED
    BY <2>1, <2>2, QuietStep
<1>2. ASSUME NEW t \in Thread,
             \/ \E k \in Key : GetMiss(t, k) \/ GetHit(t, k)
             \/ GetPromote(t)
      PROVE  IInv'
  BY <1>2, GetStep
<1>3. ASSUME NEW t \in Thread, NEW e \in Entry, PutBegin(t, e) PROVE IInv'
  BY <1>3, PutBeginStep
<1>4. ASSUME NEW t \in Thread, PutEvict(t) PROVE IInv'
  BY <1>4, PutEvictStep
<1>5. ASSUME NEW t \in Thread, PutInsert(t) PROVE IInv'
  BY <1>5, PutInsertStep
<1>6. ASSUME NEW t \in Thread, Flush(t) PROVE IInv'
  BY <1>6, FlushStep
<1> QED
  BY <1>1, <1>2, <1>3, <1>4, <1>5, <1>6 DEF Next

\* The invariant holds in every reachable state.
THEOREM CacheInvariant == Spec => []IInv
  BY InitIInv, NextIInv, PTL DEF Spec

\* Type correctness; current_bytes_ is a natural number: the size_t that
\* put, evict_lru_locked and flush maintain never wraps.
THEOREM TypeCorrect == Spec => []TypeOK
<1>1. IInv => TypeOK
  BY DEF IInv
<1> QED
  BY <1>1, CacheInvariant, PTL

\* map_ and lru_ agree at every step of every interleaving of get, put and
\* flush.
THEOREM MapAndListAgree == Spec => []MapMatchesLru
<1>1. IInv => MapMatchesLru
  BY DEF IInv
<1> QED
  BY <1>1, CacheInvariant, PTL

\* current_bytes_ is the total size of the cached entries.
THEOREM ByteCountExact == Spec => []BytesExact
<1>1. IInv => BytesExact
  BY DEF IInv
<1> QED
  BY <1>1, CacheInvariant, PTL

\* Between calls the cache is within max_bytes_ or holds one entry.
THEOREM BudgetKept == Spec => []WithinBudget
<1>1. IInv => WithinBudget
  BY DEF IInv
<1> QED
  BY <1>1, CacheInvariant, PTL

-----------------------------------------------------------------------------
(***************************************************************************)
(* CompileCache implements LruCache                                        *)
(***************************************************************************)

\* The atomic cache's operators are the ones of LruOps.
LEMMA SameOps ==
    /\ \A s, k : Lru!At(s, k) = At(s, k)
    /\ \A s, i : Lru!MoveToFront(s, i) = MoveToFront(s, i)
    /\ \A s : Lru!Elements(s) = Elements(s)
    /\ \A s, k : Lru!Without(s, k) = Without(s, k)
    /\ \A s, e : Lru!Keep(s, e) = Keep(s, e)
<1>1. \A s, k : Lru!At(s, k) = At(s, k)
  BY DEF Lru!At, At
<1>2. \A s, i : Lru!MoveToFront(s, i) = MoveToFront(s, i)
  BY DEF Lru!MoveToFront, MoveToFront, Lru!RemoveAt, RemoveAt
<1>3. \A s : Lru!Elements(s) = Elements(s)
  BY DEF Lru!Elements, Elements
<1>4. \A s, k : Lru!Without(s, k) = Without(s, k)
  BY DEF Lru!Without, Without, Lru!At, At, Lru!RemoveAt, RemoveAt
<1>5. \A T : Lru!Bytes(T) = Bytes(T)
  <2>1. \A e : Lru!Cells(e) = Cells(e)
    BY DEF Lru!Cells, Cells
  <2>2. \A T : {Lru!Cells(e) : e \in T} = {Cells(e) : e \in T}
    BY <2>1
  <2>3. \A T : Lru!Cardinality(T) = Cardinality(T)
    BY DEF Lru!Cardinality, Cardinality
  <2> QED
    BY <2>2, <2>3 DEF Lru!Bytes, Bytes
<1>6. \A s, e : Lru!Fitting(s, e) = Fitting(s, e)
  BY <1>3, <1>5 DEF Lru!Fitting, Fitting
<1>7. \A s, e : Lru!Keep(s, e) = Keep(s, e)
  BY <1>6 DEF Lru!Keep, Keep
<1> QED
  BY <1>1, <1>2, <1>3, <1>4, <1>7

\* What is left of the list the current put found, once its own key is out.
Rest(t) == Without(before, EntryKey[entry[t]])

(***************************************************************************)
(* In the loop of put the list is a prefix of Rest, and every longer       *)
(* prefix was too long: the loop evicts nothing it could have kept.        *)
(***************************************************************************)
LoopInv ==
    \A t \in Thread : pc[t] = "put" =>
        /\ entry[t] \notin Elements(before)
        /\ Rest(t) \in Seq(Entry)
        /\ Len(lru) <= Len(Rest(t))
        /\ \A i \in 1 .. Len(lru) : lru[i] = Rest(t)[i]
        /\ \A m \in Len(lru) + 1 .. Len(Rest(t)) :
              Bytes(Elements(SubSeq(Rest(t), 1, m))) + EntrySize[entry[t]] > MaxBytes

\* A key is at one position of the list at most, the one map_ points to.
LEMMA AtFacts ==
    ASSUME IInv, NEW k \in Key
    PROVE  /\ map[k] = NoEntry => At(lru, k) = {}
           /\ map[k] # NoEntry => At(lru, k) = {LruPos(map[k])}
<1>1. \A i \in DOMAIN lru : /\ lru[i] \in Elements(lru) /\ lru[i] # NoEntry
                            /\ map[EntryKey[lru[i]]] = lru[i]
  BY LruFacts, CacheAssumption DEF Elements
<1>2. CASE map[k] = NoEntry
  BY <1>1, <1>2 DEF At
<1>3. CASE map[k] # NoEntry
  <2>1. /\ LruPos(map[k]) \in DOMAIN lru /\ lru[LruPos(map[k])] = map[k]
        /\ EntryKey[map[k]] = k
    BY <1>3, LruFacts, LruPosFacts
  <2>2. \A i \in At(lru, k) : lru[i] = map[k]
    BY <1>1 DEF At
  <2>3. \A i \in At(lru, k) : i = LruPos(map[k])
    BY <2>1, <2>2, LruFacts DEF At, NoDup
  <2> QED
    BY <1>3, <2>1, <2>3 DEF At
<1> QED
  BY <1>2, <1>3

\* A list is determined by its elements in order.
LEMMA PrefixIs ==
    ASSUME NEW r \in Seq(Entry), NEW s \in Seq(Entry), Len(s) <= Len(r),
           \A i \in 1 .. Len(s) : s[i] = r[i]
    PROVE  SubSeq(r, 1, Len(s)) = s
<1> DEFINE n == Len(s)
           q == SubSeq(r, 1, n)
<1>1. n \in Nat /\ Len(r) \in Nat
  BY LenProperties
<1>2. \A i \in 1 .. n : r[i] \in Entry
  BY <1>1, ElementOfSeq
<1>3. /\ q \in Seq(Entry) /\ Len(q) = IF 1 <= n THEN n - 1 + 1 ELSE 0
      /\ \A i \in 1 .. n - 1 + 1 : q[i] = r[1 + i - 1]
  BY <1>1, <1>2, SubSeqProperties
<1> HIDE DEF q, n
<1>4. Len(q) = n /\ \A i \in 1 .. n : q[i] = r[i]
  <2>1. Len(q) = n
    BY <1>1, <1>3
  <2>2. ASSUME NEW i \in 1 .. n PROVE q[i] = r[i]
    <3>1. i \in 1 .. n - 1 + 1 /\ 1 + i - 1 = i
      BY <1>1
    <3> QED
      BY <1>3, <3>1
  <2> QED
    BY <2>1, <2>2
<1>5. q = s
  BY <1>3, <1>4, SeqEqual DEF n
<1> QED
  BY <1>5 DEF q, n

\* Every step preserves LoopInv.
LEMMA NextLoopInv == IInv /\ LoopInv /\ [Next]_vars => LoopInv'
<1> SUFFICES ASSUME IInv, LoopInv, [Next]_vars PROVE LoopInv'
  OBVIOUS
<1>1. ASSUME UNCHANGED <<lru, entry, before>>,
             \A u \in Thread : pc'[u] = "put" => pc[u] = "put"
      PROVE  LoopInv'
  <2>1. \A u \in Thread : Rest(u)' = Rest(u)
    BY <1>1 DEF Rest
  <2> QED
    BY <1>1, <2>1 DEF LoopInv
<1>2. ASSUME \A u \in Thread : pc'[u] # "put" PROVE LoopInv'
  BY <1>2 DEF LoopInv
<1>3. CASE UNCHANGED vars
  BY <1>1, <1>3 DEF vars
<1>4. ASSUME NEW t \in Thread, NEW k \in Key, GetMiss(t, k) \/ GetHit(t, k)
      PROVE  LoopInv'
  BY <1>1, <1>4 DEF GetMiss, GetHit, Return, Goto, table, IInv, TypeOK
<1>5. ASSUME NEW t \in Thread, GetPromote(t) \/ PutInsert(t) \/ Flush(t)
      PROVE  LoopInv'
  <2>1. \A u \in Thread : pc'[u] # "put"
    BY <1>5, BoundAssumption
    DEF GetPromote, PutInsert, Flush, Return, Goto, IInv, TypeOK, LockInv
  <2> QED
    BY <1>2, <2>1
<1>6. ASSUME NEW t \in Thread, NEW e \in Entry, PutBegin(t, e)
      PROVE  LoopInv'
  <2> DEFINE k == EntryKey[e]
  <2>1. /\ \A u \in Thread : pc'[u] = "put" => u = t
        /\ entry'[t] = e /\ before' = lru /\ e \notin used /\ k \in Key
    BY <1>6, BoundAssumption, CacheAssumption
    DEF PutBegin, Goto, IInv, TypeOK, LockInv
  <2>2. e \notin Elements(before')
    BY <2>1 DEF IInv, CachedWasPut
  <2>3. Rest(t)' = lru'
    <3>1. Rest(t)' = Without(lru, k)
      BY <2>1 DEF Rest
    <3>2. CASE map[k] = NoEntry
      BY <1>6, <2>1, <3>1, <3>2, AtFacts DEF PutBegin, table, Without
    <3>3. CASE map[k] # NoEntry
      <4>1. lru' = RemoveAt(lru, LruPos(map[k]))
        BY <1>6, <3>3 DEF PutBegin
      <4>2. At(lru, k) = {LruPos(map[k])}
        BY <2>1, <3>3, AtFacts
      <4>3. (CHOOSE i \in At(lru, k) : TRUE) = LruPos(map[k])
        BY <4>2
      <4> QED
        BY <3>1, <4>1, <4>2, <4>3 DEF Without
    <3> QED
      BY <3>2, <3>3
  <2>4. lru' \in Seq(Entry) /\ Len(lru') \in Nat
    <3>1. IInv'
      BY <1>6, PutBeginStep
    <3> QED
      BY <3>1, LenProperties DEF IInv, TypeOK
  <2> QED
    BY <2>1, <2>2, <2>3, <2>4 DEF LoopInv
<1>7. ASSUME NEW t \in Thread, PutEvict(t) PROVE LoopInv'
  <2>1. /\ pc[t] = "put" /\ lru # <<>> /\ lru' = Front(lru)
        /\ current_bytes + EntrySize[entry[t]] > MaxBytes
        /\ UNCHANGED <<pc, entry, before>>
        /\ \A u \in Thread : pc[u] = "put" => u = t
    BY <1>7 DEF PutEvict, NoRoom, IInv, LockInv
  <2>2. /\ Rest(t)' = Rest(t) /\ Rest(t) \in Seq(Entry) /\ Len(Rest(t)) \in Nat
        /\ Len(lru) <= Len(Rest(t))
        /\ \A i \in 1 .. Len(lru) : lru[i] = Rest(t)[i]
        /\ entry[t] \notin Elements(before)
        /\ \A m \in Len(lru) + 1 .. Len(Rest(t)) :
              Bytes(Elements(SubSeq(Rest(t), 1, m))) + EntrySize[entry[t]] > MaxBytes
    BY <2>1, LenProperties DEF LoopInv, Rest
  <2>3. /\ Len(lru') = Len(lru) - 1 /\ Len(lru) \in Nat \ {0}
        /\ \A i \in 1 .. Len(lru) - 1 : lru'[i] = lru[i]
    BY <2>1, LruFacts, FrontFacts
  <2>4. Bytes(Elements(SubSeq(Rest(t), 1, Len(lru)))) + EntrySize[entry[t]] > MaxBytes
    <3>1. SubSeq(Rest(t), 1, Len(lru)) = lru
      BY <2>2, LruFacts, PrefixIs
    <3> QED
      BY <2>1, <3>1 DEF IInv, BytesExact
  <2>5. \A m \in Len(lru') + 1 .. Len(Rest(t)) :
           Bytes(Elements(SubSeq(Rest(t), 1, m))) + EntrySize[entry[t]] > MaxBytes
    <3> SUFFICES ASSUME NEW m \in Len(lru') + 1 .. Len(Rest(t))
                 PROVE  Bytes(Elements(SubSeq(Rest(t), 1, m))) + EntrySize[entry[t]] > MaxBytes
      OBVIOUS
    <3>1. m = Len(lru) \/ m \in Len(lru) + 1 .. Len(Rest(t))
      BY <2>2, <2>3
    <3> QED
      BY <2>2, <2>4, <3>1
  <2>6. Len(lru') <= Len(Rest(t)) /\ \A i \in 1 .. Len(lru') : lru'[i] = Rest(t)[i]
    BY <2>2, <2>3
  <2> QED
    BY <2>1, <2>2, <2>5, <2>6 DEF LoopInv
<1> QED
  BY <1>3, <1>4, <1>5, <1>6, <1>7 DEF Next

\* Every step of the implementation is a step of the atomic cache, or none.
LEMMA NextSimulation ==
    IInv /\ IInv' /\ LoopInv /\ [Next]_vars => [Lru!Next]_(Lru!lruVars)
<1> DEFINE order == IF writer = NoThread THEN lru ELSE before
<1> SUFFICES ASSUME IInv, IInv', LoopInv, [Next]_vars
             PROVE  Lru!Next \/ (order' = order /\ ret' = ret)
  BY DEF Lru!lruVars
<1>1. CASE UNCHANGED vars
  BY <1>1 DEF vars
<1>2. ASSUME NEW t \in Thread, NEW k \in Key, writer = NoThread, writer' = NoThread,
             map[k] = NoEntry, lru' = lru, ret' = [ret EXCEPT ![t] = NoEntry]
      PROVE  Lru!Next
  <2>1. At(lru, k) = {}
    BY <1>2, AtFacts
  <2>2. Lru!Lookup(t, k)
    BY <1>2, <2>1, SameOps DEF Lru!Lookup
  <2> QED
    BY <2>2 DEF Lru!Next
<1>3. ASSUME NEW t \in Thread, NEW k \in Key, GetMiss(t, k) PROVE Lru!Next
  BY <1>2, <1>3 DEF GetMiss, Return, table
<1>4. ASSUME NEW t \in Thread, NEW k \in Key, GetHit(t, k)
      PROVE  order' = order /\ ret' = ret
  BY <1>4 DEF GetHit, table
<1>5. ASSUME NEW t \in Thread, GetPromote(t) PROVE Lru!Next
  <2> DEFINE k == key[t]
             i == LruPos(map[k])
  <2>1. k \in Key /\ writer = NoThread /\ writer' = NoThread
    BY <1>5 DEF GetPromote, IInv, TypeOK
  <2>2. CASE map[k] = NoEntry
    BY <1>2, <1>5, <2>1, <2>2 DEF GetPromote, Return
  <2>3. CASE map[k] # NoEntry
    <3>1. lru' = MoveToFront(lru, i) /\ ret' = [ret EXCEPT ![t] = map[k]]
      BY <1>5, <2>3 DEF GetPromote, Return
    <3>2. i \in At(lru, k) /\ lru[i] = map[k]
      BY <2>1, <2>3, AtFacts, LruFacts, LruPosFacts
    <3>3. Lru!Lookup(t, k)
      BY <2>1, <3>1, <3>2, SameOps DEF Lru!Lookup
    <3> QED
      BY <2>1, <3>3 DEF Lru!Next
  <2> QED
    BY <2>2, <2>3
<1>6. ASSUME NEW t \in Thread, NEW e \in Entry, PutBegin(t, e)
      PROVE  order' = order /\ ret' = ret
  BY <1>6, BoundAssumption DEF PutBegin
<1>7. ASSUME NEW t \in Thread, PutEvict(t) PROVE order' = order /\ ret' = ret
  BY <1>7, BoundAssumption DEF PutEvict, IInv, LockInv
<1>8. ASSUME NEW t \in Thread, PutInsert(t) PROVE Lru!Next
  <2> DEFINE e == entry[t]
             n == Len(lru)
  <2>1. /\ pc[t] = "put" /\ writer = t /\ writer' = NoThread /\ t # NoThread
        /\ lru' = <<e>> \o lru /\ ret' = [ret EXCEPT ![t] = e] /\ e \in Entry
    BY <1>8, BoundAssumption
    DEF PutInsert, Return, IInv, LockInv, PutInv, TypeOK
  <2>2. /\ Rest(t) \in Seq(Entry) /\ Len(Rest(t)) \in Nat /\ n \in Nat
        /\ n <= Len(Rest(t)) /\ \A i \in 1 .. n : lru[i] = Rest(t)[i]
        /\ e \notin Elements(before)
        /\ \A m \in n + 1 .. Len(Rest(t)) :
              Bytes(Elements(SubSeq(Rest(t), 1, m))) + EntrySize[e] > MaxBytes
    BY <2>1, LruFacts, LenProperties DEF LoopInv
  <2>3. SubSeq(Rest(t), 1, n) = lru
    BY <2>2, LruFacts, PrefixIs
  <2>4. n \in Fitting(Rest(t), e)
    <3>1. n = 0 \/ current_bytes + EntrySize[e] <= MaxBytes
      BY <1>8, <2>1, CacheAssumption, EmptySeq DEF PutInsert, NoRoom, IInv, TypeOK
    <3>2. n = 0 \/ Bytes(Elements(SubSeq(Rest(t), 1, n))) + EntrySize[e] <= MaxBytes
      BY <2>3, <3>1 DEF IInv, BytesExact
    <3>3. n \in 0 .. Len(Rest(t))
      BY <2>2
    <3> HIDE DEF n, e
    <3> QED
      BY <3>2, <3>3 DEF Fitting
  <2>5. ASSUME NEW m \in Fitting(Rest(t), e) PROVE m <= n
    <3>1. CASE m \in n + 1 .. Len(Rest(t))
      <4>1. /\ Bytes(Elements(SubSeq(Rest(t), 1, m))) + EntrySize[e] <= MaxBytes
            /\ Bytes(Elements(SubSeq(Rest(t), 1, m))) + EntrySize[e] > MaxBytes
        BY <2>2, <2>5, <3>1 DEF Fitting
      <4>2. Bytes(Elements(SubSeq(Rest(t), 1, m))) \in Nat /\ EntrySize[e] \in Nat
        <5>1. \A j \in 1 .. m : Rest(t)[j] \in Entry
          BY <2>2, <3>1, ElementOfSeq
        <5>2. SubSeq(Rest(t), 1, m) \in Seq(Entry)
          BY <2>2, <3>1, <5>1, SubSeqProperties
        <5>3. Elements(SubSeq(Rest(t), 1, m)) \in SUBSET Entry
          BY <5>2, ElementOfSeq, LenProperties DEF Elements
        <5> QED
          BY <2>1, <5>2, <5>3, ElementsFinite, CellsUnionFinite, CacheAssumption
      <4> QED
        BY <4>1, <4>2, CacheAssumption
    <3>2. CASE m \notin n + 1 .. Len(Rest(t))
      BY <2>2, <2>5, <3>2 DEF Fitting
    <3> QED
      BY <3>1, <3>2
  <2>6. Keep(Rest(t), e) = lru
    <3> DEFINE F == Fitting(Rest(t), e)
               h == CHOOSE m \in F : \A j \in F : j <= m
    <3>1. h \in F /\ \A j \in F : j <= h
      BY <2>4, <2>5
    <3>2. F \subseteq Nat
      BY DEF Fitting
    <3> HIDE DEF F
    <3>3. h = n
      BY <2>4, <2>5, <3>1, <3>2 DEF F
    <3> QED
      BY <2>3, <3>3 DEF Keep, F
  <2>7. Lru!Store(t, e)
    BY <2>1, <2>2, <2>6, SameOps DEF Lru!Store, Rest
  <2> QED
    BY <2>1, <2>7 DEF Lru!Next
<1>9. ASSUME NEW t \in Thread, Flush(t) PROVE Lru!Next
  BY <1>9 DEF Flush, Lru!Next, Lru!Clear
<1> QED
  BY <1>1, <1>3, <1>4, <1>5, <1>6, <1>7, <1>8, <1>9 DEF Next

\* The compile cache implements the atomic byte-bounded LRU cache: no caller
\* can tell the two-lock get and the looping put from single steps, and put
\* evicts the least recently used entries that must go and no others.
THEOREM Refinement == Spec => ImplementsLru
<1>1. Init => Lru!Init
  BY DEF Init, Lru!Init
<1>2. Init => LoopInv
  BY DEF Init, LoopInv
<1>3. Spec => []LoopInv
  BY <1>2, CacheInvariant, NextLoopInv, PTL DEF Spec
<1> QED
  BY <1>1, <1>3, CacheInvariant, NextSimulation, PTL
  DEF Spec, ImplementsLru, Lru!Spec
=============================================================================
