-------------------------- MODULE BufferPoolProofs --------------------------
(***************************************************************************)
(* Proofs about BufferPool, for any number of threads, buffers, sizes and  *)
(* requests: the safety properties and that a call returns its own result. *)
(***************************************************************************)
EXTENDS BufferPool, TLAPS

(***************************************************************************)
(* The inductive invariant IInv.  The properties of the model are split    *)
(* into what the lists satisfy (Filed, Once), who owns what (Apart) and    *)
(* what each thread may rely on at each place of its call (ThreadOK).      *)
(***************************************************************************)
Filed == \A n \in Size : \A i \in DOMAIN idle[n] : bytes[idle[n][i]] = n

Once ==
    \A n, m \in Size : \A i \in DOMAIN idle[n], j \in DOMAIN idle[m] :
        idle[n][i] = idle[m][j] => n = m /\ i = j

Apart ==
    /\ \A t, u \in Thread : t # u => Held(t) \cap Held(u) = {}
    /\ \A t \in Thread : inb[t] = outb[t] => inb[t] = NoBuffer
    /\ \A t \in Thread : Held(t) \cap Pooled = {}

\* The buffers thread t holds at each place of the call, their sizes, their
\* metadata and their contents.
ThreadOK(t) ==
    /\ inb[t] = NoBuffer <=> pc[t] = "idle"
    /\ outb[t] = NoBuffer <=> pc[t] \in {"idle", "copy in", "acquire out", "release in"}
    /\ inb[t] # NoBuffer => /\ bytes[inb[t]] = InBytes(req[t])
                            /\ layout[inb[t]] = req[t].lay
    /\ outb[t] # NoBuffer => /\ bytes[outb[t]] = req[t].m
                             /\ layout[outb[t]] = NoLayout
    /\ pc[t] \in {"acquire out", "run", "copy out"} => content[inb[t]] = req[t].d
    /\ pc[t] = "copy out" => content[outb[t]] = F[req[t].d]

IInv ==
    /\ TypeOK /\ IdleBounded /\ Filed /\ Once /\ Apart /\ NoLeak
    /\ \A t \in Thread : ThreadOK(t)

-----------------------------------------------------------------------------
(***************************************************************************)
(* Sequences                                                               *)
(***************************************************************************)

\* Popping the back of a list keeps the other positions.
LEMMA PopFacts ==
    ASSUME NEW S, NEW s \in Seq(S), s # <<>>
    PROVE  /\ Last(s) \in S
           /\ Len(s) \in DOMAIN s /\ s[Len(s)] = Last(s)
           /\ Front(s) \in Seq(S)
           /\ Len(Front(s)) = Len(s) - 1
           /\ \A i \in DOMAIN Front(s) : i \in DOMAIN s /\ i # Len(s) /\ Front(s)[i] = s[i]
           /\ \A i \in DOMAIN s : i # Len(s) => i \in DOMAIN Front(s)
<1>1. Len(s) \in Nat /\ Len(s) >= 1 /\ DOMAIN s = 1 .. Len(s)
  OBVIOUS
<1>2. Last(s) = s[Len(s)] /\ Last(s) \in S
  BY <1>1 DEF Last
<1>3. Front(s) = SubSeq(s, 1, Len(s) - 1)
  BY DEF Front
<1>4. Front(s) \in Seq(S) /\ Len(Front(s)) = Len(s) - 1
  BY <1>1, <1>3
<1>5. DOMAIN Front(s) = 1 .. (Len(s) - 1)
  BY <1>1, <1>4
<1>6. \A i \in 1 .. (Len(s) - 1) : Front(s)[i] = s[i]
  BY <1>1, <1>3
<1> QED BY <1>1, <1>2, <1>4, <1>5, <1>6

\* Appending keeps the old positions and adds the last.
LEMMA AppendFacts ==
    ASSUME NEW S, NEW s \in Seq(S), NEW x \in S
    PROVE  /\ Append(s, x) \in Seq(S)
           /\ Len(Append(s, x)) = Len(s) + 1
           /\ \A i \in DOMAIN s : i \in DOMAIN Append(s, x) /\ Append(s, x)[i] = s[i]
           /\ \A i \in DOMAIN Append(s, x) : i \in DOMAIN s \/ (i = Len(s) + 1 /\ Append(s, x)[i] = x)
           /\ Len(s) + 1 \in DOMAIN Append(s, x) /\ Append(s, x)[Len(s) + 1] = x
           /\ Len(s) + 1 \notin DOMAIN s
OBVIOUS

\* InBytes is one of the sizes.
LEMMA InBytesSize ==
    ASSUME NEW r \in Request
    PROVE  InBytes(r) \in Size
BY PoolAssumption DEF InBytes, Request

-----------------------------------------------------------------------------
(***************************************************************************)
(* What acquire and release do to the pool.                                *)
(***************************************************************************)

\* A buffer is pooled when some list holds it.
LEMMA PooledFacts ==
    /\ \A n \in Size : \A i \in DOMAIN idle[n] : idle[n][i] \in Pooled
    /\ \A b \in Pooled : \E n \in Size : \E i \in DOMAIN idle[n] : idle[n][i] = b
BY DEF Pooled

\* acquire hands out a buffer that nobody holds and that leaves the pool.
LEMMA AcquireFacts ==
    ASSUME IInv,
           NEW n \in Size, NEW lay \in Layout \cup {NoLayout}, NEW b \in Buffer,
           Acquire(n, lay, b)
    PROVE  /\ idle' \in [Size -> Seq(Buffer)]
           /\ alive' = alive \cup {b}
           /\ bytes' \in [Buffer -> Size]
           /\ layout' \in [Buffer -> Layout \cup {NoLayout}]
           /\ content' \in [Buffer -> Value]
           /\ \A u \in Thread : b \notin Held(u)
           /\ bytes'[b] = n /\ layout'[b] = lay
           /\ \A c \in Buffer \ {b} : /\ bytes'[c] = bytes[c]
                                      /\ layout'[c] = layout[c]
                                      /\ content'[c] = content[c]
           /\ IdleBounded' /\ Filed' /\ Once'
           /\ Pooled' = Pooled \ {b}
<1> USE DEF IInv
<1>lay. layout' \in [Buffer -> Layout \cup {NoLayout}] /\ layout'[b] = lay
        /\ \A c \in Buffer \ {b} : layout'[c] = layout[c]
  BY DEF TypeOK, Acquire
<1>1. CASE idle[n] # <<>>
  <2>1. b = Last(idle[n]) /\ idle' = [idle EXCEPT ![n] = Front(@)]
        /\ alive' = alive /\ bytes' = bytes /\ content' = content
    BY <1>1 DEF Acquire
  <2>2. idle[n] \in Seq(Buffer)
    BY DEF TypeOK
  <2> DEFINE f == Front(idle[n])
             l == Len(idle[n])
  <2>3. /\ l \in DOMAIN idle[n] /\ idle[n][l] = b
        /\ f \in Seq(Buffer) /\ Len(f) = l - 1
        /\ \A i \in DOMAIN f : i \in DOMAIN idle[n] /\ i # l /\ f[i] = idle[n][i]
        /\ \A i \in DOMAIN idle[n] : i # l => i \in DOMAIN f
    BY <1>1, <2>1, <2>2, PopFacts
  <2>4. /\ idle' \in [Size -> Seq(Buffer)]
        /\ idle'[n] = f
        /\ \A m \in Size : m # n => idle'[m] = idle[m]
    BY <2>1, <2>3 DEF TypeOK
  <2> HIDE DEF f, l
  <2>5. \A u \in Thread : b \notin Held(u)
    BY <2>3, PooledFacts DEF Apart
  <2>6. b \in Pooled /\ b \in alive
    BY <2>3, PooledFacts DEF NoLeak
  <2>7. bytes[b] = n
    BY <2>3 DEF Filed
  <2>8. \A m \in Size : \A i \in DOMAIN idle'[m] :
           i \in DOMAIN idle[m] /\ idle'[m][i] = idle[m][i]
    BY <2>3, <2>4
  <2>9. ASSUME NEW m \in Size, NEW i \in DOMAIN idle'[m]
        PROVE  idle'[m][i] # b
    <3>1. i \in DOMAIN idle[m] /\ idle'[m][i] = idle[m][i]
      BY <2>8
    <3>2. m = n => i # l
      BY <2>3, <2>4
    <3> QED BY <3>1, <3>2, <2>3 DEF Once
  <2>10. IdleBounded'
    <3>1. Len(f) <= MaxIdle
      <4>1. l \in Nat /\ l <= MaxIdle
        BY <2>2 DEF IdleBounded, l
      <4> QED BY <4>1, <2>3, PoolAssumption
    <3>2. \A m \in Size : Len(idle'[m]) <= MaxIdle
      BY <3>1, <2>4 DEF IdleBounded
    <3> QED BY <3>2 DEF IdleBounded
  <2>11. Filed'
    BY <2>1, <2>8 DEF Filed
  <2>12. Once'
    BY <2>8 DEF Once
  <2>13. Pooled' = Pooled \ {b}
    <3>1. \A c \in Pooled' : c \in Pooled /\ c # b
      <4> SUFFICES ASSUME NEW c \in Pooled' PROVE c \in Pooled /\ c # b
        OBVIOUS
      <4>0. PICK m \in Size : \E i \in DOMAIN idle'[m] : idle'[m][i] = c
        BY DEF Pooled
      <4>1. PICK i \in DOMAIN idle'[m] : idle'[m][i] = c
        BY <4>0
      <4> QED BY <4>1, <2>8, <2>9, PooledFacts
    <3>2. \A c \in Pooled : c # b => c \in Pooled'
      <4> SUFFICES ASSUME NEW c \in Pooled, c # b PROVE c \in Pooled'
        OBVIOUS
      <4>0. PICK m \in Size : \E i \in DOMAIN idle[m] : idle[m][i] = c
        BY PooledFacts
      <4>1. PICK i \in DOMAIN idle[m] : idle[m][i] = c
        BY <4>0
      <4>2. i \in DOMAIN idle'[m] /\ idle'[m][i] = c
        BY <4>1, <2>3, <2>4, <2>8
      <4> QED BY <4>2 DEF Pooled
    <3> QED BY <3>1, <3>2
  <2>14. /\ alive' = alive \cup {b}
         /\ bytes' \in [Buffer -> Size] /\ content' \in [Buffer -> Value]
         /\ bytes'[b] = n
         /\ \A c \in Buffer \ {b} : bytes'[c] = bytes[c] /\ content'[c] = content[c]
    BY <2>1, <2>6, <2>7 DEF TypeOK
  <2> QED
    BY <1>lay, <2>4, <2>5, <2>10, <2>11, <2>12, <2>13, <2>14
<1>2. CASE idle[n] = <<>>
  <2>1. /\ b \notin alive /\ alive' = alive \cup {b}
        /\ bytes' = [bytes EXCEPT ![b] = n]
        /\ content' = [content EXCEPT ![b] = Junk]
        /\ idle' = idle
    BY <1>2 DEF Acquire
  <2>2. \A u \in Thread : b \notin Held(u)
    BY <2>1 DEF NoLeak
  <2>3. b \notin Pooled
    BY <2>1 DEF NoLeak
  <2>4. Pooled' = Pooled \ {b}
    BY <2>1, <2>3 DEF Pooled
  <2>5. IdleBounded' /\ Once'
    BY <2>1 DEF IdleBounded, Once
  <2>6. Filed'
    <3>1. ASSUME NEW m \in Size, NEW i \in DOMAIN idle[m]
          PROVE  bytes'[idle[m][i]] = m
      <4>0. idle[m] \in Seq(Buffer)
        BY DEF TypeOK
      <4>1. idle[m][i] \in Pooled /\ idle[m][i] \in Buffer
        BY <4>0, PooledFacts
      <4> QED BY <4>1, <2>1, <2>3 DEF Filed, TypeOK
    <3> QED BY <3>1, <2>1 DEF Filed
  <2>7. /\ idle' \in [Size -> Seq(Buffer)]
        /\ bytes' \in [Buffer -> Size] /\ content' \in [Buffer -> Value]
        /\ bytes'[b] = n
        /\ \A c \in Buffer \ {b} : bytes'[c] = bytes[c] /\ content'[c] = content[c]
    <3>1. Junk \in Value
      BY PoolAssumption
    <3> QED BY <2>1, <3>1 DEF TypeOK
  <2>8. alive' = alive \cup {b}
    BY <2>1
  <2> QED
    BY <1>lay, <2>2, <2>4, <2>5, <2>6, <2>7, <2>8
<1> QED BY <1>1, <1>2

\* release puts a held buffer at the back of the list of its size, or destroys
\* it.
LEMMA ReleaseFacts ==
    ASSUME IInv, NEW t \in Thread, NEW b \in Held(t), Release(b)
    PROVE  /\ b \in Buffer
           /\ idle' \in [Size -> Seq(Buffer)]
           /\ bytes' = bytes /\ layout' = layout /\ content' = content
           /\ IdleBounded' /\ Filed' /\ Once'
           /\ \/ alive' = alive /\ Pooled' = Pooled \cup {b}
              \/ alive' = alive \ {b} /\ Pooled' = Pooled
           /\ b \notin Pooled
<1> USE DEF IInv
<1>1. b \in Buffer /\ b \in alive
  BY DEF TypeOK, Held, NoLeak
<1> DEFINE n == bytes[b]
<1>2. n \in Size /\ idle[n] \in Seq(Buffer)
  BY <1>1 DEF TypeOK
<1>3. b \notin Pooled
  BY PooledFacts DEF Apart
<1>4. bytes' = bytes /\ layout' = layout /\ content' = content
  BY DEF Release
<1>5. CASE Len(idle[n]) < MaxIdle
  <2>1. idle' = [idle EXCEPT ![n] = Append(@, b)] /\ alive' = alive
    BY <1>5 DEF Release
  <2> DEFINE s == Append(idle[n], b)
             l == Len(idle[n]) + 1
  <2>2. /\ s \in Seq(Buffer) /\ Len(s) = l
        /\ \A i \in DOMAIN idle[n] : i \in DOMAIN s /\ s[i] = idle[n][i]
        /\ \A i \in DOMAIN s : i \in DOMAIN idle[n] \/ (i = l /\ s[i] = b)
        /\ l \in DOMAIN s /\ s[l] = b
    BY <1>1, <1>2, AppendFacts
  <2>3. /\ idle' \in [Size -> Seq(Buffer)]
        /\ idle'[n] = s
        /\ \A m \in Size : m # n => idle'[m] = idle[m]
    BY <1>2, <2>1, <2>2 DEF TypeOK
  <2>4. IdleBounded'
    <3>1. Len(s) <= MaxIdle
      BY <1>2, <1>5, <2>2, PoolAssumption
    <3>2. \A m \in Size : Len(idle'[m]) <= MaxIdle
      BY <3>1, <2>3 DEF IdleBounded
    <3> QED BY <3>2 DEF IdleBounded
  <2> HIDE DEF s, l
  <2>5. \A m \in Size : \A i \in DOMAIN idle[m] :
           i \in DOMAIN idle'[m] /\ idle'[m][i] = idle[m][i]
    BY <2>2, <2>3
  <2>6. \A m \in Size : \A i \in DOMAIN idle'[m] :
           i \in DOMAIN idle[m] \/ (idle'[m][i] = b /\ m = n /\ i = l)
    BY <2>2, <2>3
  <2>7. Filed'
    <3>1. ASSUME NEW m \in Size, NEW i \in DOMAIN idle'[m]
          PROVE  bytes'[idle'[m][i]] = m
      BY <1>4, <2>5, <2>6 DEF Filed
    <3> QED BY <3>1 DEF Filed
  <2>8. Once'
    <3>1. ASSUME NEW m \in Size, NEW k \in Size,
                 NEW i \in DOMAIN idle'[m], NEW j \in DOMAIN idle'[k],
                 idle'[m][i] = idle'[k][j]
          PROVE  m = k /\ i = j
      <4>1. CASE i \in DOMAIN idle[m] /\ j \in DOMAIN idle[k]
        BY <3>1, <4>1, <2>5 DEF Once
      <4>2. CASE i \in DOMAIN idle[m] /\ j \notin DOMAIN idle[k]
        <5>1. idle[m][i] = b
          BY <3>1, <4>2, <2>5, <2>6
        <5> QED BY <5>1, <4>2, <1>3, PooledFacts
      <4>3. CASE i \notin DOMAIN idle[m] /\ j \in DOMAIN idle[k]
        <5>1. idle[k][j] = b
          BY <3>1, <4>3, <2>5, <2>6
        <5> QED BY <5>1, <4>3, <1>3, PooledFacts
      <4>4. CASE i \notin DOMAIN idle[m] /\ j \notin DOMAIN idle[k]
        BY <4>4, <2>6
      <4> QED BY <4>1, <4>2, <4>3, <4>4
    <3> QED BY <3>1 DEF Once
  <2>9. Pooled' = Pooled \cup {b}
    <3>1. \A c \in Pooled' : c \in Pooled \/ c = b
      <4> SUFFICES ASSUME NEW c \in Pooled' PROVE c \in Pooled \/ c = b
        OBVIOUS
      <4>0. PICK m \in Size : \E i \in DOMAIN idle'[m] : idle'[m][i] = c
        BY DEF Pooled
      <4>1. PICK i \in DOMAIN idle'[m] : idle'[m][i] = c
        BY <4>0
      <4> QED BY <4>1, <2>5, <2>6, PooledFacts
    <3>2. \A c \in Pooled : c \in Pooled'
      <4> SUFFICES ASSUME NEW c \in Pooled PROVE c \in Pooled'
        OBVIOUS
      <4>0. PICK m \in Size : \E i \in DOMAIN idle[m] : idle[m][i] = c
        BY PooledFacts
      <4>1. PICK i \in DOMAIN idle[m] : idle[m][i] = c
        BY <4>0
      <4> QED BY <4>1, <2>5 DEF Pooled
    <3>3. b \in Pooled'
      <4>1. l \in DOMAIN idle'[n] /\ idle'[n][l] = b
        BY <2>2, <2>3
      <4> QED BY <4>1, <1>2 DEF Pooled
    <3> QED BY <3>1, <3>2, <3>3
  <2> QED
    BY <1>1, <1>3, <1>4, <2>1, <2>3, <2>4, <2>7, <2>8, <2>9
<1>6. CASE ~(Len(idle[n]) < MaxIdle)
  <2>1. alive' = alive \ {b} /\ idle' = idle
    BY <1>6 DEF Release
  <2>2. IdleBounded' /\ Filed' /\ Once' /\ Pooled' = Pooled /\ idle' \in [Size -> Seq(Buffer)]
    <3>1. IdleBounded' /\ idle' \in [Size -> Seq(Buffer)]
      BY <2>1 DEF TypeOK, IdleBounded
    <3>4. Pooled' = Pooled
      BY <2>1 DEF Pooled
    <3>2. Filed'
      BY <2>1, <1>4 DEF Filed
    <3>3. Once'
      BY <2>1 DEF Once
    <3> QED BY <3>1, <3>2, <3>3, <3>4
  <2> QED
    BY <1>1, <1>3, <1>4, <2>1, <2>2
<1> QED BY <1>5, <1>6

-----------------------------------------------------------------------------
(***************************************************************************)
(* The inductive invariant.                                                *)
(***************************************************************************)

\* The initial state: nothing is allocated.
LEMMA InitInv == Init => IInv
<1> SUFFICES ASSUME Init PROVE IInv
  OBVIOUS
<1> USE DEF Init
<1>1. (CHOOSE n \in Size : TRUE) \in Size /\ (CHOOSE r \in Requests : TRUE) \in Request
  BY PoolAssumption
<1>2. TypeOK
  <2>1. Junk \in Value
    BY PoolAssumption
  <2>2. idle \in [Size -> Seq(Buffer)]
    OBVIOUS
  <2> QED BY <1>1, <2>1, <2>2 DEF TypeOK
<1>3. \A n \in Size : DOMAIN idle[n] = {} /\ Len(idle[n]) = 0
  OBVIOUS
<1>4. \A t \in Thread : Held(t) = {}
  BY DEF Held
<1>5. Pooled = {}
  BY <1>3 DEF Pooled
<1>6. Filed /\ Once /\ Apart
  BY <1>3, <1>4 DEF Filed, Once, Apart
<1>7. IdleBounded
  BY <1>3, PoolAssumption DEF IdleBounded
<1>8. NoLeak
  BY <1>4, <1>5 DEF NoLeak
<1>9. \A t \in Thread : ThreadOK(t)
  BY DEF ThreadOK
<1> QED BY <1>2, <1>6, <1>7, <1>8, <1>9 DEF IInv

\* Guards hold buffers.
LEMMA HeldBuffers == ASSUME TypeOK, NEW u \in Thread PROVE Held(u) \subseteq Buffer
<1>1. inb[u] \in Buffer \cup {NoBuffer} /\ outb[u] \in Buffer \cup {NoBuffer}
  BY DEF TypeOK
<1> QED BY <1>1 DEF Held

\* A thread whose own state and buffers a step leaves alone keeps ThreadOK.
LEMMA ThreadFrame ==
    ASSUME NEW u \in Thread, TypeOK, ThreadOK(u),
           inb'[u] = inb[u], outb'[u] = outb[u], req'[u] = req[u], pc'[u] = pc[u],
           \A c \in Held(u) : /\ bytes'[c] = bytes[c]
                              /\ layout'[c] = layout[c]
                              /\ content'[c] = content[c]
    PROVE  ThreadOK(u)'
<1>1. inb[u] # NoBuffer => /\ bytes'[inb[u]] = bytes[inb[u]]
                           /\ layout'[inb[u]] = layout[inb[u]]
                           /\ content'[inb[u]] = content[inb[u]]
  BY DEF Held
<1>2. outb[u] # NoBuffer => /\ bytes'[outb[u]] = bytes[outb[u]]
                            /\ layout'[outb[u]] = layout[outb[u]]
                            /\ content'[outb[u]] = content[outb[u]]
  BY DEF Held
<1>3. pc[u] \in {"acquire out", "run", "copy out"} => inb[u] # NoBuffer
  BY DEF ThreadOK
<1>4. pc[u] = "copy out" => outb[u] # NoBuffer
  BY DEF ThreadOK
<1> QED BY <1>1, <1>2, <1>3, <1>4 DEF ThreadOK, InBytes

\* Taking a buffer: who owns what afterwards.
LEMMA TakeFacts ==
    ASSUME IInv, NEW t \in Thread, NEW b \in Buffer,
           \A u \in Thread : b \notin Held(u),
           alive' = alive \cup {b},
           Pooled' = Pooled \ {b},
           Held(t)' = Held(t) \cup {b},
           \A u \in Thread \ {t} : Held(u)' = Held(u)
    PROVE  /\ \A u, v \in Thread : u # v => Held(u)' \cap Held(v)' = {}
           /\ \A u \in Thread : Held(u)' \cap Pooled' = {}
           /\ NoLeak'
<1> USE DEF IInv
<1>1. \A u, v \in Thread : u # v => Held(u)' \cap Held(v)' = {}
  BY DEF Apart
<1>2. \A u \in Thread : Held(u)' \cap Pooled' = {}
  BY DEF Apart
<1>3. \A x : x \in alive <=> x \in Pooled \/ \E u \in Thread : x \in Held(u)
  BY DEF NoLeak
<1>4. \A x : x \in alive' <=> x \in Pooled' \/ \E u \in Thread : x \in Held(u)'
  <2> TAKE x
  <2>1. CASE x = b
    BY <2>1
  <2>2. CASE x # b
    <3>1. x \in alive' <=> x \in alive
      BY <2>2
    <3>2. x \in Pooled' <=> x \in Pooled
      BY <2>2
    <3>3. \A u \in Thread : x \in Held(u)' <=> x \in Held(u)
      BY <2>2
    <3> QED BY <3>1, <3>2, <3>3, <1>3
  <2> QED BY <2>1, <2>2
<1>5. NoLeak'
  BY <1>4, Zenon DEF NoLeak
<1> QED BY <1>1, <1>2, <1>5

\* Giving a buffer back: who owns what afterwards.
LEMMA GiveFacts ==
    ASSUME IInv, NEW t \in Thread, NEW b \in Held(t),
           b \notin Pooled,
           \/ alive' = alive /\ Pooled' = Pooled \cup {b}
           \/ alive' = alive \ {b} /\ Pooled' = Pooled,
           Held(t)' = Held(t) \ {b},
           \A u \in Thread \ {t} : Held(u)' = Held(u)
    PROVE  /\ \A u, v \in Thread : u # v => Held(u)' \cap Held(v)' = {}
           /\ \A u \in Thread : Held(u)' \cap Pooled' = {}
           /\ NoLeak'
<1> USE DEF IInv
<1>0. \A u \in Thread : u # t => b \notin Held(u)
  BY DEF Apart
<1>1. \A u, v \in Thread : u # v => Held(u)' \cap Held(v)' = {}
  BY DEF Apart
<1>2. \A u \in Thread : Held(u)' \cap Pooled' = {}
  BY <1>0 DEF Apart
<1>3. \A x : x \in alive <=> x \in Pooled \/ \E u \in Thread : x \in Held(u)
  BY DEF NoLeak
<1>4. \A x : x \in alive' <=> x \in Pooled' \/ \E u \in Thread : x \in Held(u)'
  <2> TAKE x
  <2>1. CASE x = b
    <3>1. \A u \in Thread : b \notin Held(u)'
      BY <1>0
    <3>2. b \in alive
      BY <1>3
    <3> QED BY <2>1, <3>1, <3>2
  <2>2. CASE x # b
    <3>1. x \in alive' <=> x \in alive
      BY <2>2
    <3>2. x \in Pooled' <=> x \in Pooled
      BY <2>2
    <3>3. \A u \in Thread : x \in Held(u)' <=> x \in Held(u)
      BY <2>2
    <3> QED BY <3>1, <3>2, <3>3, <1>3
  <2> QED BY <2>1, <2>2
<1>5. NoLeak'
  BY <1>4, SMTT(30) DEF NoLeak
<1> QED BY <1>1, <1>2, <1>5

\* A call takes its input buffer.
LEMMA AcquireInInv ==
    ASSUME IInv, NEW t \in Thread, NEW r \in Requests, NEW b \in Buffer, AcquireIn(t, r, b)
    PROVE  IInv'
<1> USE DEF IInv
<1>1. r \in Request /\ InBytes(r) \in Size /\ r.lay \in Layout \cup {NoLayout}
  BY InBytesSize, PoolAssumption DEF Request
<1>2. Acquire(InBytes(r), r.lay, b)
  BY DEF AcquireIn
<1>3. /\ idle' \in [Size -> Seq(Buffer)]
      /\ alive' = alive \cup {b}
      /\ bytes' \in [Buffer -> Size]
      /\ layout' \in [Buffer -> Layout \cup {NoLayout}]
      /\ content' \in [Buffer -> Value]
      /\ \A u \in Thread : b \notin Held(u)
      /\ bytes'[b] = InBytes(r) /\ layout'[b] = r.lay
      /\ \A c \in Buffer \ {b} : /\ bytes'[c] = bytes[c]
                                 /\ layout'[c] = layout[c]
                                 /\ content'[c] = content[c]
      /\ IdleBounded' /\ Filed' /\ Once'
      /\ Pooled' = Pooled \ {b}
  BY <1>1, <1>2, AcquireFacts
<1>4. /\ pc[t] = "idle" /\ pc' = [pc EXCEPT ![t] = "copy in"]
      /\ req' = [req EXCEPT ![t] = r] /\ inb' = [inb EXCEPT ![t] = b]
      /\ outb' = outb /\ result' = result
  BY DEF AcquireIn, Goto
<1>5. inb[t] = NoBuffer /\ outb[t] = NoBuffer /\ b # NoBuffer
  BY <1>4, PoolAssumption DEF ThreadOK
<1>6. TypeOK'
  BY <1>1, <1>3, <1>4 DEF TypeOK
<1>7. Held(t)' = Held(t) \cup {b} /\ \A u \in Thread \ {t} : Held(u)' = Held(u)
  BY <1>4, <1>5 DEF Held, TypeOK
<1>8. /\ \A u, v \in Thread : u # v => Held(u)' \cap Held(v)' = {}
      /\ \A u \in Thread : Held(u)' \cap Pooled' = {}
      /\ NoLeak'
  BY <1>3, <1>7, TakeFacts
<1>9. \A u \in Thread : inb'[u] = outb'[u] => inb'[u] = NoBuffer
  BY <1>4, <1>5 DEF Apart, TypeOK
<1>10. Apart'
  BY <1>8, <1>9 DEF Apart
<1>11. ThreadOK(t)'
  <2>1. inb'[t] = b /\ outb'[t] = NoBuffer /\ req'[t] = r /\ pc'[t] = "copy in"
    BY <1>4, <1>5 DEF TypeOK
  <2> QED BY <2>1, <1>3, <1>5 DEF ThreadOK, InBytes
<1>12. ASSUME NEW u \in Thread, u # t PROVE ThreadOK(u)'
  <2>1. inb'[u] = inb[u] /\ outb'[u] = outb[u] /\ req'[u] = req[u] /\ pc'[u] = pc[u]
    BY <1>4, <1>12 DEF TypeOK
  <2>2. \A c \in Held(u) : c \in Buffer \ {b}
    BY <1>3, HeldBuffers
  <2> QED BY <1>3, <2>1, <2>2, ThreadFrame
<1>13. \A u \in Thread : ThreadOK(u)'
  BY <1>11, <1>12
<1> QED BY <1>3, <1>6, <1>8, <1>10, <1>13

\* A call takes its output buffer.
LEMMA AcquireOutInv ==
    ASSUME IInv, NEW t \in Thread, NEW b \in Buffer, AcquireOut(t, b)
    PROVE  IInv'
<1> USE DEF IInv
<1>1. req[t] \in Request /\ req[t].m \in Size
  BY DEF TypeOK, Request
<1>2. Acquire(req[t].m, NoLayout, b)
  BY DEF AcquireOut
<1>3. /\ idle' \in [Size -> Seq(Buffer)]
      /\ alive' = alive \cup {b}
      /\ bytes' \in [Buffer -> Size]
      /\ layout' \in [Buffer -> Layout \cup {NoLayout}]
      /\ content' \in [Buffer -> Value]
      /\ \A u \in Thread : b \notin Held(u)
      /\ bytes'[b] = req[t].m /\ layout'[b] = NoLayout
      /\ \A c \in Buffer \ {b} : /\ bytes'[c] = bytes[c]
                                 /\ layout'[c] = layout[c]
                                 /\ content'[c] = content[c]
      /\ IdleBounded' /\ Filed' /\ Once'
      /\ Pooled' = Pooled \ {b}
  BY <1>1, <1>2, AcquireFacts, ZenonT(60)
<1>4. /\ pc[t] = "acquire out" /\ pc' = [pc EXCEPT ![t] = "run"]
      /\ outb' = [outb EXCEPT ![t] = b]
      /\ req' = req /\ inb' = inb /\ result' = result
  BY DEF AcquireOut, Goto
<1>5. inb[t] # NoBuffer /\ outb[t] = NoBuffer /\ b # NoBuffer
  BY <1>4, PoolAssumption DEF ThreadOK
<1>6. TypeOK'
  BY <1>1, <1>3, <1>4 DEF TypeOK
<1>7. Held(t)' = Held(t) \cup {b} /\ \A u \in Thread \ {t} : Held(u)' = Held(u)
  BY <1>4, <1>5 DEF Held, TypeOK
<1>8. /\ \A u, v \in Thread : u # v => Held(u)' \cap Held(v)' = {}
      /\ \A u \in Thread : Held(u)' \cap Pooled' = {}
      /\ NoLeak'
  BY <1>3, <1>7, TakeFacts
<1>9. inb[t] \in Buffer \ {b}
  BY <1>3, <1>5 DEF Held, TypeOK
<1>10. Apart'
  <2>1. \A u \in Thread : inb'[u] = outb'[u] => inb'[u] = NoBuffer
    BY <1>4, <1>5, <1>9 DEF Apart, TypeOK
  <2> QED BY <1>8, <2>1 DEF Apart
<1>11. ThreadOK(t)'
  <2>1. inb'[t] = inb[t] /\ outb'[t] = b /\ req'[t] = req[t] /\ pc'[t] = "run"
    BY <1>4, <1>5 DEF TypeOK
  <2>2. /\ bytes'[inb[t]] = InBytes(req[t]) /\ layout'[inb[t]] = req[t].lay
        /\ content'[inb[t]] = req[t].d
    BY <1>3, <1>4, <1>5, <1>9 DEF ThreadOK
  <2> QED BY <2>1, <2>2, <1>3, <1>5, ZenonT(60) DEF ThreadOK, InBytes
<1>12. ASSUME NEW u \in Thread, u # t PROVE ThreadOK(u)'
  <2>1. inb'[u] = inb[u] /\ outb'[u] = outb[u] /\ req'[u] = req[u] /\ pc'[u] = pc[u]
    BY <1>4, <1>12 DEF TypeOK
  <2>2. \A c \in Held(u) : c \in Buffer \ {b}
    BY <1>3, HeldBuffers
  <2> QED BY <1>3, <2>1, <2>2, ThreadFrame
<1>13. \A u \in Thread : ThreadOK(u)'
  BY <1>11, <1>12
<1> QED BY <1>3, <1>6, <1>8, <1>10, <1>13

\* A step of thread t that writes at most one of its own buffers and moves no
\* buffer keeps everything but, possibly, what t relies on.
LEMMA LocalStep ==
    ASSUME IInv, NEW t \in Thread,
           idle' = idle, alive' = alive, bytes' = bytes, layout' = layout,
           inb' = inb, outb' = outb,
           TypeOK', ThreadOK(t)',
           \A u \in Thread \ {t} : req'[u] = req[u] /\ pc'[u] = pc[u],
           \A c \in Buffer : c \notin Held(t) => content'[c] = content[c]
    PROVE  IInv'
<1> USE DEF IInv
<1>1. IdleBounded' /\ Filed' /\ Once'
  BY DEF IdleBounded, Filed, Once
<1>2. \A u \in Thread : Held(u)' = Held(u)
  BY DEF Held
<1>3. Pooled' = Pooled
  BY DEF Pooled
<1>4. Apart'
  BY <1>2, <1>3 DEF Apart
<1>5. NoLeak'
  BY <1>2, <1>3 DEF NoLeak
<1>6. ASSUME NEW u \in Thread, u # t PROVE ThreadOK(u)'
  <2>1. \A c \in Held(u) : c \in Buffer /\ c \notin Held(t)
    BY <1>6, HeldBuffers DEF Apart
  <2>2. inb'[u] = inb[u] /\ outb'[u] = outb[u] /\ req'[u] = req[u] /\ pc'[u] = pc[u]
    BY <1>6
  <2>3. \A c \in Held(u) : /\ bytes'[c] = bytes[c]
                            /\ layout'[c] = layout[c]
                            /\ content'[c] = content[c]
    BY <2>1
  <2> QED BY <2>2, <2>3, ThreadFrame
<1> QED BY <1>1, <1>4, <1>5, <1>6

\* The copies, the execution and the exception stay within the call's buffers.
LEMMA LocalInv ==
    ASSUME IInv, NEW t \in Thread,
           CopyIn(t) \/ AcquireOutThrows(t) \/ Run(t) \/ CopyOut(t)
    PROVE  IInv'
<1> USE DEF IInv
<1>1. req[t] \in Request /\ req[t].d \in Value
  BY PoolAssumption DEF TypeOK, Request
<1>2. CASE CopyIn(t)
  <2>1. /\ pc[t] = "copy in" /\ pc' = [pc EXCEPT ![t] = "acquire out"]
        /\ content' = [content EXCEPT ![inb[t]] = req[t].d]
        /\ idle' = idle /\ alive' = alive /\ bytes' = bytes /\ layout' = layout
        /\ req' = req /\ inb' = inb /\ outb' = outb /\ result' = result
    BY <1>2 DEF CopyIn, Goto
  <2>2. inb[t] \in Buffer /\ inb[t] \in Held(t) /\ outb[t] = NoBuffer
    <3>1. inb[t] # NoBuffer /\ outb[t] = NoBuffer
      BY <2>1 DEF ThreadOK
    <3>2. inb[t] \in Buffer \cup {NoBuffer}
      BY DEF TypeOK
    <3> QED BY <3>1, <3>2 DEF Held
  <2>3. TypeOK'
    BY <1>1, <2>1 DEF TypeOK
  <2>4. \A c \in Buffer : c \notin Held(t) => content'[c] = content[c]
    BY <2>1, <2>2 DEF TypeOK
  <2>5. ThreadOK(t)'
    <3>1. content'[inb[t]] = req[t].d /\ pc'[t] = "acquire out"
      BY <2>1, <2>2 DEF TypeOK
    <3> QED BY <2>1, <2>2, <3>1 DEF ThreadOK, InBytes
  <2>6. \A u \in Thread \ {t} : req'[u] = req[u] /\ pc'[u] = pc[u]
    BY <2>1 DEF TypeOK
  <2> QED BY <2>1, <2>3, <2>4, <2>5, <2>6, LocalStep
<1>3. CASE AcquireOutThrows(t)
  <2>1. /\ pc[t] = "acquire out" /\ pc' = [pc EXCEPT ![t] = "release in"]
        /\ idle' = idle /\ alive' = alive /\ bytes' = bytes /\ layout' = layout
        /\ content' = content
        /\ req' = req /\ inb' = inb /\ outb' = outb /\ result' = result
    BY <1>3 DEF AcquireOutThrows, Goto
  <2>2. TypeOK'
    BY <2>1 DEF TypeOK
  <2>3. ThreadOK(t)'
    <3>1. pc'[t] = "release in"
      BY <2>1 DEF TypeOK
    <3> QED BY <2>1, <3>1 DEF ThreadOK, InBytes
  <2>4. \A u \in Thread \ {t} : req'[u] = req[u] /\ pc'[u] = pc[u]
    BY <2>1 DEF TypeOK
  <2>5. \A c \in Buffer : c \notin Held(t) => content'[c] = content[c]
    BY <2>1
  <2> QED BY <2>1, <2>2, <2>3, <2>4, <2>5, LocalStep
<1>4. CASE Run(t)
  <2>1. /\ pc[t] = "run"
        /\ idle' = idle /\ alive' = alive /\ bytes' = bytes /\ layout' = layout
        /\ req' = req /\ inb' = inb /\ outb' = outb /\ result' = result
    BY <1>4 DEF Run
  <2>2. /\ outb[t] \in Buffer /\ outb[t] \in Held(t) /\ inb[t] \in Buffer
        /\ inb[t] # outb[t] /\ content[inb[t]] = req[t].d
    <3>1. inb[t] # NoBuffer /\ outb[t] # NoBuffer /\ content[inb[t]] = req[t].d
      BY <2>1 DEF ThreadOK
    <3>2. inb[t] \in Buffer \cup {NoBuffer} /\ outb[t] \in Buffer \cup {NoBuffer}
      BY DEF TypeOK
    <3> QED BY <3>1, <3>2 DEF Held, Apart
  <2>3. F[req[t].d] \in Value /\ Junk \in Value
    BY <1>1, PoolAssumption
  <2>4. CASE /\ content' = [content EXCEPT ![outb[t]] = F[content[inb[t]]]]
             /\ pc' = [pc EXCEPT ![t] = "copy out"]
    <3>1. TypeOK'
      BY <2>1, <2>2, <2>3, <2>4 DEF TypeOK
    <3>2. \A c \in Buffer : c \notin Held(t) => content'[c] = content[c]
      BY <2>2, <2>4 DEF TypeOK
    <3>3. ThreadOK(t)'
      <4>1. /\ content'[inb[t]] = req[t].d /\ content'[outb[t]] = F[req[t].d]
            /\ pc'[t] = "copy out"
        BY <2>2, <2>4 DEF TypeOK
      <4> QED BY <2>1, <2>2, <4>1 DEF ThreadOK, InBytes
    <3>4. \A u \in Thread \ {t} : req'[u] = req[u] /\ pc'[u] = pc[u]
      BY <2>1, <2>4 DEF TypeOK
    <3> QED BY <2>1, <3>1, <3>2, <3>3, <3>4, LocalStep
  <2>5. CASE /\ content' = [content EXCEPT ![outb[t]] = Junk]
             /\ pc' = [pc EXCEPT ![t] = "release out"]
    <3>1. TypeOK'
      BY <2>1, <2>2, <2>3, <2>5 DEF TypeOK
    <3>2. \A c \in Buffer : c \notin Held(t) => content'[c] = content[c]
      BY <2>2, <2>5 DEF TypeOK
    <3>3. ThreadOK(t)'
      <4>1. pc'[t] = "release out"
        BY <2>5 DEF TypeOK
      <4> QED BY <2>1, <2>2, <4>1 DEF ThreadOK, InBytes
    <3>4. \A u \in Thread \ {t} : req'[u] = req[u] /\ pc'[u] = pc[u]
      BY <2>1, <2>5 DEF TypeOK
    <3> QED BY <2>1, <3>1, <3>2, <3>3, <3>4, LocalStep
  <2> QED BY <1>4, <2>4, <2>5 DEF Run, Goto
<1>5. CASE CopyOut(t)
  <2>1. /\ pc[t] = "copy out" /\ pc' = [pc EXCEPT ![t] = "release out"]
        /\ result' = [result EXCEPT ![t] = content[outb[t]]]
        /\ idle' = idle /\ alive' = alive /\ bytes' = bytes /\ layout' = layout
        /\ content' = content /\ req' = req /\ inb' = inb /\ outb' = outb
    BY <1>5 DEF CopyOut, Goto
  <2>2. outb[t] \in Buffer
    <3>1. outb[t] # NoBuffer
      BY <2>1 DEF ThreadOK
    <3>2. outb[t] \in Buffer \cup {NoBuffer}
      BY DEF TypeOK
    <3> QED BY <3>1, <3>2
  <2>3. TypeOK'
    BY <2>1, <2>2 DEF TypeOK
  <2>4. ThreadOK(t)'
    <3>1. pc'[t] = "release out"
      BY <2>1 DEF TypeOK
    <3> QED BY <2>1, <3>1 DEF ThreadOK, InBytes
  <2>5. \A u \in Thread \ {t} : req'[u] = req[u] /\ pc'[u] = pc[u]
    BY <2>1 DEF TypeOK
  <2>6. \A c \in Buffer : c \notin Held(t) => content'[c] = content[c]
    BY <2>1
  <2> QED BY <2>1, <2>3, <2>4, <2>5, <2>6, LocalStep
<1> QED BY <1>2, <1>3, <1>4, <1>5

\* A call gives its output buffer back.
LEMMA ReleaseOutInv ==
    ASSUME IInv, NEW t \in Thread, ReleaseOut(t)
    PROVE  IInv'
<1> USE DEF IInv
<1>1. /\ pc[t] = "release out" /\ pc' = [pc EXCEPT ![t] = "release in"]
      /\ outb' = [outb EXCEPT ![t] = NoBuffer]
      /\ req' = req /\ inb' = inb /\ result' = result
  BY DEF ReleaseOut, Goto
<1> DEFINE b == outb[t]
<1>2. Release(b)
  BY DEF ReleaseOut
<1>3. b \in Held(t) /\ b # NoBuffer /\ inb[t] # outb[t]
  BY <1>1 DEF ThreadOK, Held, Apart
<1>4. /\ b \in Buffer
      /\ idle' \in [Size -> Seq(Buffer)]
      /\ bytes' = bytes /\ layout' = layout /\ content' = content
      /\ IdleBounded' /\ Filed' /\ Once'
      /\ \/ alive' = alive /\ Pooled' = Pooled \cup {b}
         \/ alive' = alive \ {b} /\ Pooled' = Pooled
      /\ b \notin Pooled
  BY <1>2, <1>3, ReleaseFacts
<1>5. TypeOK'
  BY <1>1, <1>4 DEF TypeOK
<1>6. Held(t)' = Held(t) \ {b} /\ \A u \in Thread \ {t} : Held(u)' = Held(u)
  BY <1>1, <1>3 DEF Held, TypeOK
<1>7. /\ \A u, v \in Thread : u # v => Held(u)' \cap Held(v)' = {}
      /\ \A u \in Thread : Held(u)' \cap Pooled' = {}
      /\ NoLeak'
  BY <1>3, <1>4, <1>6, GiveFacts
<1>8. Apart'
  <2>1. \A u \in Thread : inb'[u] = outb'[u] => inb'[u] = NoBuffer
    BY <1>1 DEF Apart, TypeOK
  <2> QED BY <1>7, <2>1 DEF Apart
<1>9. ThreadOK(t)'
  <2>1. outb'[t] = NoBuffer /\ inb'[t] = inb[t] /\ req'[t] = req[t] /\ pc'[t] = "release in"
    BY <1>1 DEF TypeOK
  <2> QED BY <1>1, <1>4, <2>1 DEF ThreadOK, InBytes
<1>10. ASSUME NEW u \in Thread, u # t PROVE ThreadOK(u)'
  <2>1. inb'[u] = inb[u] /\ outb'[u] = outb[u] /\ req'[u] = req[u] /\ pc'[u] = pc[u]
    BY <1>1, <1>10 DEF TypeOK
  <2>2. \A c \in Held(u) : /\ bytes'[c] = bytes[c]
                            /\ layout'[c] = layout[c]
                            /\ content'[c] = content[c]
    BY <1>4
  <2> QED BY <2>1, <2>2, ThreadFrame
<1> QED BY <1>4, <1>5, <1>7, <1>8, <1>9, <1>10

\* A call gives its input buffer back.
LEMMA ReleaseInInv ==
    ASSUME IInv, NEW t \in Thread, ReleaseIn(t)
    PROVE  IInv'
<1> USE DEF IInv
<1>1. /\ pc[t] = "release in" /\ pc' = [pc EXCEPT ![t] = "idle"]
      /\ inb' = [inb EXCEPT ![t] = NoBuffer]
      /\ req' = req /\ outb' = outb /\ result' = result
  BY DEF ReleaseIn, Goto
<1> DEFINE b == inb[t]
<1>2. Release(b)
  BY DEF ReleaseIn
<1>3. b \in Held(t) /\ b # NoBuffer /\ inb[t] # outb[t]
  BY <1>1 DEF ThreadOK, Held, Apart
<1>4. /\ b \in Buffer
      /\ idle' \in [Size -> Seq(Buffer)]
      /\ bytes' = bytes /\ layout' = layout /\ content' = content
      /\ IdleBounded' /\ Filed' /\ Once'
      /\ \/ alive' = alive /\ Pooled' = Pooled \cup {b}
         \/ alive' = alive \ {b} /\ Pooled' = Pooled
      /\ b \notin Pooled
  BY <1>2, <1>3, ReleaseFacts
<1>5. TypeOK'
  BY <1>1, <1>4 DEF TypeOK
<1>6. Held(t)' = Held(t) \ {b} /\ \A u \in Thread \ {t} : Held(u)' = Held(u)
  BY <1>1, <1>3 DEF Held, TypeOK
<1>7. /\ \A u, v \in Thread : u # v => Held(u)' \cap Held(v)' = {}
      /\ \A u \in Thread : Held(u)' \cap Pooled' = {}
      /\ NoLeak'
  BY <1>3, <1>4, <1>6, GiveFacts
<1>8. Apart'
  <2>1. \A u \in Thread : inb'[u] = outb'[u] => inb'[u] = NoBuffer
    BY <1>1 DEF Apart, TypeOK
  <2> QED BY <1>7, <2>1 DEF Apart
<1>9. ThreadOK(t)'
  <2>1. inb'[t] = NoBuffer /\ outb'[t] = outb[t] /\ req'[t] = req[t] /\ pc'[t] = "idle"
    BY <1>1 DEF TypeOK
  <2> QED BY <1>1, <1>4, <2>1 DEF ThreadOK, InBytes
<1>10. ASSUME NEW u \in Thread, u # t PROVE ThreadOK(u)'
  <2>1. inb'[u] = inb[u] /\ outb'[u] = outb[u] /\ req'[u] = req[u] /\ pc'[u] = pc[u]
    BY <1>1, <1>10 DEF TypeOK
  <2>2. \A c \in Held(u) : /\ bytes'[c] = bytes[c]
                            /\ layout'[c] = layout[c]
                            /\ content'[c] = content[c]
    BY <1>4
  <2> QED BY <2>1, <2>2, ThreadFrame
<1> QED BY <1>4, <1>5, <1>7, <1>8, <1>9, <1>10

\* flush destroys what nobody holds.
LEMMA FlushInv == ASSUME IInv, Flush PROVE IInv'
<1> USE DEF IInv
<1>1. /\ idle' = [n \in Size |-> <<>>]
      /\ alive' = alive \ Pooled
      /\ bytes' = bytes /\ layout' = layout /\ content' = content /\ pc' = pc
      /\ req' = req /\ inb' = inb /\ outb' = outb /\ result' = result
  BY DEF Flush
<1>2. TypeOK'
  <2>1. idle' \in [Size -> Seq(Buffer)]
    BY <1>1
  <2> QED BY <1>1, <2>1 DEF TypeOK
<1>3. \A n \in Size : DOMAIN idle'[n] = {} /\ Len(idle'[n]) = 0
  BY <1>1
<1>4. Filed' /\ Once'
  BY <1>3 DEF Filed, Once
<1>5. IdleBounded'
  BY <1>3, PoolAssumption DEF IdleBounded
<1>6. Pooled' = {}
  BY <1>3 DEF Pooled
<1>7. \A u \in Thread : Held(u)' = Held(u)
  BY <1>1 DEF Held
<1>8. Apart'
  BY <1>1, <1>6, <1>7 DEF Apart
<1>9. NoLeak'
  <2>1. \A x : x \in alive <=> x \in Pooled \/ \E u \in Thread : x \in Held(u)
    BY DEF NoLeak
  <2>2. \A x : x \in alive' <=> x \in Pooled' \/ \E u \in Thread : x \in Held(u)'
    BY <1>1, <1>6, <1>7, <2>1 DEF Apart
  <2> QED BY <2>2, Zenon DEF NoLeak
<1>10. ASSUME NEW u \in Thread PROVE ThreadOK(u)'
  BY <1>1 DEF ThreadOK, InBytes
<1> QED BY <1>2, <1>4, <1>5, <1>8, <1>9, <1>10

\* Stuttering.
LEMMA StutterInv == ASSUME IInv, UNCHANGED vars PROVE IInv'
<1>1. /\ idle' = idle /\ alive' = alive /\ bytes' = bytes /\ layout' = layout
      /\ content' = content /\ pc' = pc /\ req' = req /\ inb' = inb /\ outb' = outb
      /\ result' = result
  BY DEF vars
<1>2. TypeOK'
  BY <1>1 DEF IInv, TypeOK
<1>6. IdleBounded' /\ Filed' /\ Once'
  BY <1>1 DEF IInv, IdleBounded, Filed, Once
<1>3. Pooled' = Pooled /\ \A u \in Thread : Held(u)' = Held(u)
  BY <1>1 DEF Pooled, Held
<1>4. Apart' /\ NoLeak'
  BY <1>1, <1>3 DEF IInv, Apart, NoLeak
<1>5. \A u \in Thread : ThreadOK(u)'
  BY <1>1 DEF IInv, ThreadOK, InBytes
<1> QED BY <1>2, <1>4, <1>5, <1>6 DEF IInv

\* IInv is inductive: it holds in every reachable state of the pool.
THEOREM PoolInvariant == Spec => []IInv
<1>1. IInv /\ [Next]_vars => IInv'
  <2> SUFFICES ASSUME IInv, [Next]_vars PROVE IInv'
    OBVIOUS
  <2>1. ASSUME NEW t \in Thread, NEW r \in Requests, NEW b \in Buffer, AcquireIn(t, r, b)
        PROVE  IInv'
    BY <2>1, AcquireInInv
  <2>2. ASSUME NEW t \in Thread, NEW b \in Buffer, AcquireOut(t, b) PROVE IInv'
    BY <2>2, AcquireOutInv
  <2>3. ASSUME NEW t \in Thread, CopyIn(t) \/ AcquireOutThrows(t) \/ Run(t) \/ CopyOut(t)
        PROVE  IInv'
    BY <2>3, LocalInv
  <2>4. ASSUME NEW t \in Thread, ReleaseOut(t) PROVE IInv'
    BY <2>4, ReleaseOutInv
  <2>5. ASSUME NEW t \in Thread, ReleaseIn(t) PROVE IInv'
    BY <2>5, ReleaseInInv
  <2>6. CASE Flush
    BY <2>6, FlushInv
  <2>7. CASE UNCHANGED vars
    BY <2>7, StutterInv
  <2> QED BY <2>1, <2>2, <2>3, <2>4, <2>5, <2>6, <2>7 DEF Next
<1> QED BY InitInv, <1>1, PTL DEF Spec

\* The parts of IInv make up the properties of the model.
LEMMA InvImplies == IInv => Exclusive /\ SizesMatch /\ MetadataFresh
<1> SUFFICES ASSUME IInv PROVE Exclusive /\ SizesMatch /\ MetadataFresh
  OBVIOUS
<1> USE DEF IInv
<1>1. \A t \in Thread, n \in Size : \A i \in DOMAIN idle[n] : idle[n][i] \notin Held(t)
  BY PooledFacts DEF Apart
<1>2. Exclusive
  BY <1>1 DEF Exclusive, Apart, Once
<1>3. SizesMatch
  BY DEF SizesMatch, Filed, ThreadOK
<1>4. MetadataFresh
  BY DEF MetadataFresh, ThreadOK
<1> QED BY <1>2, <1>3, <1>4

\* No buffer is ever in two places: two calls never share a surface, and a
\* surface in use is not in the pool (BufferPool::acquire and release).
THEOREM BuffersExclusive == Spec => []Exclusive
BY PoolInvariant, InvImplies, PTL

\* The pool never keeps more than MaxIdle buffers of a size.
THEOREM PoolBounded == Spec => []IdleBounded
<1>1. IInv => IdleBounded
  BY DEF IInv
<1> QED BY PoolInvariant, <1>1, PTL

\* A recycled buffer has the size its new user asked for: the assertions in
\* the copy functions of AneBuffer hold.
THEOREM BuffersFit == Spec => []SizesMatch
BY PoolInvariant, InvImplies, PTL

\* A recycled buffer has the tensor metadata of its new user and not that of
\* the call it served before.
THEOREM MetadataRight == Spec => []MetadataFresh
BY PoolInvariant, InvImplies, PTL

\* Every buffer that exists is in the pool or in a guard of a call.
THEOREM BuffersAccounted == Spec => []NoLeak
<1>1. IInv => NoLeak
  BY DEF IInv
<1> QED BY PoolInvariant, <1>1, PTL

\* A call returns the program's result on its own input, whatever the other
\* calls do to the pool meanwhile.
THEOREM ResultsOwn == Spec => OwnResult
<1>1. ASSUME IInv, [Next]_vars
      PROVE  [\A t \in Thread : result'[t] # result[t] => result'[t] = F[req[t].d]]_vars
  <2> SUFFICES ASSUME NEW t \in Thread, result'[t] # result[t]
               PROVE  result'[t] = F[req[t].d]
    OBVIOUS
  <2>1. ASSUME NEW u \in Thread, CopyOut(u) PROVE result'[t] = F[req[t].d]
    <3>1. result' = [result EXCEPT ![u] = content[outb[u]]] /\ pc[u] = "copy out"
      BY <2>1 DEF CopyOut
    <3>2. u = t
      BY <1>1, <3>1 DEF IInv, TypeOK
    <3> QED BY <1>1, <3>1, <3>2 DEF IInv, TypeOK, ThreadOK
  <2>2. CASE result' = result
    BY <2>2
  <2>3. \/ result' = result
        \/ \E u \in Thread : CopyOut(u)
    BY <1>1 DEF Next, AcquireIn, CopyIn, AcquireOut, AcquireOutThrows, Run, ReleaseOut,
       ReleaseIn, Flush, vars
  <2> QED BY <2>1, <2>2, <2>3
<1> QED BY PoolInvariant, <1>1, PTL DEF Spec, OwnResult
=============================================================================
