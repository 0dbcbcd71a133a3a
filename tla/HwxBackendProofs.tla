-------------------------- MODULE HwxBackendProofs --------------------------
(***************************************************************************)
(* Proofs about HwxBackend, for any threads, ops, shapes and names, and    *)
(* for binaries of any length: patching the template of a shape gives a    *)
(* binary of the op, no stub model stays loaded, and the warm path         *)
(* computes what the cold path does as long as no two threads use the same *)
(* stub directory.                                                         *)
(***************************************************************************)
EXTENDS HwxBackend, TLAPS

\* No two threads compile nodes of the same shape and tensor names: a stub
\* directory belongs to one thread.
DirsApart ==
    \A t, u \in Thread : t # u =>
        \A r \in Requests[t], s \in Requests[u] : Dir(r) # Dir(s)

(***************************************************************************)
(* The inductive invariant.  A template is a binary of some op at its      *)
(* shape, and a configuration that of its op, whatever shape it was        *)
(* captured at.  The warm path is entered with a binary to emit and keeps  *)
(* it, because a thread's caches only grow; the file of the directory      *)
(* computes the op from WriteHwx to ReloadHwx.                             *)
(***************************************************************************)
Label == {"idle", "warm", "write", "reload", "cold", "capture"}
Program == Hwx \cup {NoHwx}

TypeOK ==
    /\ shapes \in [Thread -> [Shape -> Program]]
    /\ configs \in [Thread -> [Op -> OpConfig \cup {NoConfig}]]
    /\ file \in [Shape \X Names -> Program]
    /\ pc \in [Thread -> Label]
    /\ req \in [Thread -> Request \cup {CHOOSE r \in Request : TRUE}]
    /\ stub \in [Thread -> Program]
    /\ got \in [Thread -> Program]

Asking(t) == pc[t] # "idle" => req[t] \in Requests[t]

Warm(t) == pc[t] \in {"warm", "write", "reload"} => CanEmit(t, req[t])

Cached(t) ==
    /\ \A s \in Shape : shapes[t][s] # NoHwx => \E op \in Op : Computes(shapes[t][s], op, s)
    /\ \A op \in Op : configs[t][op] \in {NoConfig, ConfigOf[op]}

\* A binary of the op is in the directory when the model is reloaded.
Written(t) == pc[t] = "reload" => Computes(file[Dir(req[t])], req[t].op, req[t].shape)

Answer(t) ==
    /\ pc[t] \in {"warm", "write", "reload", "cold"} => got[t] = NoHwx
    /\ pc[t] \in {"idle", "capture"} =>
          got[t] = NoHwx \/ Computes(got[t], req[t].op, req[t].shape)

Stubs(t) == pc[t] \notin {"write", "reload"} => stub[t] = NoHwx

IInv ==
    /\ TypeOK
    /\ \A t \in Thread :
         /\ Asking(t) /\ Warm(t) /\ Stubs(t) /\ Cached(t)
         /\ DirsApart => Written(t) /\ Answer(t)

-----------------------------------------------------------------------------
(***************************************************************************)
(* Patching.                                                               *)
(***************************************************************************)

\* __const lies behind the text, so its address is not that of __text.
LEMMA ConstBehindText ==
    ASSUME NEW n \in Nat, n >= 24
    PROVE  /\ const_off(n) \in Nat /\ const_vm(n) \in Nat
           /\ const_off(n) >= kTextFileOff + 4 * n
           /\ const_vm(n) > kTextVmBase
<1>1. const_off(n) \in Nat /\ const_off(n) >= kTextFileOff + 4 * n
  BY DEF const_off, kTextFileOff, kConstAlign
<1> QED BY <1>1 DEF const_vm, kTextFileOff, kTextVmBase

\* What extract_op_config finds in a right binary.
LEMMA ExtractRight ==
    ASSUME NEW hwx \in Hwx, NEW op \in Op, NEW s \in Shape, Computes(hwx, op, s)
    PROVE  valid_hwx(hwx) /\ extract_op_config(hwx) = ConfigOf[op]
<1>1. /\ ConfigOf[op] \in OpConfig /\ ConfigOf[op].num_words \in Nat
      /\ ConfigOf[op].num_words >= 24
  BY CompilerAssumption DEF OpConfig
<1>2. /\ hwx.td_count = ConfigOf[op].num_words /\ hwx.text_size = 4 * hwx.td_count
      /\ hwx.words = ConfigOf[op].words
      /\ const_off(hwx.td_count) + kConstSize <= hwx.size /\ hwx.magic /\ hwx.size \in Nat
  BY DEF Computes, WellLaid, Hwx
<1>3. hwx.size >= kMinHwxSize
  BY <1>1, <1>2, ConstBehindText DEF kMinHwxSize, kTextFileOff, kConstSize
<1>4. hwx.text_size \div 4 = ConfigOf[op].num_words
  BY <1>1, <1>2
<1>5. ~(hwx.size < kMinHwxSize)
  BY <1>2, <1>3 DEF kMinHwxSize, kTextFileOff
<1>6. ConfigOf[op] = [words |-> ConfigOf[op].words, num_words |-> ConfigOf[op].num_words]
  BY <1>1 DEF OpConfig
<1> QED BY <1>2, <1>3, <1>4, <1>5, <1>6 DEF valid_hwx, extract_op_config

\* Relocation makes a well laid binary for a text of any other length.
LEMMA RelocateRight ==
    ASSUME NEW hwx \in Hwx, WellLaid(hwx), hwx.td_count >= 24,
           NEW n \in Nat, n >= 24
    PROVE  LET b == relocate(hwx, n, hwx.td_count)
           IN  /\ b \in Hwx /\ WellLaid(b) /\ b.td_count = n
               /\ b.magic = hwx.magic /\ b.words = hwx.words
               /\ b.text_for = hwx.text_for /\ b.const_for = hwx.const_for
<1> DEFINE old == hwx.td_count
           b == relocate(hwx, n, old)
<1>1. old \in Nat /\ old >= 24 /\ hwx.size \in Nat /\ hwx.used \in Nat
  BY DEF Hwx
<1>2. /\ const_off(n) \in Nat /\ const_vm(n) \in Nat /\ const_vm(n) > kTextVmBase
      /\ const_off(old) \in Nat /\ const_vm(old) \in Nat /\ const_vm(old) > kTextVmBase
  BY <1>1, ConstBehindText
<1> DEFINE needed == const_off(n) + kConstSize
           size == IF hwx.size < needed THEN needed ELSE hwx.size
           used == IF n < old /\ 4 * n < hwx.used THEN 4 * n ELSE hwx.used
           addr == update_refs([hwx.addr EXCEPT !["const"] = const_vm(n)], n, old)
<1>3. size \in Nat /\ const_off(n) + kConstSize <= size
  BY <1>1, <1>2 DEF kConstSize
<1>4. used \in Nat /\ used <= 4 * n
  <2>1. hwx.used <= 4 * old
    BY <1>1 DEF WellLaid
  <2> QED BY <1>1, <2>1
<1>5. /\ addr \in [Address -> Nat]
      /\ addr["text"] = kTextVmBase /\ addr["const"] = const_vm(n) /\ addr["td"] = const_vm(n)
  <2>1. /\ hwx.addr \in [Address -> Nat] /\ hwx.addr["text"] = kTextVmBase
        /\ hwx.addr["td"] = const_vm(old)
    BY DEF WellLaid, Hwx
  <2>2. kTextVmBase # const_vm(old)
    BY <1>2 DEF kTextVmBase
  <2> QED BY <1>2, <2>1, <2>2 DEF update_refs, Address
<1> DEFINE at == IF const_off(old) = const_off(n) \/ ~(const_off(old) + kConstSize <= hwx.size)
                 THEN hwx.const_at
                 ELSE IF hwx.const_at = const_off(old) THEN const_off(n) ELSE 0
<1>6. at = const_off(n)
  BY <1>1 DEF WellLaid
<1>7. b = [hwx EXCEPT !.size = size, !.used = used, !.const_at = at, !.text_size = 4 * n,
                      !.const_fileoff = const_off(n), !.addr = addr, !.td_count = n]
  BY DEF relocate
<1>8. /\ b.size = size /\ b.used = used /\ b.const_at = at /\ b.text_size = 4 * n
      /\ b.const_fileoff = const_off(n) /\ b.addr = addr /\ b.td_count = n
      /\ b.magic = hwx.magic /\ b.words = hwx.words
      /\ b.text_for = hwx.text_for /\ b.const_for = hwx.const_for
  <2> HIDE DEF b, size, used, at, addr
  <2> QED BY <1>7 DEF Hwx
<1>9. b \in Hwx
  <2>1. 4 * n \in Nat /\ at \in Nat
    BY <1>2, <1>6
  <2> HIDE DEF b, size, used, at, addr
  <2> QED BY <1>2, <1>3, <1>4, <1>5, <1>7, <2>1 DEF Hwx
<1>10. WellLaid(b)
  <2> HIDE DEF b, size, used, at, addr
  <2> QED BY <1>3, <1>4, <1>5, <1>6, <1>8 DEF WellLaid
<1> HIDE DEF b
<1>11. /\ b \in Hwx /\ WellLaid(b) /\ b.td_count = n
       /\ b.magic = hwx.magic /\ b.words = hwx.words
       /\ b.text_for = hwx.text_for /\ b.const_for = hwx.const_for
  BY <1>8, <1>9, <1>10
<1> QED BY <1>11 DEF b

\* A binary of one op at a shape, patched with the configuration of another,
\* computes the other op at that shape: the words, the headers, the addresses
\* and __const are all where the loader and the engine look for them.
THEOREM PatchRight ==
    ASSUME NEW hwx \in Hwx, NEW op \in Op, NEW s \in Shape, Computes(hwx, op, s),
           NEW to \in Op
    PROVE  LET b == patch_op(hwx, ConfigOf[to], extract_op_config(hwx))
           IN  b \in Hwx /\ Computes(b, to, s)
<1> DEFINE new == ConfigOf[to].num_words
           p == [hwx EXCEPT !.words = ConfigOf[to].words]
           b == patch_op(hwx, ConfigOf[to], extract_op_config(hwx))
<1>1. valid_hwx(hwx) /\ extract_op_config(hwx) = ConfigOf[op]
  BY ExtractRight
<1>2. /\ new \in Nat /\ new >= 24 /\ ConfigOf[to].words \in [OpWord -> Nat]
      /\ ConfigOf[op].num_words >= 24 /\ hwx.td_count = ConfigOf[op].num_words
  BY CompilerAssumption DEF OpConfig, Computes
<1>3. /\ p \in Hwx /\ p.words = ConfigOf[to].words /\ p.td_count = hwx.td_count
      /\ p.magic /\ p.text_for = s /\ p.const_for = s
  BY <1>2 DEF Computes, Hwx
<1>4. WellLaid(p)
  BY <1>2 DEF Computes, WellLaid, Hwx
<1>5. b = IF new = hwx.td_count THEN p ELSE relocate(p, new, p.td_count)
  BY <1>1, <1>2, <1>3 DEF patch_op
<1> HIDE DEF p, b, new
<1>6. CASE new = hwx.td_count
  <2>1. Computes(p, to, s)
    BY <1>3, <1>4, <1>6 DEF Computes, new
  <2>2. b = p
    BY <1>5, <1>6
  <2>3. b \in Hwx /\ Computes(b, to, s)
    BY <1>3, <2>1, <2>2
  <2> QED BY <2>3 DEF b
<1>7. CASE new # hwx.td_count
  <2>1. b = relocate(p, new, p.td_count)
    BY <1>5, <1>7
  <2>2. /\ b \in Hwx /\ WellLaid(b) /\ b.td_count = new
        /\ b.magic = p.magic /\ b.words = p.words
        /\ b.text_for = p.text_for /\ b.const_for = p.const_for
    BY <1>2, <1>3, <1>4, <2>1, RelocateRight
  <2>3. b \in Hwx /\ Computes(b, to, s)
    BY <1>3, <2>2 DEF Computes, new
  <2> QED BY <2>3 DEF b
<1> QED BY <1>6, <1>7

-----------------------------------------------------------------------------
\* What the compiler makes of a request.
LEMMA CompiledRight ==
    ASSUME NEW op \in Op, NEW s \in Shape
    PROVE  Compiled[op][s] \in Hwx /\ Computes(Compiled[op][s], op, s) /\ Compiled[op][s] # NoHwx
BY CompilerAssumption

\* What a request is.
LEMMA RequestFacts ==
    ASSUME NEW t \in Thread, NEW r \in Requests[t]
    PROVE  /\ r \in Request /\ r.op \in Op
           /\ r.shape \in Shape /\ Dir(r) \in Shape \X Names
BY HwxAssumption DEF Request, Dir

\* The invariant follows from what a step does to one thread t, when the
\* other threads keep their state and the files of their directories.
LEMMA OneThread ==
    ASSUME IInv, NEW t \in Thread, TypeOK',
           Asking(t)', Warm(t)', Stubs(t)', Cached(t)', DirsApart => Written(t)' /\ Answer(t)',
           \A u \in Thread \ {t} :
               /\ shapes'[u] = shapes[u] /\ configs'[u] = configs[u] /\ pc'[u] = pc[u]
               /\ req'[u] = req[u] /\ stub'[u] = stub[u] /\ got'[u] = got[u]
               /\ DirsApart /\ pc[u] = "reload" => file'[Dir(req[u])] = file[Dir(req[u])]
    PROVE  IInv'
<1>1. ASSUME NEW u \in Thread, u # t
      PROVE  /\ Asking(u)' /\ Warm(u)' /\ Stubs(u)' /\ Cached(u)'
             /\ DirsApart => Written(u)' /\ Answer(u)'
  <2>1. Asking(u)' /\ Stubs(u)'
    BY <1>1 DEF IInv, Asking, Stubs
  <2>2. Warm(u)' /\ Cached(u)'
    BY <1>1 DEF IInv, Warm, CanEmit, Cached
  <2>3. DirsApart => Written(u)' /\ Answer(u)'
    BY <1>1 DEF IInv, Written, Answer
  <2> QED BY <2>1, <2>2, <2>3
<1> QED BY <1>1 DEF IInv

\* Where directories are apart, a file a thread writes is nobody else's.
LEMMA OthersFiles ==
    ASSUME IInv, NEW t \in Thread, pc[t] # "idle", NEW x,
           file' = [file EXCEPT ![Dir(req[t])] = x], DirsApart,
           NEW u \in Thread, u # t, pc[u] # "idle"
    PROVE  file'[Dir(req[u])] = file[Dir(req[u])]
<1>1. req[t] \in Requests[t] /\ req[u] \in Requests[u]
  BY DEF IInv, Asking
<1>2. Dir(req[t]) # Dir(req[u])
  BY <1>1 DEF DirsApart
<1>3. Dir(req[u]) \in Shape \X Names
  BY <1>1, RequestFacts
<1> QED BY <1>2, <1>3 DEF IInv, TypeOK

-----------------------------------------------------------------------------
LEMMA CompileGroupStep ==
    ASSUME IInv, NEW t \in Thread, NEW r \in Requests[t], CompileGroup(t, r)
    PROVE  IInv'
<1>1. /\ req' = [req EXCEPT ![t] = r] /\ got' = [got EXCEPT ![t] = NoHwx]
      /\ pc' = [pc EXCEPT ![t] = IF CanEmit(t, r) THEN "warm" ELSE "cold"]
      /\ shapes' = shapes /\ configs' = configs /\ file' = file /\ stub' = stub
      /\ pc[t] = "idle"
  BY DEF CompileGroup, Goto
<1>2. TypeOK /\ Stubs(t) /\ Cached(t)
  BY DEF IInv
<1>3. /\ req'[t] = r /\ got'[t] = NoHwx
      /\ pc'[t] = IF CanEmit(t, r) THEN "warm" ELSE "cold"
  BY <1>1, <1>2 DEF TypeOK
<1>4. TypeOK'
  BY <1>1, <1>2, RequestFacts DEF TypeOK, Label, Program
<1>5. Asking(t)' /\ Stubs(t)' /\ Written(t)' /\ Answer(t)'
  BY <1>1, <1>2, <1>3 DEF Asking, Stubs, Written, Answer
<1>6. Warm(t)' /\ Cached(t)'
  BY <1>1, <1>2, <1>3 DEF Warm, CanEmit, Cached
<1> QED BY <1>1, <1>2, <1>4, <1>5, <1>6, OneThread DEF TypeOK

LEMMA CompileStubStep ==
    ASSUME IInv, NEW t \in Thread, CompileStub(t)
    PROVE  IInv'
<1> DEFINE hwx == Compiled["RELU"][req[t].shape]
<1>1. /\ file' = [file EXCEPT ![Dir(req[t])] = hwx]
      /\ stub' = [stub EXCEPT ![t] = hwx] /\ pc' = [pc EXCEPT ![t] = "write"]
      /\ shapes' = shapes /\ configs' = configs /\ req' = req /\ got' = got
      /\ pc[t] = "warm"
  BY DEF CompileStub, Goto, Stub
<1>2. TypeOK /\ Asking(t) /\ Warm(t) /\ Cached(t) /\ (DirsApart => Answer(t))
  BY DEF IInv
<1>3. pc'[t] = "write" /\ hwx \in Hwx
  BY <1>1, <1>2, HwxAssumption, RequestFacts, CompiledRight DEF TypeOK, Asking
<1> HIDE DEF hwx
<1>4. TypeOK'
  BY <1>1, <1>2, <1>3 DEF TypeOK, Label, Program
<1>5. Asking(t)' /\ Stubs(t)' /\ Written(t)' /\ (DirsApart => Answer(t)')
  BY <1>1, <1>2, <1>3 DEF Asking, Stubs, Written, Answer
<1>6. Warm(t)' /\ Cached(t)'
  BY <1>1, <1>2, <1>3 DEF Warm, CanEmit, Cached
<1>7. ASSUME NEW u \in Thread \ {t}, DirsApart, pc[u] = "reload"
      PROVE  file'[Dir(req[u])] = file[Dir(req[u])]
  BY <1>1, <1>7, OthersFiles
<1> QED BY <1>1, <1>2, <1>4, <1>5, <1>6, <1>7, OneThread DEF TypeOK

\* What emit returns is a binary of the op and the shape asked for.
LEMMA EmitRight ==
    ASSUME IInv, NEW t \in Thread, NEW r \in Requests[t], CanEmit(t, r)
    PROVE  Emit(t, r) \in Hwx /\ Computes(Emit(t, r), r.op, r.shape)
<1> DEFINE tmpl == shapes[t][r.shape]
<1>1. r.op \in Op /\ r.shape \in Shape /\ TypeOK /\ Cached(t)
  BY RequestFacts DEF IInv
<1>2. tmpl \in Hwx /\ configs[t][r.op] = ConfigOf[r.op]
  BY <1>1 DEF CanEmit, TypeOK, Cached, Program
<1>3. PICK op \in Op : Computes(tmpl, op, r.shape)
  BY <1>1 DEF CanEmit, Cached
<1>4. Emit(t, r) = patch_op(tmpl, ConfigOf[r.op], extract_op_config(tmpl))
  BY <1>2 DEF Emit
<1> HIDE DEF tmpl
<1> QED BY <1>1, <1>2, <1>3, <1>4, PatchRight

LEMMA WriteHwxStep ==
    ASSUME IInv, NEW t \in Thread, WriteHwx(t)
    PROVE  IInv'
<1>1. /\ file' = [file EXCEPT ![Dir(req[t])] = Emit(t, req[t])]
      /\ stub' = stub /\ pc' = [pc EXCEPT ![t] = "reload"]
      /\ shapes' = shapes /\ configs' = configs /\ req' = req /\ got' = got
      /\ pc[t] = "write"
  BY DEF WriteHwx, Goto
<1>2. TypeOK /\ Asking(t) /\ Warm(t) /\ Cached(t) /\ (DirsApart => Answer(t))
  BY DEF IInv
<1>3. pc'[t] = "reload"
  BY <1>1, <1>2 DEF TypeOK
<1>4. /\ req[t] \in Requests[t] /\ Dir(req[t]) \in Shape \X Names
      /\ Emit(t, req[t]) \in Hwx /\ Computes(Emit(t, req[t]), req[t].op, req[t].shape)
  BY <1>1, <1>2, RequestFacts, EmitRight DEF Asking, Warm
<1>5. TypeOK'
  BY <1>1, <1>2, <1>3, <1>4 DEF TypeOK, Label, Program
<1>6. Asking(t)' /\ Stubs(t)' /\ (DirsApart => Answer(t)')
  BY <1>1, <1>2, <1>3 DEF Asking, Stubs, Answer
<1>7. Written(t)'
  <2>1. file'[Dir(req[t])] = Emit(t, req[t]) /\ req'[t] = req[t]
    BY <1>1, <1>2, <1>4 DEF TypeOK
  <2> QED BY <1>1, <1>4, <2>1 DEF Written
<1>8. Warm(t)' /\ Cached(t)'
  BY <1>1, <1>2, <1>3 DEF Warm, CanEmit, Cached
<1>9. ASSUME NEW u \in Thread \ {t}, DirsApart, pc[u] = "reload"
      PROVE  file'[Dir(req[u])] = file[Dir(req[u])]
  BY <1>1, <1>9, OthersFiles
<1> QED BY <1>1, <1>2, <1>5, <1>6, <1>7, <1>8, <1>9, OneThread DEF TypeOK

LEMMA ReloadHwxStep ==
    ASSUME IInv, NEW t \in Thread, ReloadHwx(t)
    PROVE  IInv'
<1>1. /\ got' = [got EXCEPT ![t] = file[Dir(req[t])]]
      /\ stub' = [stub EXCEPT ![t] = NoHwx] /\ pc' = [pc EXCEPT ![t] = "idle"]
      /\ shapes' = shapes /\ configs' = configs /\ req' = req /\ file' = file
      /\ pc[t] = "reload"
  BY DEF ReloadHwx, Goto, Stub
<1>2. TypeOK /\ Asking(t) /\ Cached(t) /\ (DirsApart => Written(t))
  BY DEF IInv
<1>3. /\ pc'[t] = "idle" /\ stub'[t] = NoHwx /\ got'[t] = file[Dir(req[t])]
      /\ Dir(req[t]) \in Shape \X Names
  BY <1>1, <1>2, RequestFacts DEF TypeOK, Asking
<1>4. TypeOK'
  BY <1>1, <1>2, <1>3 DEF TypeOK, Label, Program
<1>5. Asking(t)' /\ Stubs(t)' /\ Written(t)' /\ Warm(t)' /\ Cached(t)'
  BY <1>1, <1>2, <1>3 DEF Asking, Stubs, Written, Warm, Cached
<1>6. DirsApart => Answer(t)'
  BY <1>1, <1>2, <1>3 DEF Answer, Written
<1> QED BY <1>1, <1>2, <1>4, <1>5, <1>6, OneThread DEF TypeOK

LEMMA LoadHwxFailsStep ==
    ASSUME IInv, NEW t \in Thread, LoadHwxFails(t)
    PROVE  IInv'
<1>1. /\ stub' = [stub EXCEPT ![t] = NoHwx] /\ pc' = [pc EXCEPT ![t] = "cold"]
      /\ shapes' = shapes /\ configs' = configs /\ req' = req /\ file' = file /\ got' = got
      /\ pc[t] \in {"warm", "write", "reload"}
  BY DEF LoadHwxFails, Goto, Stub
<1>2. TypeOK /\ Asking(t) /\ Cached(t) /\ (DirsApart => Answer(t))
  BY DEF IInv
<1>3. pc'[t] = "cold" /\ stub'[t] = NoHwx
  BY <1>1, <1>2 DEF TypeOK
<1>4. TypeOK'
  BY <1>1, <1>2 DEF TypeOK, Label, Program
<1>5. /\ Asking(t)' /\ Stubs(t)' /\ Written(t)' /\ Warm(t)' /\ Cached(t)'
      /\ DirsApart => Answer(t)'
  BY <1>1, <1>2, <1>3 DEF Asking, Stubs, Written, Warm, Cached, Answer
<1> QED BY <1>1, <1>2, <1>4, <1>5, OneThread DEF TypeOK

LEMMA CompileMilStep ==
    ASSUME IInv, NEW t \in Thread, CompileMil(t)
    PROVE  IInv'
<1> DEFINE hwx == Compiled[req[t].op][req[t].shape]
<1>1. /\ shapes' = shapes /\ configs' = configs /\ req' = req /\ file' = file /\ stub' = stub
      /\ pc[t] = "cold"
      /\ \/ got' = [got EXCEPT ![t] = hwx] /\ pc' = [pc EXCEPT ![t] = "capture"]
         \/ got' = got /\ pc' = [pc EXCEPT ![t] = "idle"]
  BY DEF CompileMil, Goto
<1>2. TypeOK /\ Asking(t) /\ Stubs(t) /\ Cached(t) /\ (DirsApart => Answer(t))
  BY DEF IInv
<1>3. hwx \in Hwx /\ Computes(hwx, req[t].op, req[t].shape)
  BY <1>1, <1>2, RequestFacts, CompiledRight DEF Asking
<1> HIDE DEF hwx
<1>4. \/ got'[t] = hwx /\ pc'[t] = "capture"
      \/ got'[t] = got[t] /\ pc'[t] = "idle"
  BY <1>1, <1>2 DEF TypeOK
<1>5. TypeOK'
  BY <1>1, <1>2, <1>3 DEF TypeOK, Label, Program
<1>6. /\ Asking(t)' /\ Stubs(t)' /\ Written(t)' /\ Warm(t)' /\ Cached(t)'
      /\ DirsApart => Answer(t)'
  BY <1>1, <1>2, <1>3, <1>4 DEF Asking, Stubs, Written, Warm, Cached, Answer
<1> QED BY <1>1, <1>2, <1>5, <1>6, OneThread DEF TypeOK

LEMMA CaptureStep ==
    ASSUME IInv, NEW t \in Thread, Capture(t)
    PROVE  IInv'
<1>1. /\ req' = req /\ file' = file /\ stub' = stub /\ got' = got
      /\ pc[t] = "capture" /\ pc' = [pc EXCEPT ![t] = "idle"]
  BY DEF Capture, Goto
<1>2. TypeOK /\ Stubs(t) /\ Asking(t) /\ Cached(t) /\ (DirsApart => Answer(t))
  BY DEF IInv
<1> DEFINE op == req[t].op
           s == req[t].shape
           hwx == Compiled[op][s]
<1>3. /\ pc'[t] = "idle" /\ op \in Op /\ s \in Shape
      /\ hwx \in Hwx /\ hwx # NoHwx /\ Computes(hwx, op, s)
  BY <1>1, <1>2, RequestFacts, CompiledRight DEF TypeOK, Asking
<1>4. valid_hwx(hwx) /\ extract_op_config(hwx) = ConfigOf[op]
  BY <1>3, ExtractRight
<1>5. /\ shapes' = shapes \/ shapes' = [shapes EXCEPT ![t][s] = hwx]
      /\ configs' = configs \/ configs' = [configs EXCEPT ![t][op] = ConfigOf[op]]
  <2>1. PICK f \in ModelDirFile(req[t]) :
           LET got_ == read_hwx_from_dir(f)
           IN  /\ shapes' = IF got_ = NoHwx \/ shapes[t][s] # NoHwx THEN shapes
                            ELSE [shapes EXCEPT ![t][s] = got_]
               /\ configs' = IF got_ = NoHwx \/ configs[t][op] # NoConfig THEN configs
                             ELSE [configs EXCEPT ![t][op] = extract_op_config(got_)]
    BY DEF Capture
  <2>2. read_hwx_from_dir(f) \in {NoHwx, hwx}
    <3>1. f \in {hwx, [hwx EXCEPT !.magic = FALSE], NoHwx}
      BY DEF ModelDirFile
    <3>2. ~valid_hwx([hwx EXCEPT !.magic = FALSE])
      BY <1>3 DEF valid_hwx, Hwx
    <3> HIDE DEF hwx
    <3> QED BY <3>1, <3>2 DEF read_hwx_from_dir
  <2> HIDE DEF hwx, op, s
  <2> QED BY <1>4, <2>1, <2>2
<1> HIDE DEF hwx, op, s
<1>6. hwx \in Program /\ ConfigOf[op] \in OpConfig
  BY <1>3, CompilerAssumption DEF Program
<1>7. /\ shapes' \in [Thread -> [Shape -> Program]]
      /\ \A u \in Thread \ {t} : shapes'[u] = shapes[u]
      /\ \A x \in Shape : shapes'[t][x] = shapes[t][x] \/ (x = s /\ shapes'[t][x] = hwx)
  <2>1. shapes \in [Thread -> [Shape -> Program]]
    BY <1>2 DEF TypeOK
  <2> DEFINE row == [shapes[t] EXCEPT ![s] = hwx]
  <2>2. /\ row \in [Shape -> Program]
        /\ \A x \in Shape : row[x] = shapes[t][x] \/ (x = s /\ row[x] = hwx)
    BY <1>6, <2>1
  <2>3. shapes' = shapes \/ shapes' = [shapes EXCEPT ![t] = row]
    BY <1>5
  <2> HIDE DEF row
  <2> QED BY <2>1, <2>2, <2>3
<1>8. /\ configs' \in [Thread -> [Op -> OpConfig \cup {NoConfig}]]
      /\ \A u \in Thread \ {t} : configs'[u] = configs[u]
      /\ \A x \in Op : configs'[t][x] = configs[t][x] \/ configs'[t][x] = ConfigOf[x]
  <2> DEFINE C == OpConfig \cup {NoConfig}
             row == [configs[t] EXCEPT ![op] = ConfigOf[op]]
  <2>1. configs \in [Thread -> [Op -> C]] /\ ConfigOf[op] \in C
    BY <1>2, <1>6 DEF TypeOK
  <2> HIDE DEF C
  <2>2. /\ row \in [Op -> C]
        /\ \A x \in Op : row[x] = configs[t][x] \/ row[x] = ConfigOf[x]
    BY <2>1
  <2>3. configs' = configs \/ configs' = [configs EXCEPT ![t] = row]
    BY <1>5
  <2> HIDE DEF row
  <2>4. /\ configs' \in [Thread -> [Op -> C]]
        /\ \A u \in Thread \ {t} : configs'[u] = configs[u]
        /\ \A x \in Op : configs'[t][x] = configs[t][x] \/ configs'[t][x] = ConfigOf[x]
    BY <2>1, <2>2, <2>3
  <2> QED BY <2>4 DEF C
<1>9. Cached(t)'
  BY <1>2, <1>3, <1>7, <1>8 DEF Cached
<1>10. TypeOK'
  BY <1>1, <1>2, <1>7, <1>8 DEF TypeOK, Label
<1>11. /\ Asking(t)' /\ Stubs(t)' /\ Written(t)' /\ Warm(t)'
       /\ DirsApart => Answer(t)'
  BY <1>1, <1>2, <1>3 DEF Asking, Stubs, Written, Warm, Answer
<1> QED BY <1>1, <1>2, <1>7, <1>8, <1>9, <1>10, <1>11, OneThread DEF TypeOK

-----------------------------------------------------------------------------
LEMMA InitEstablishes == Init => IInv
<1> SUFFICES ASSUME Init PROVE IInv
  OBVIOUS
<1>1. TypeOK
  BY DEF Init, TypeOK, Label, Program
<1>2. ASSUME NEW t \in Thread
      PROVE  Asking(t) /\ Warm(t) /\ Stubs(t) /\ Cached(t) /\ Written(t) /\ Answer(t)
  BY DEF Init, Asking, Warm, Stubs, Cached, Written, Answer
<1> QED BY <1>1, <1>2 DEF IInv

LEMMA NextKeeps == ASSUME IInv, [Next]_vars PROVE IInv'
<1>1. ASSUME NEW t \in Thread, NEW r \in Requests[t], CompileGroup(t, r) PROVE IInv'
  BY <1>1, CompileGroupStep
<1>2. ASSUME NEW t \in Thread, Step(t) PROVE IInv'
  BY <1>2, CompileStubStep, WriteHwxStep, ReloadHwxStep, LoadHwxFailsStep, CompileMilStep,
     CaptureStep DEF Step
<1>3. CASE UNCHANGED vars
  BY <1>3 DEF vars, IInv, TypeOK, Asking, Warm, CanEmit, Stubs, Cached, Written, Answer
<1> QED BY <1>1, <1>2, <1>3 DEF Next, Finished

\* The invariant of the HWX backend, for any threads and requests.
THEOREM HwxInvariant == Spec => []IInv
BY InitEstablishes, NextKeeps, PTL DEF Spec

\* compile_group leaves no stub model loaded, whether ane_load_hwx succeeded,
\* failed at any of its steps or was not tried.
THEOREM StubsUnloaded == Spec => []NoStubLeft
<1>1. IInv => NoStubLeft
  BY DEF IInv, Stubs, NoStubLeft
<1> QED BY <1>1, HwxInvariant, PTL

\* The HWX backend is additive as long as no two threads compile nodes of one
\* shape with the same tensor names: every interleaving of stub, write and
\* reload returns a program of the node's op at its shape, patched from the
\* template of any op with a configuration captured at any shape.  The
\* hypothesis is needed: MCHwxBackendRace violates Additive without it.
THEOREM AdditiveApart == Spec => [](DirsApart => Additive)
<1>1. IInv => (DirsApart => Additive)
  BY DEF IInv, Answer, Additive
<1> QED BY <1>1, HwxInvariant, PTL
=============================================================================
