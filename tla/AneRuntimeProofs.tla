-------------------------- MODULE AneRuntimeProofs --------------------------
(***************************************************************************)
(* Proofs about AneRuntime, for any number of threads and programs:        *)
(* initialize tells everybody the same, and references, mappings and       *)
(* loaded models are balanced whichever calls of the framework fail.       *)
(***************************************************************************)
EXTENDS AneRuntime, TLAPS

(***************************************************************************)
(* The inductive invariant.  initialize: who runs do_initialize (Runner),  *)
(* what is published when (Published).  A program: what the call that      *)
(* works on it has retained and not stored yet (Pending), so that refs is  *)
(* known in the middle of every call.                                      *)
(***************************************************************************)
State == {"Uninitialized", "Fallback", "Available"}

InitTypeOK ==
    /\ g_state \in State
    /\ once \in {"no", "running", "done"}
    /\ pc \in [Thread -> {"out", "once", "path A", "path B"}]
    /\ seen \in [Thread -> State]

\* One thread at a time is in do_initialize, and only while the flag says so.
Runner ==
    \A t \in Thread : pc[t] \in {"path A", "path B"} =>
        /\ once = "running"
        /\ pc[t] = "path B" => "loaded" \in syms
        /\ \A u \in Thread : pc[u] \in {"path A", "path B"} => u = t

\* The verdict is published with the flag, and told as it is then.
Published ==
    /\ once = "running" => g_state = "Fallback"
    /\ g_state = "Available" => once = "done" /\ "loaded" \in syms
    /\ \A t \in Thread : seen[t] # "Uninitialized" => once = "done" /\ seen[t] = g_state

InitIInv == InitTypeOK /\ Runner /\ Published

Phase ==
    {"none", "ready", "fast path", "model at URL", "load client", "surfaces",
     "wrap", "request", "map", "evaluate"}

\* The objects that the call at l has retained and not stored in the program.
Pending(l) ==
    CASE l = "model at URL" -> {"objc_ane_client"}
      [] l \in {"load client", "surfaces"} -> {"objc_ane_client", "objc_client_model"}
      [] l = "request" -> Wrappers
      [] l = "map" -> Wrappers \cup {"client_request"}
      [] OTHER -> {}

ProgTypeOK ==
    /\ phase \in [Program -> Phase]
    /\ fields \in [Program -> SUBSET Object]
    /\ refs \in [Program -> [Object -> Int]]
    /\ device \in [Program -> BOOLEAN]
    /\ mapped \in [Program -> BOOLEAN]
    /\ client_mapped \in [Program -> BOOLEAN]
    /\ orphan \subseteq Program

\* The pointers a program has at each place of the calls.
FieldsOK(p) ==
    /\ phase[p] \in {"none", "model at URL", "load client", "surfaces"} => fields[p] = {}
    /\ phase[p] = "fast path" => fields[p] = {"objc_model"}
    /\ phase[p] \in {"wrap", "request", "map"} => ~client_mapped[p]
    /\ phase[p] = "evaluate" => client_mapped[p]
    /\ client_mapped[p] => "client_request" \in fields[p]
    /\ ~client_mapped[p] => fields[p] \cap (Wrappers \cup {"client_request"}) = {}
    /\ mapped[p] <=> client_mapped[p]

\* Everything is retained once that is stored or pending, and nothing else.
Owned(p) == fields[p] \cup Pending(phase[p])
RefsOK(p) == \A o \in Object : refs[p][o] = IF o \in Owned(p) THEN 1 ELSE 0

\* A handle that does not exist has no model on the device unless it is an
\* orphan, and an orphan is not used again.
DeviceOK(p) ==
    /\ p \in orphan => phase[p] = "none"
    /\ phase[p] \in {"none", "model at URL", "load client"} => ~device[p] \/ p \in orphan

ProgIInv ==
    /\ ProgTypeOK
    /\ \A p \in Program : FieldsOK(p) /\ DeviceOK(p) /\ (HasStringId => RefsOK(p))

IInv == InitIInv /\ ProgIInv

-----------------------------------------------------------------------------
(***************************************************************************)
(* initialize                                                              *)
(***************************************************************************)

\* A step of one thread in initialize keeps InitIInv.
LEMMA InitializeStep ==
    ASSUME InitIInv, NEW t \in Thread, Initialize(t) \/ CallInitialize(t)
    PROVE  InitIInv'
<1> USE DEF InitIInv, InitTypeOK, State
<1>1. CASE CallInitialize(t)
  BY <1>1 DEF CallInitialize, Runner, Published
<1>2. CASE InitializeReturns(t)
  BY <1>2 DEF InitializeReturns, Runner, Published
<1>3. CASE InitializeBegin(t)
  <2>1. InitTypeOK' /\ Published'
    BY <1>3 DEF InitializeBegin, Published
  <2>2. \A u \in Thread : pc[u] \notin {"path A", "path B"}
    BY <1>3 DEF InitializeBegin, Runner
  <2>3. Runner'
    BY <1>3, <2>2 DEF InitializeBegin, Runner
  <2> QED BY <2>1, <2>3
<1>4. CASE ResolvePathA(t)
  <2>1. InitTypeOK' /\ Published'
    BY <1>4 DEF ResolvePathA, Runner, Published
  <2>2. Runner'
    BY <1>4 DEF ResolvePathA, Runner
  <2> QED BY <2>1, <2>2
<1>5. CASE ResolvePathB(t)
  <2>1. InitTypeOK' /\ Published'
    BY <1>5 DEF ResolvePathB, Runner, Published
  <2>2. Runner'
    BY <1>5 DEF ResolvePathB, Runner
  <2> QED BY <2>1, <2>2
<1> QED BY <1>1, <1>2, <1>3, <1>4, <1>5 DEF Initialize

-----------------------------------------------------------------------------
(***************************************************************************)
(* A program                                                               *)
(***************************************************************************)

\* The invariant of the programs follows from what a step does to one.
LEMMA OneProgram ==
    ASSUME ProgIInv, NEW p \in Program, ProgTypeOK',
           FieldsOK(p)', DeviceOK(p)', HasStringId => RefsOK(p)',
           \A q \in Program \ {p} :
               /\ phase'[q] = phase[q] /\ fields'[q] = fields[q] /\ refs'[q] = refs[q]
               /\ (device'[q] <=> device[q]) /\ (mapped'[q] <=> mapped[q])
               /\ (client_mapped'[q] <=> client_mapped[q]) /\ (q \in orphan' <=> q \in orphan)
    PROVE  ProgIInv'
<1>1. ASSUME NEW q \in Program, q # p
      PROVE  FieldsOK(q)' /\ DeviceOK(q)' /\ (HasStringId => RefsOK(q)')
  <2>1. FieldsOK(q)'
    BY <1>1 DEF ProgIInv, FieldsOK
  <2>2. DeviceOK(q)'
    BY <1>1 DEF ProgIInv, DeviceOK
  <2>3. HasStringId => RefsOK(q)'
    BY <1>1 DEF ProgIInv, RefsOK, Owned
  <2> QED BY <2>1, <2>2, <2>3
<1> QED BY <1>1 DEF ProgIInv

\* Retaining what a program does not own and releasing what it owns keeps the
\* count right, and touches no other program.
LEMMA RetainFacts ==
    ASSUME ProgTypeOK, NEW p \in Program, NEW S, Retain(p, S)
    PROVE  /\ refs' \in [Program -> [Object -> Int]]
           /\ \A q \in Program \ {p} : refs'[q] = refs[q]
           /\ RefsOK(p) /\ Owned(p) \cap S = {} /\ Owned(p)' = Owned(p) \cup S => RefsOK(p)'
<1> DEFINE new == [o \in Object |-> IF o \in S THEN refs[p][o] + 1 ELSE refs[p][o]]
<1>1. refs \in [Program -> [Object -> Int]]
  BY DEF ProgTypeOK
<1>2. refs' = [refs EXCEPT ![p] = new]
  BY DEF Retain
<1>3. new \in [Object -> Int]
  BY <1>1
<1>4. \A o \in Object : new[o] = IF o \in S THEN refs[p][o] + 1 ELSE refs[p][o]
  OBVIOUS
<1> HIDE DEF new
<1>5. refs' \in [Program -> [Object -> Int]] /\ \A q \in Program \ {p} : refs'[q] = refs[q]
  BY <1>1, <1>2, <1>3
<1>6. refs'[p] = new
  BY <1>1, <1>2
<1>7. ASSUME RefsOK(p), Owned(p) \cap S = {}, Owned(p)' = Owned(p) \cup S
      PROVE  RefsOK(p)'
  <2> SUFFICES ASSUME NEW o \in Object PROVE refs'[p][o] = IF o \in Owned(p)' THEN 1 ELSE 0
    BY DEF RefsOK
  <2>1. refs[p][o] = IF o \in Owned(p) THEN 1 ELSE 0
    BY <1>7 DEF RefsOK
  <2> QED BY <1>4, <1>6, <1>7, <2>1
<1> QED BY <1>5, <1>7

LEMMA ReleaseFacts ==
    ASSUME ProgTypeOK, NEW p \in Program, NEW S, ReleaseAll(p, S)
    PROVE  /\ refs' \in [Program -> [Object -> Int]]
           /\ \A q \in Program \ {p} : refs'[q] = refs[q]
           /\ RefsOK(p) /\ S \subseteq Owned(p) /\ Owned(p)' = Owned(p) \ S => RefsOK(p)'
<1> DEFINE new == [o \in Object |-> IF o \in S THEN refs[p][o] - 1 ELSE refs[p][o]]
<1>1. refs \in [Program -> [Object -> Int]]
  BY DEF ProgTypeOK
<1>2. refs' = [refs EXCEPT ![p] = new]
  BY DEF ReleaseAll
<1>3. new \in [Object -> Int]
  BY <1>1
<1>4. \A o \in Object : new[o] = IF o \in S THEN refs[p][o] - 1 ELSE refs[p][o]
  OBVIOUS
<1> HIDE DEF new
<1>5. refs' \in [Program -> [Object -> Int]] /\ \A q \in Program \ {p} : refs'[q] = refs[q]
  BY <1>1, <1>2, <1>3
<1>6. refs'[p] = new
  BY <1>1, <1>2
<1>7. ASSUME RefsOK(p), S \subseteq Owned(p), Owned(p)' = Owned(p) \ S
      PROVE  RefsOK(p)'
  <2> SUFFICES ASSUME NEW o \in Object PROVE refs'[p][o] = IF o \in Owned(p)' THEN 1 ELSE 0
    BY DEF RefsOK
  <2>1. refs[p][o] = IF o \in Owned(p) THEN 1 ELSE 0
    BY <1>7 DEF RefsOK
  <2> QED BY <1>4, <1>6, <1>7, <2>1
<1> QED BY <1>5, <1>7

\* A program whose references are left alone and that owns the same.
LEMMA SameRefs ==
    ASSUME NEW p \in Program, RefsOK(p), refs' = refs, Owned(p)' = Owned(p)
    PROVE  RefsOK(p)'
BY DEF RefsOK

\* What is pending where.
LEMMA PendingFacts ==
    /\ \A l \in {"none", "ready", "fast path", "wrap", "evaluate"} : Pending(l) = {}
    /\ Pending("model at URL") = {"objc_ane_client"}
    /\ Pending("load client") = {"objc_ane_client", "objc_client_model"}
    /\ Pending("surfaces") = {"objc_ane_client", "objc_client_model"}
    /\ Pending("request") = Wrappers
    /\ Pending("map") = Wrappers \cup {"client_request"}
BY DEF Pending

\* ane_compile.
LEMMA CompileStep ==
    ASSUME ProgIInv, NEW p \in Program, Compile(p)
    PROVE  ProgIInv'
<1>1. /\ ProgTypeOK /\ FieldsOK(p) /\ DeviceOK(p) /\ (HasStringId => RefsOK(p))
      /\ phase[p] = "none" /\ p \notin orphan /\ orphan' = orphan
      /\ mapped' = mapped /\ client_mapped' = client_mapped
      /\ phase' = [phase EXCEPT ![p] = "fast path"]
      /\ fields' = [fields EXCEPT ![p] = fields[p] \cup {"objc_model"}]
      /\ device' = [device EXCEPT ![p] = TRUE]
      /\ Retain(p, {"objc_model"})
  BY DEF ProgIInv, Compile, Goto, Point, Load
<1>2. /\ phase'[p] = "fast path" /\ fields[p] = {} /\ fields'[p] = {"objc_model"}
      /\ ~mapped'[p] /\ ~client_mapped'[p]
  BY <1>1 DEF ProgTypeOK, FieldsOK
<1>3. ProgTypeOK'
  BY <1>1, RetainFacts DEF ProgTypeOK, Phase, Object, PathA
<1>4. FieldsOK(p)' /\ DeviceOK(p)'
  BY <1>1, <1>2 DEF FieldsOK, DeviceOK, Wrappers
<1>5. Owned(p) = {} /\ Owned(p)' = {"objc_model"}
  BY <1>1, <1>2, PendingFacts DEF Owned
<1>6. HasStringId => RefsOK(p)'
  BY <1>1, <1>5, RetainFacts
<1> QED BY <1>1, <1>3, <1>4, <1>6, RetainFacts, OneProgram DEF ProgTypeOK

LEMMA FastPathStep ==
    ASSUME ProgIInv, NEW p \in Program, FastPath(p)
    PROVE  ProgIInv'
<1> DEFINE fast == {"objc_inner_model", "objc_program"}
<1>1. /\ ProgTypeOK /\ FieldsOK(p) /\ DeviceOK(p) /\ (HasStringId => RefsOK(p))
      /\ phase[p] = "fast path" /\ orphan' = orphan /\ device' = device
      /\ mapped' = mapped /\ client_mapped' = client_mapped
      /\ phase' = [phase EXCEPT ![p] = "ready"]
      /\ \/ refs' = refs /\ fields' = fields
         \/ Retain(p, fast) /\ fields' = [fields EXCEPT ![p] = fields[p] \cup fast]
         \/ ~HasStringId /\ Retain(p, fast) /\ fields' = fields
  BY DEF ProgIInv, FastPath, Goto, Point
<1>2. /\ phase'[p] = "ready" /\ fields[p] = {"objc_model"} /\ p \notin orphan
      /\ ~mapped'[p] /\ ~client_mapped'[p]
      /\ fields' = fields \/ fields'[p] = {"objc_model"} \cup fast
  BY <1>1 DEF ProgTypeOK, FieldsOK, DeviceOK
<1>3. ProgTypeOK'
  <2>1. phase' \in [Program -> Phase] /\ refs' \in [Program -> [Object -> Int]]
    BY <1>1, RetainFacts DEF ProgTypeOK, Phase
  <2>2. fields' \in [Program -> SUBSET Object]
    <3>1. fast \subseteq Object
      BY DEF Object, PathA
    <3> HIDE DEF fast
    <3> QED BY <1>1, <3>1, ZenonT(60) DEF ProgTypeOK
  <2> QED BY <1>1, <2>1, <2>2 DEF ProgTypeOK
<1>4. FieldsOK(p)' /\ DeviceOK(p)'
  BY <1>1, <1>2 DEF FieldsOK, DeviceOK, Wrappers
<1>5. HasStringId => RefsOK(p)'
  <2>1. Owned(p) = {"objc_model"}
    BY <1>1, <1>2, PendingFacts DEF Owned
  <2>2. CASE refs' = refs /\ fields' = fields
    <3>1. Owned(p)' = {"objc_model"}
      BY <1>2, <2>2, PendingFacts DEF Owned
    <3> QED BY <1>1, <2>1, <2>2, <3>1, SameRefs
  <2>3. CASE Retain(p, fast) /\ fields' = [fields EXCEPT ![p] = fields[p] \cup fast]
    <3>1. Owned(p)' = {"objc_model"} \cup fast
      BY <1>1, <1>2, <2>3, PendingFacts DEF Owned, ProgTypeOK
    <3>2. Owned(p) \cap fast = {} /\ Owned(p)' = Owned(p) \cup fast
      BY <2>1, <3>1
    <3> HIDE DEF fast
    <3> QED BY <1>1, <2>3, <3>2, RetainFacts
  <2> QED BY <1>1, <2>2, <2>3
<1> QED BY <1>1, <1>3, <1>4, <1>5, RetainFacts, OneProgram DEF ProgTypeOK

-----------------------------------------------------------------------------
(***************************************************************************)
(* ane_load_mlmodelc                                                       *)
(***************************************************************************)
LEMMA ConnectStep ==
    ASSUME ProgIInv, NEW p \in Program, Connect(p)
    PROVE  ProgIInv'
<1>1. /\ ProgTypeOK /\ FieldsOK(p) /\ DeviceOK(p) /\ (HasStringId => RefsOK(p))
      /\ phase[p] = "none" /\ p \notin orphan /\ orphan' = orphan /\ device' = device
      /\ mapped' = mapped /\ client_mapped' = client_mapped /\ fields' = fields
      /\ phase' = [phase EXCEPT ![p] = "model at URL"]
      /\ Retain(p, {"objc_ane_client"})
  BY DEF ProgIInv, Connect, Goto
<1>2. phase'[p] = "model at URL" /\ fields[p] = {}
  BY <1>1 DEF ProgTypeOK, FieldsOK
<1>3. ProgTypeOK'
  BY <1>1, RetainFacts DEF ProgTypeOK, Phase
<1>4. FieldsOK(p)' /\ DeviceOK(p)'
  BY <1>1, <1>2 DEF FieldsOK, DeviceOK
<1>5. Owned(p) = {} /\ Owned(p)' = {"objc_ane_client"}
  BY <1>1, <1>2, PendingFacts DEF Owned
<1>6. HasStringId => RefsOK(p)'
  BY <1>1, <1>5, RetainFacts
<1> QED BY <1>1, <1>3, <1>4, <1>6, RetainFacts, OneProgram DEF ProgTypeOK

LEMMA ModelAtURLStep ==
    ASSUME ProgIInv, NEW p \in Program, ModelAtURL(p)
    PROVE  ProgIInv'
<1>1. /\ ProgTypeOK /\ FieldsOK(p) /\ DeviceOK(p) /\ (HasStringId => RefsOK(p))
      /\ phase[p] = "model at URL" /\ orphan' = orphan /\ device' = device
      /\ mapped' = mapped /\ client_mapped' = client_mapped /\ fields' = fields
  BY DEF ProgIInv, ModelAtURL
<1>2. fields[p] = {} /\ p \notin orphan /\ Owned(p) = {"objc_ane_client"}
  BY <1>1, PendingFacts DEF FieldsOK, DeviceOK, Owned
<1>3. CASE ReleaseAll(p, {"objc_ane_client"}) /\ phase' = [phase EXCEPT ![p] = "none"]
  <2>1. phase'[p] = "none"
    BY <1>1, <1>3 DEF ProgTypeOK
  <2>2. ProgTypeOK'
    BY <1>1, <1>3, ReleaseFacts DEF ProgTypeOK, Phase
  <2>3. FieldsOK(p)' /\ DeviceOK(p)'
    BY <1>1, <1>2, <2>1 DEF FieldsOK, DeviceOK
  <2>4. Owned(p)' = {}
    BY <1>1, <1>2, <2>1, PendingFacts DEF Owned
  <2>5. HasStringId => RefsOK(p)'
    BY <1>1, <1>2, <1>3, <2>4, ReleaseFacts
  <2> QED BY <1>1, <1>3, <2>2, <2>3, <2>5, ReleaseFacts, OneProgram DEF ProgTypeOK
<1>4. CASE Retain(p, {"objc_client_model"}) /\ phase' = [phase EXCEPT ![p] = "load client"]
  <2>1. phase'[p] = "load client"
    BY <1>1, <1>4 DEF ProgTypeOK
  <2>2. ProgTypeOK'
    BY <1>1, <1>4, RetainFacts DEF ProgTypeOK, Phase
  <2>3. FieldsOK(p)' /\ DeviceOK(p)'
    BY <1>1, <1>2, <2>1 DEF FieldsOK, DeviceOK
  <2>4. /\ Owned(p) \cap {"objc_client_model"} = {}
        /\ Owned(p)' = Owned(p) \cup {"objc_client_model"}
    BY <1>1, <1>2, <2>1, PendingFacts DEF Owned
  <2>5. HasStringId => RefsOK(p)'
    BY <1>1, <1>2, <1>4, <2>4, RetainFacts
  <2> QED BY <1>1, <1>4, <2>2, <2>3, <2>5, RetainFacts, OneProgram DEF ProgTypeOK
<1> QED BY <1>3, <1>4 DEF ModelAtURL, Goto

LEMMA LoadClientStep ==
    ASSUME ProgIInv, NEW p \in Program, LoadClient(p)
    PROVE  ProgIInv'
<1> DEFINE both == {"objc_client_model", "objc_ane_client"}
<1>1. /\ ProgTypeOK /\ FieldsOK(p) /\ DeviceOK(p) /\ (HasStringId => RefsOK(p))
      /\ phase[p] = "load client" /\ orphan' = orphan
      /\ mapped' = mapped /\ client_mapped' = client_mapped /\ fields' = fields
  BY DEF ProgIInv, LoadClient
<1>2. fields[p] = {} /\ p \notin orphan /\ Owned(p) = both
  BY <1>1, PendingFacts DEF FieldsOK, DeviceOK, Owned
<1>3. CASE ReleaseAll(p, both) /\ phase' = [phase EXCEPT ![p] = "none"] /\ device' = device
  <2>1. phase'[p] = "none"
    BY <1>1, <1>3 DEF ProgTypeOK
  <2>2. ProgTypeOK'
    BY <1>1, <1>3, ReleaseFacts DEF ProgTypeOK, Phase
  <2>3. FieldsOK(p)' /\ DeviceOK(p)'
    BY <1>1, <1>2, <1>3, <2>1 DEF FieldsOK, DeviceOK
  <2>4. Owned(p)' = {}
    BY <1>1, <1>2, <2>1, PendingFacts DEF Owned
  <2>5. HasStringId => RefsOK(p)'
    BY <1>1, <1>2, <1>3, <2>4, ReleaseFacts
  <2> QED BY <1>1, <1>3, <2>2, <2>3, <2>5, ReleaseFacts, OneProgram DEF ProgTypeOK
<1>4. CASE /\ refs' = refs /\ phase' = [phase EXCEPT ![p] = "surfaces"]
           /\ device' = [device EXCEPT ![p] = TRUE]
  <2>1. phase'[p] = "surfaces"
    BY <1>1, <1>4 DEF ProgTypeOK
  <2>2. ProgTypeOK'
    BY <1>1, <1>4 DEF ProgTypeOK, Phase
  <2>3. FieldsOK(p)' /\ DeviceOK(p)'
    BY <1>1, <1>2, <2>1 DEF FieldsOK, DeviceOK
  <2>4. Owned(p)' = both
    BY <1>1, <1>2, <2>1, PendingFacts DEF Owned
  <2>5. HasStringId => RefsOK(p)'
    BY <1>1, <1>2, <1>4, <2>4, SameRefs
  <2> QED BY <1>1, <1>4, <2>2, <2>3, <2>5, OneProgram DEF ProgTypeOK
<1> QED BY <1>3, <1>4 DEF LoadClient, Goto, Load

LEMMA MakeSurfacesStep ==
    ASSUME ProgIInv, NEW p \in Program, MakeSurfaces(p)
    PROVE  ProgIInv'
<1> DEFINE both == {"objc_ane_client", "objc_client_model"}
<1>1. /\ ProgTypeOK /\ FieldsOK(p) /\ DeviceOK(p) /\ (HasStringId => RefsOK(p))
      /\ phase[p] = "surfaces" /\ device' = device
      /\ mapped' = mapped /\ client_mapped' = client_mapped
  BY DEF ProgIInv, MakeSurfaces
<1>2. /\ fields[p] = {} /\ p \notin orphan /\ Owned(p) = both
      /\ ~client_mapped[p] /\ ~mapped[p]
  BY <1>1, PendingFacts DEF FieldsOK, DeviceOK, Owned
<1>3. /\ both \cup Surfaces \subseteq Object /\ both \cap Surfaces = {}
      /\ (both \cup Surfaces) \cap (Wrappers \cup {"client_request"}) = {}
  BY DEF Object, PathB, Surfaces, Wrappers
<1>4. CASE /\ Retain(p, Surfaces) /\ phase' = [phase EXCEPT ![p] = "ready"]
           /\ fields' = [fields EXCEPT ![p] = fields[p] \cup (both \cup Surfaces)]
           /\ orphan' = orphan
  <2> HIDE DEF both
  <2>1. phase'[p] = "ready" /\ fields'[p] = both \cup Surfaces
    BY <1>1, <1>2, <1>4 DEF ProgTypeOK
  <2>2. ProgTypeOK'
    BY <1>1, <1>3, <1>4, RetainFacts DEF ProgTypeOK, Phase
  <2>3. FieldsOK(p)' /\ DeviceOK(p)'
    BY <1>1, <1>2, <1>3, <1>4, <2>1 DEF FieldsOK, DeviceOK
  <2>4. Owned(p)' = Owned(p) \cup Surfaces
    BY <1>1, <1>2, <2>1, PendingFacts DEF Owned
  <2>5. HasStringId => RefsOK(p)'
    BY <1>1, <1>2, <1>3, <1>4, <2>4, RetainFacts
  <2> QED BY <1>1, <1>4, <2>2, <2>3, <2>5, RetainFacts, OneProgram DEF ProgTypeOK
<1>5. CASE /\ ReleaseAll(p, both) /\ phase' = [phase EXCEPT ![p] = "none"]
           /\ orphan' = orphan \cup {p} /\ fields' = fields
  <2> HIDE DEF both
  <2>1. phase'[p] = "none"
    BY <1>1, <1>5 DEF ProgTypeOK
  <2>2. ProgTypeOK'
    BY <1>1, <1>5, ReleaseFacts DEF ProgTypeOK, Phase
  <2>3. FieldsOK(p)' /\ DeviceOK(p)'
    BY <1>1, <1>2, <1>5, <2>1 DEF FieldsOK, DeviceOK
  <2>4. Owned(p)' = {}
    BY <1>1, <1>2, <1>5, <2>1, PendingFacts DEF Owned
  <2>5. HasStringId => RefsOK(p)'
    BY <1>1, <1>2, <1>5, <2>4, ReleaseFacts
  <2> QED BY <1>1, <1>5, <2>2, <2>3, <2>5, ReleaseFacts, OneProgram DEF ProgTypeOK
<1> QED BY <1>4, <1>5 DEF MakeSurfaces, Goto, Point

-----------------------------------------------------------------------------
(***************************************************************************)
(* ane_execute_client, ane_delta_reload, ane_unload                        *)
(***************************************************************************)

\* Steps that move on and keep what the program owns.
LEMMA MoveStep ==
    ASSUME ProgIInv, NEW p \in Program, NEW l \in Phase,
           phase' = [phase EXCEPT ![p] = l],
           UNCHANGED <<fields, refs, mapped, client_mapped, orphan>>,
           device' \in [Program -> BOOLEAN],
           \A q \in Program \ {p} : device'[q] <=> device[q],
           p \notin orphan,
           l \in {"ready", "wrap", "evaluate"},
           l = "wrap" => ~client_mapped[p],
           l = "evaluate" => client_mapped[p],
           Pending(phase[p]) = {}
    PROVE  ProgIInv'
<1>1. /\ ProgTypeOK /\ FieldsOK(p) /\ DeviceOK(p) /\ (HasStringId => RefsOK(p))
      /\ phase'[p] = l
  BY DEF ProgIInv, ProgTypeOK
<1>2. ProgTypeOK'
  BY <1>1 DEF ProgTypeOK
<1>3. FieldsOK(p)' /\ DeviceOK(p)'
  BY <1>1 DEF FieldsOK, DeviceOK
<1>4. Owned(p)' = Owned(p)
  BY <1>1, PendingFacts DEF Owned
<1>5. HasStringId => RefsOK(p)'
  BY <1>1, <1>4, SameRefs
<1> QED BY <1>1, <1>2, <1>3, <1>5, OneProgram DEF ProgTypeOK

LEMMA ExecuteClientStep ==
    ASSUME ProgIInv, NEW p \in Program, ExecuteClient(p) \/ EvaluateDirect(p)
    PROVE  ProgIInv'
<1>1. ProgTypeOK /\ FieldsOK(p) /\ DeviceOK(p)
  BY DEF ProgIInv
<1>2. /\ phase[p] \in {"ready", "evaluate"}
      /\ UNCHANGED <<fields, refs, device, mapped, client_mapped, orphan>>
      /\ \E l \in {"ready", "wrap", "evaluate"} :
           /\ phase' = [phase EXCEPT ![p] = l]
           /\ l = "wrap" => ~client_mapped[p]
           /\ l = "evaluate" => client_mapped[p]
  BY DEF ExecuteClient, EvaluateDirect, Goto
<1>3. p \notin orphan /\ Pending(phase[p]) = {}
  BY <1>1, <1>2, PendingFacts DEF DeviceOK
<1> QED BY <1>1, <1>2, <1>3, MoveStep DEF ProgTypeOK, Phase

LEMMA WrapSurfacesStep ==
    ASSUME ProgIInv, NEW p \in Program, WrapSurfaces(p)
    PROVE  ProgIInv'
<1>1. /\ ProgTypeOK /\ FieldsOK(p) /\ DeviceOK(p) /\ (HasStringId => RefsOK(p))
      /\ phase[p] = "wrap" /\ orphan' = orphan /\ device' = device
      /\ mapped' = mapped /\ client_mapped' = client_mapped /\ fields' = fields
  BY DEF ProgIInv, WrapSurfaces
<1>2. /\ p \notin orphan /\ ~client_mapped[p] /\ Pending(phase[p]) = {}
      /\ Owned(p) = fields[p] /\ Owned(p) \cap Wrappers = {}
  BY <1>1, PendingFacts DEF FieldsOK, DeviceOK, Owned
<1>3. CASE refs' = refs /\ phase' = [phase EXCEPT ![p] = "ready"]
  BY <1>1, <1>2, <1>3, MoveStep DEF ProgTypeOK, Phase
<1>4. CASE Retain(p, Wrappers) /\ phase' = [phase EXCEPT ![p] = "request"]
  <2>1. phase'[p] = "request"
    BY <1>1, <1>4 DEF ProgTypeOK
  <2>2. ProgTypeOK'
    BY <1>1, <1>4, RetainFacts DEF ProgTypeOK, Phase
  <2>3. FieldsOK(p)' /\ DeviceOK(p)'
    BY <1>1, <1>2, <2>1 DEF FieldsOK, DeviceOK
  <2>4. Owned(p)' = Owned(p) \cup Wrappers
    BY <1>1, <1>2, <2>1, PendingFacts DEF Owned
  <2>5. HasStringId => RefsOK(p)'
    BY <1>1, <1>2, <1>4, <2>4, RetainFacts
  <2> QED BY <1>1, <1>4, <2>2, <2>3, <2>5, RetainFacts, OneProgram DEF ProgTypeOK
<1> QED BY <1>3, <1>4 DEF WrapSurfaces, Goto

LEMMA BuildRequestStep ==
    ASSUME ProgIInv, NEW p \in Program, BuildRequest(p)
    PROVE  ProgIInv'
<1>1. /\ ProgTypeOK /\ FieldsOK(p) /\ DeviceOK(p) /\ (HasStringId => RefsOK(p))
      /\ phase[p] = "request" /\ orphan' = orphan /\ device' = device
      /\ mapped' = mapped /\ client_mapped' = client_mapped /\ fields' = fields
  BY DEF ProgIInv, BuildRequest
<1>2. /\ p \notin orphan /\ ~client_mapped[p]
      /\ Owned(p) = fields[p] \cup Wrappers
      /\ fields[p] \cap (Wrappers \cup {"client_request"}) = {}
      /\ "client_request" \notin Wrappers
  BY <1>1, PendingFacts DEF FieldsOK, DeviceOK, Owned, Wrappers
<1>3. CASE ReleaseAll(p, Wrappers) /\ phase' = [phase EXCEPT ![p] = "ready"]
  <2>1. phase'[p] = "ready"
    BY <1>1, <1>3 DEF ProgTypeOK
  <2>2. ProgTypeOK'
    BY <1>1, <1>3, ReleaseFacts DEF ProgTypeOK, Phase
  <2>3. FieldsOK(p)' /\ DeviceOK(p)'
    BY <1>1, <1>2, <2>1 DEF FieldsOK, DeviceOK
  <2>4. Owned(p)' = Owned(p) \ Wrappers
    BY <1>1, <1>2, <2>1, PendingFacts DEF Owned
  <2>5. HasStringId => RefsOK(p)'
    BY <1>1, <1>2, <1>3, <2>4, ReleaseFacts
  <2> QED BY <1>1, <1>3, <2>2, <2>3, <2>5, ReleaseFacts, OneProgram DEF ProgTypeOK
<1>4. CASE Retain(p, {"client_request"}) /\ phase' = [phase EXCEPT ![p] = "map"]
  <2>1. phase'[p] = "map"
    BY <1>1, <1>4 DEF ProgTypeOK
  <2>2. ProgTypeOK'
    BY <1>1, <1>4, RetainFacts DEF ProgTypeOK, Phase
  <2>3. FieldsOK(p)' /\ DeviceOK(p)'
    BY <1>1, <1>2, <2>1 DEF FieldsOK, DeviceOK
  <2>4. Owned(p) \cap {"client_request"} = {} /\ Owned(p)' = Owned(p) \cup {"client_request"}
    BY <1>1, <1>2, <2>1, PendingFacts, ZenonT(60) DEF Owned
  <2>5. HasStringId => RefsOK(p)'
    BY <1>1, <1>4, <2>4, RetainFacts
  <2> QED BY <1>1, <1>4, <2>2, <2>3, <2>5, RetainFacts, OneProgram DEF ProgTypeOK
<1> QED BY <1>3, <1>4 DEF BuildRequest, Goto

LEMMA MapSurfacesStep ==
    ASSUME ProgIInv, NEW p \in Program, MapSurfaces(p)
    PROVE  ProgIInv'
<1> DEFINE made == Wrappers \cup {"client_request"}
<1>1. /\ ProgTypeOK /\ FieldsOK(p) /\ DeviceOK(p) /\ (HasStringId => RefsOK(p))
      /\ phase[p] = "map" /\ orphan' = orphan /\ device' = device
  BY DEF ProgIInv, MapSurfaces
<1>2. /\ p \notin orphan /\ ~client_mapped[p]
      /\ Owned(p) = fields[p] \cup made
      /\ fields[p] \cap made = {}
  BY <1>1, PendingFacts DEF FieldsOK, DeviceOK, Owned
<1>3. made \subseteq Object /\ "client_request" \in made
  BY DEF Object, PathB
<1>4. CASE /\ ReleaseAll(p, made) /\ phase' = [phase EXCEPT ![p] = "ready"]
           /\ fields' = fields /\ mapped' = mapped /\ client_mapped' = client_mapped
  <2> HIDE DEF made
  <2>1. phase'[p] = "ready"
    BY <1>1, <1>4 DEF ProgTypeOK
  <2>2. ProgTypeOK'
    BY <1>1, <1>4, ReleaseFacts DEF ProgTypeOK, Phase
  <2>3. FieldsOK(p)' /\ DeviceOK(p)'
    BY <1>1, <1>2, <1>4, <2>1 DEF FieldsOK, DeviceOK
  <2>4. made \subseteq Owned(p) /\ Owned(p)' = Owned(p) \ made
    BY <1>1, <1>2, <1>4, <2>1, PendingFacts DEF Owned
  <2>5. HasStringId => RefsOK(p)'
    BY <1>1, <1>4, <2>4, ReleaseFacts
  <2> QED BY <1>1, <1>4, <2>2, <2>3, <2>5, ReleaseFacts, OneProgram DEF ProgTypeOK
<1>5. CASE /\ mapped' = [mapped EXCEPT ![p] = TRUE]
           /\ client_mapped' = [client_mapped EXCEPT ![p] = TRUE]
           /\ fields' = [fields EXCEPT ![p] = fields[p] \cup made]
           /\ phase' = [phase EXCEPT ![p] = "evaluate"]
           /\ refs' = refs
  <2> HIDE DEF made
  <2>1. /\ phase'[p] = "evaluate" /\ fields'[p] = fields[p] \cup made
        /\ mapped'[p] /\ client_mapped'[p]
    BY <1>1, <1>5 DEF ProgTypeOK
  <2>2. ProgTypeOK'
    BY <1>1, <1>3, <1>5 DEF ProgTypeOK, Phase
  <2>3. FieldsOK(p)' /\ DeviceOK(p)'
    BY <1>1, <1>2, <1>3, <2>1 DEF FieldsOK, DeviceOK
  <2>4. Owned(p)' = Owned(p)
    BY <1>1, <1>2, <2>1, PendingFacts DEF Owned
  <2>5. HasStringId => RefsOK(p)'
    BY <1>1, <1>5, <2>4, SameRefs
  <2> QED BY <1>1, <1>5, <2>2, <2>3, <2>5, OneProgram DEF ProgTypeOK
<1> QED BY <1>4, <1>5 DEF MapSurfaces, Goto, Point

LEMMA DeltaReloadStep ==
    ASSUME ProgIInv, NEW p \in Program, DeltaReload(p)
    PROVE  ProgIInv'
<1>1. /\ ProgTypeOK /\ DeviceOK(p) /\ phase[p] = "ready"
      /\ UNCHANGED <<phase, fields, refs, mapped, client_mapped, orphan>>
  BY DEF ProgIInv, DeltaReload
<1>2. PICK ok \in BOOLEAN : device' = [device EXCEPT ![p] = ok]
  BY DEF DeltaReload, Load
<1>3. /\ phase' = [phase EXCEPT ![p] = "ready"]
      /\ device' \in [Program -> BOOLEAN]
      /\ \A q \in Program \ {p} : device'[q] <=> device[q]
  BY <1>1, <1>2 DEF ProgTypeOK
<1>4. p \notin orphan /\ Pending(phase[p]) = {}
  BY <1>1, PendingFacts DEF DeviceOK
<1> QED BY <1>1, <1>3, <1>4, MoveStep DEF Phase

LEMMA UnloadStep ==
    ASSUME ProgIInv, NEW p \in Program, Unload(p)
    PROVE  ProgIInv'
<1>1. /\ ProgTypeOK /\ FieldsOK(p) /\ DeviceOK(p) /\ (HasStringId => RefsOK(p))
      /\ phase[p] = "ready" /\ orphan' = orphan
      /\ mapped' = [mapped EXCEPT ![p] = mapped[p] /\ ~client_mapped[p]]
      /\ client_mapped' = [client_mapped EXCEPT ![p] = FALSE]
      /\ fields' = [fields EXCEPT ![p] = {}]
      /\ device' = [device EXCEPT ![p] = FALSE]
      /\ phase' = [phase EXCEPT ![p] = "none"]
      /\ ReleaseAll(p, fields[p])
  BY DEF ProgIInv, Unload, Goto, Load
<1>2. /\ phase'[p] = "none" /\ fields'[p] = {} /\ ~device'[p]
      /\ ~client_mapped'[p] /\ ~mapped'[p]
  BY <1>1 DEF ProgTypeOK, FieldsOK
<1>3. ProgTypeOK'
  BY <1>1, ReleaseFacts DEF ProgTypeOK, Phase
<1>4. FieldsOK(p)' /\ DeviceOK(p)'
  BY <1>1, <1>2 DEF FieldsOK, DeviceOK
<1>5. Owned(p) = fields[p] /\ Owned(p)' = {}
  BY <1>1, <1>2, PendingFacts DEF Owned
<1>6. fields[p] \subseteq Owned(p) /\ Owned(p)' = Owned(p) \ fields[p]
  BY <1>5
<1>7. HasStringId => RefsOK(p)'
  BY <1>1, <1>6, ReleaseFacts
<1> QED BY <1>1, <1>3, <1>4, <1>7, ReleaseFacts, OneProgram DEF ProgTypeOK

-----------------------------------------------------------------------------
(***************************************************************************)
(* The theorems                                                            *)
(***************************************************************************)

LEMMA InitEstablishes == Init => IInv
<1> SUFFICES ASSUME Init PROVE IInv
  OBVIOUS
<1>1. InitIInv
  BY DEF Init, InitIInv, InitTypeOK, Runner, Published, State
<1>2. ProgTypeOK
  BY DEF Init, ProgTypeOK, Phase
<1>3. ASSUME NEW p \in Program PROVE FieldsOK(p) /\ DeviceOK(p) /\ RefsOK(p)
  <2>1. FieldsOK(p) /\ DeviceOK(p)
    BY DEF Init, FieldsOK, DeviceOK
  <2>2. Owned(p) = {}
    BY PendingFacts DEF Init, Owned
  <2> QED BY <2>1, <2>2 DEF Init, RefsOK
<1> QED BY <1>1, <1>2, <1>3 DEF IInv, ProgIInv

\* A step of a program is none of initialize's business and conversely.
LEMMA InitFrame == ASSUME InitIInv, UNCHANGED initVars PROVE InitIInv'
BY DEF InitIInv, InitTypeOK, Runner, Published, initVars

LEMMA ProgFrame == ASSUME ProgIInv, UNCHANGED progVars PROVE ProgIInv'
BY DEF ProgIInv, ProgTypeOK, FieldsOK, DeviceOK, RefsOK, Owned, progVars

LEMMA NextKeeps == ASSUME IInv, [Next]_vars PROVE IInv'
<1> USE DEF IInv
<1>1. ASSUME NEW t \in Thread, Initialize(t) \/ (CallInitialize(t) /\ UNCHANGED progVars)
      PROVE  IInv'
  <2>1. UNCHANGED progVars
    BY <1>1 DEF Initialize
  <2> QED BY <1>1, <2>1, InitializeStep, ProgFrame
<1>2. ASSUME NEW p \in Program, Use(p)
      PROVE  IInv'
  <2>1. UNCHANGED initVars
    BY <1>2 DEF Use
  <2>2. ProgIInv'
    BY <1>2, CompileStep, FastPathStep, ConnectStep, ModelAtURLStep, LoadClientStep,
       MakeSurfacesStep, ExecuteClientStep, WrapSurfacesStep, BuildRequestStep,
       MapSurfacesStep, DeltaReloadStep, UnloadStep DEF Use
  <2> QED BY <2>1, <2>2, InitFrame
<1>3. CASE UNCHANGED vars
  BY <1>3, InitFrame, ProgFrame DEF vars
<1> QED BY <1>1, <1>2, <1>3 DEF Next

\* The invariant of the runtime wrapper, for any threads and programs: who is
\* in do_initialize and what is published when, and at every place of every
\* call what a program points to, retains, maps and has on the device.
THEOREM RuntimeInvariant == Spec => []IInv
BY InitEstablishes, NextKeeps, PTL DEF Spec

\* initialize tells every caller the same, and g_state says Available only
\* once do_initialize has decided both paths.
THEOREM InitializeAgrees == Spec => []InitAgrees
<1>1. IInv => InitAgrees
  BY DEF IInv, InitIInv, Published, InitAgrees
<1> QED BY <1>1, RuntimeInvariant, PTL

\* Where the inner model answers string_id, ane_compile, ane_load_mlmodelc,
\* ane_execute_client and ane_unload retain and release in balance, on every
\* path that fails; without string_id the fast path's two objects leak.
THEOREM ReferencesBalanced == Spec => [](HasStringId => RefsOwned)
<1>1. ASSUME HasStringId, IInv PROVE RefsOwned
  <2> SUFFICES ASSUME NEW p \in Program, NEW o \in Object
               PROVE  /\ refs[p][o] >= 0
                      /\ phase[p] \in {"none", "ready"} =>
                            refs[p][o] = IF o \in fields[p] THEN 1 ELSE 0
    BY DEF RefsOwned
  <2>1. refs[p][o] = IF o \in Owned(p) THEN 1 ELSE 0
    BY <1>1 DEF IInv, ProgIInv, RefsOK
  <2>2. phase[p] \in {"none", "ready"} => Owned(p) = fields[p]
    BY PendingFacts DEF Owned
  <2> QED BY <2>1, <2>2
<1>2. IInv => (HasStringId => RefsOwned)
  BY <1>1
<1> QED BY <1>2, RuntimeInvariant, PTL

\* A mapping in the kernel is always known to the program that undoes it, and
\* ane_unload leaves none behind.
THEOREM MappingsKnown == Spec => []MappingKnown
<1>1. ASSUME IInv PROVE MappingKnown
  <2> SUFFICES ASSUME NEW p \in Program
               PROVE  /\ mapped[p] = client_mapped[p]
                      /\ mapped[p] => phase[p] # "none" /\ "client_request" \in fields[p]
    BY DEF MappingKnown
  <2>1. mapped[p] \in BOOLEAN /\ client_mapped[p] \in BOOLEAN
    BY <1>1 DEF IInv, ProgIInv, ProgTypeOK
  <2>2. FieldsOK(p)
    BY <1>1 DEF IInv, ProgIInv
  <2> QED BY <2>1, <2>2 DEF FieldsOK
<1>2. IInv => MappingKnown
  BY <1>1
<1> QED BY <1>2, RuntimeInvariant, PTL

\* No model stays on the device without a handle but the one ane_load_mlmodelc
\* leaves there when a surface cannot be created.
THEOREM ModelsAccounted == Spec => []ModelsOwned
<1>1. IInv => ModelsOwned
  BY DEF IInv, ProgIInv, DeviceOK, ModelsOwned
<1> QED BY <1>1, RuntimeInvariant, PTL
=============================================================================
