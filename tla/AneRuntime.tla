----------------------------- MODULE AneRuntime -----------------------------
(***************************************************************************)
(* The runtime wrapper (src/runtime/ane_runtime.mm): initialize, and the   *)
(* life of an AneProgram, which ane_compile (Path A) or ane_load_mlmodelc  *)
(* (Path B) makes, the execute functions and ane_delta_reload use, and     *)
(* ane_unload destroys.                                                    *)
(*                                                                         *)
(* The file is built without ARC: what it retains or creates it must       *)
(* release, on every path.  `refs` counts that for each object of a        *)
(* program; an autoreleased object counts 0.  Every call to the private    *)
(* framework may fail.  One thread at a time uses a program; any number of *)
(* threads call initialize.                                                *)
(***************************************************************************)
EXTENDS Integers

CONSTANTS
    Thread,     \* threads that call initialize
    Program,    \* the AneProgram handles
    HasStringId \* the inner _ANEModel of this firmware answers string_id

ASSUME RuntimeAssumption == HasStringId \in BOOLEAN

VARIABLES
    g_state,    \* g_state
    syms,       \* g_syms: "loaded", "path_b_loaded"
    once,       \* g_init_flag: "no", "running", "done"
    pc,         \* where each thread is in initialize
    seen,       \* what its last initialize returned
    phase,      \* of a program: "none" (no handle), "ready" (the caller has
                \* it), or where the call that works on it is
    fields,     \* its pointers that are not null
    refs,       \* how often each of its objects is retained
    device,     \* whether its model is loaded on the device
    mapped,     \* whether its surfaces are mapped in the kernel
    client_mapped,
    orphan      \* the handles whose model was left loaded by a failed
                \* ane_load_mlmodelc

initVars == <<g_state, syms, once, pc, seen>>
progVars == <<phase, fields, refs, device, mapped, client_mapped, orphan>>
vars == <<initVars, progVars>>

PathA == {"objc_model", "objc_inner_model", "objc_program"}
Surfaces == {"client_in_surf", "client_out_surf"}
Wrappers == {"client_in_surf_obj", "client_out_surf_obj"}
PathB == {"objc_ane_client", "objc_client_model", "client_request"} \cup Surfaces \cup Wrappers
Object == PathA \cup PathB

Init ==
    /\ g_state = "Uninitialized" /\ syms = {} /\ once = "no"
    /\ pc = [t \in Thread |-> "out"]
    /\ seen = [t \in Thread |-> "Uninitialized"]
    /\ phase = [p \in Program |-> "none"]
    /\ fields = [p \in Program |-> {}]
    /\ refs = [p \in Program |-> [o \in Object |-> 0]]
    /\ device = [p \in Program |-> FALSE]
    /\ mapped = [p \in Program |-> FALSE]
    /\ client_mapped = [p \in Program |-> FALSE]
    /\ orphan = {}

-----------------------------------------------------------------------------
(* initialize: call_once(do_initialize), then g_state is returned.          *)

CallInitialize(t) ==
    /\ pc[t] = "out"
    /\ pc' = [pc EXCEPT ![t] = "once"]
    /\ UNCHANGED <<g_state, syms, once, seen>>

\* Everybody else waits in call_once while do_initialize runs.
InitializeReturns(t) ==
    /\ pc[t] = "once" /\ once = "done"
    /\ seen' = [seen EXCEPT ![t] = g_state]
    /\ pc' = [pc EXCEPT ![t] = "out"]
    /\ UNCHANGED <<g_state, syms, once>>

InitializeBegin(t) ==
    /\ pc[t] = "once" /\ once = "no"
    /\ once' = "running"
    /\ pc' = [pc EXCEPT ![t] = "path A"]
    /\ g_state' = "Fallback"
    /\ UNCHANGED <<syms, seen>>

\* Mutants of ResolvePathA: the state is published as soon as Path A is
\* there; the flag is not set on the early returns.
ResolvePathAPublishes(t) ==
    /\ pc[t] = "path A"
    /\ \/ /\ pc' = [pc EXCEPT ![t] = "once"] /\ once' = "done"
          /\ UNCHANGED <<syms, g_state>>
       \/ /\ syms' = syms \cup {"loaded"}
          /\ g_state' = "Available"
          /\ pc' = [pc EXCEPT ![t] = "path B"] /\ UNCHANGED once
    /\ UNCHANGED seen

ResolvePathAForgetsFlag(t) ==
    /\ pc[t] = "path A"
    /\ \/ /\ pc' = [pc EXCEPT ![t] = "once"]
          /\ UNCHANGED <<syms, once>>
       \/ /\ syms' = syms \cup {"loaded"}
          /\ pc' = [pc EXCEPT ![t] = "path B"] /\ UNCHANGED once
    /\ UNCHANGED <<g_state, seen>>

\* A class or selector is missing, and the state stays Fallback, or the
\* symbols of Path A are all there.
ResolvePathA(t) ==
    /\ pc[t] = "path A"
    /\ \/ /\ pc' = [pc EXCEPT ![t] = "once"] /\ once' = "done"
          /\ UNCHANGED syms
       \/ /\ syms' = syms \cup {"loaded"}
          /\ pc' = [pc EXCEPT ![t] = "path B"] /\ UNCHANGED once
    /\ UNCHANGED <<g_state, seen>>

\* Path B is optional; then the state is published.
ResolvePathB(t) ==
    /\ pc[t] = "path B"
    /\ \/ syms' = syms \cup {"path_b_loaded"}
       \/ UNCHANGED syms
    /\ g_state' = "Available"
    /\ pc' = [pc EXCEPT ![t] = "once"]
    /\ once' = "done"
    /\ UNCHANGED seen

Initialize(t) ==
    /\ InitializeReturns(t) \/ InitializeBegin(t) \/ ResolvePathA(t) \/ ResolvePathB(t)
    /\ UNCHANGED progVars

-----------------------------------------------------------------------------
Retain(p, S) == refs' = [refs EXCEPT ![p] = [o \in Object |-> IF o \in S THEN @[o] + 1 ELSE @[o]]]
ReleaseAll(p, S) == refs' = [refs EXCEPT ![p] = [o \in Object |-> IF o \in S THEN @[o] - 1 ELSE @[o]]]
Goto(p, l) == phase' = [phase EXCEPT ![p] = l]
Load(p, b) == device' = [device EXCEPT ![p] = b]

Point(p, S) == fields' = [fields EXCEPT ![p] = @ \cup S]

(* ane_compile                                                              *)

\* Descriptor, model, files, compile and load: until the load has succeeded
\* there is nothing but autoreleased objects.  Then the model is retained.
Compile(p) ==
    /\ phase[p] = "none" /\ p \notin orphan /\ g_state = "Available"
    /\ Retain(p, {"objc_model"})
    /\ Point(p, {"objc_model"})
    /\ Load(p, TRUE)
    /\ Goto(p, "fast path")
    /\ UNCHANGED <<mapped, client_mapped, orphan>>

\* The inner model and its program are fetched for processRequest:.  They may
\* not be there; and string_id, which is asked last, raises an exception on a
\* model that does not know it, whose handler clears the two pointers.
FastPath(p) ==
    /\ phase[p] = "fast path"
    /\ \/ UNCHANGED <<refs, fields>>
       \/ /\ Retain(p, {"objc_inner_model", "objc_program"})
          /\ IF HasStringId THEN Point(p, {"objc_inner_model", "objc_program"})
                            ELSE UNCHANGED fields
    /\ Goto(p, "ready")
    /\ UNCHANGED <<device, mapped, client_mapped, orphan>>

-----------------------------------------------------------------------------
(* ane_load_mlmodelc                                                        *)

Connect(p) ==
    /\ phase[p] = "none" /\ p \notin orphan
    /\ g_state = "Available" /\ "path_b_loaded" \in syms
    /\ Retain(p, {"objc_ane_client"})
    /\ Goto(p, "model at URL")
    /\ UNCHANGED <<fields, device, mapped, client_mapped, orphan>>

ModelAtURL(p) ==
    /\ phase[p] = "model at URL"
    /\ \/ ReleaseAll(p, {"objc_ane_client"}) /\ Goto(p, "none")
       \/ Retain(p, {"objc_client_model"}) /\ Goto(p, "load client")
    /\ UNCHANGED <<fields, device, mapped, client_mapped, orphan>>

\* Mutant of LoadClient: the error paths forget the shared connection.
LoadClientKeepsClient(p) ==
    /\ phase[p] = "load client"
    /\ \/ /\ ReleaseAll(p, {"objc_client_model"})
          /\ Goto(p, "none")
          /\ UNCHANGED device
       \/ /\ Load(p, TRUE)
          /\ Goto(p, "surfaces")
          /\ UNCHANGED refs
    /\ UNCHANGED <<fields, mapped, client_mapped, orphan>>

\* compileModel, then loadModel.
LoadClient(p) ==
    /\ phase[p] = "load client"
    /\ \/ /\ ReleaseAll(p, {"objc_client_model", "objc_ane_client"})
          /\ Goto(p, "none")
          /\ UNCHANGED device
       \/ /\ Load(p, TRUE)
          /\ Goto(p, "surfaces")
          /\ UNCHANGED refs
    /\ UNCHANGED <<fields, mapped, client_mapped, orphan>>

\* The strides are read, which changes nothing here, and the two surfaces
\* created.  When one is missing everything is released, but the model is not
\* unloaded.
MakeSurfaces(p) ==
    /\ phase[p] = "surfaces"
    /\ \/ /\ Retain(p, Surfaces)
          /\ Point(p, {"objc_ane_client", "objc_client_model"} \cup Surfaces)
          /\ Goto(p, "ready")
          /\ UNCHANGED orphan
       \/ /\ ReleaseAll(p, {"objc_ane_client", "objc_client_model"})
          /\ Goto(p, "none")
          /\ orphan' = orphan \cup {p}
          /\ UNCHANGED fields
    /\ UNCHANGED <<device, mapped, client_mapped>>

-----------------------------------------------------------------------------
(* ane_execute_client: the first call maps the surfaces.                    *)

\* The call fills the input surface; once mapped it evaluates at once.
ExecuteClient(p) ==
    /\ phase[p] = "ready" /\ {"objc_ane_client", "objc_client_model"} \cup Surfaces \subseteq fields[p]
    /\ Goto(p, IF client_mapped[p] THEN "evaluate" ELSE "wrap")
    /\ UNCHANGED <<fields, refs, device, mapped, client_mapped, orphan>>

\* Either wrapper may fail; the other is released.
WrapSurfaces(p) ==
    /\ phase[p] = "wrap"
    /\ \/ Goto(p, "ready") /\ UNCHANGED refs
       \/ Retain(p, Wrappers) /\ Goto(p, "request")
    /\ UNCHANGED <<fields, device, mapped, client_mapped, orphan>>

BuildRequest(p) ==
    /\ phase[p] = "request"
    /\ \/ ReleaseAll(p, Wrappers) /\ Goto(p, "ready")
       \/ Retain(p, {"client_request"}) /\ Goto(p, "map")
    /\ UNCHANGED <<fields, device, mapped, client_mapped, orphan>>

\* Mutant of MapSurfaces: the flag is set before the mapping has succeeded.
MapSurfacesFlagsFirst(p) ==
    /\ phase[p] = "map"
    /\ \/ /\ ReleaseAll(p, Wrappers \cup {"client_request"})
          /\ Goto(p, "ready")
          /\ UNCHANGED <<fields, mapped>>
       \/ /\ mapped' = [mapped EXCEPT ![p] = TRUE]
          /\ Point(p, Wrappers \cup {"client_request"})
          /\ Goto(p, "evaluate")
          /\ UNCHANGED refs
    /\ client_mapped' = [client_mapped EXCEPT ![p] = TRUE]
    /\ UNCHANGED <<device, orphan>>

MapSurfaces(p) ==
    /\ phase[p] = "map"
    /\ \/ /\ ReleaseAll(p, Wrappers \cup {"client_request"})
          /\ Goto(p, "ready")
          /\ UNCHANGED <<fields, mapped, client_mapped>>
       \/ /\ mapped' = [mapped EXCEPT ![p] = TRUE]
          /\ client_mapped' = [client_mapped EXCEPT ![p] = TRUE]
          /\ Point(p, Wrappers \cup {"client_request"})
          /\ Goto(p, "evaluate")
          /\ UNCHANGED refs
    /\ UNCHANGED <<device, orphan>>

\* The evaluation succeeds or fails; nothing of the program changes.
EvaluateDirect(p) ==
    /\ phase[p] = "evaluate"
    /\ Goto(p, "ready")
    /\ UNCHANGED <<fields, refs, device, mapped, client_mapped, orphan>>

-----------------------------------------------------------------------------
(* ane_execute_multi keeps nothing.  ane_delta_reload unloads and loads.    *)

DeltaReload(p) ==
    /\ phase[p] = "ready" /\ "objc_model" \in fields[p]
    /\ \E ok \in BOOLEAN : Load(p, ok)
    /\ UNCHANGED <<phase, fields, refs, mapped, client_mapped, orphan>>

\* Mutant of Unload: the model is released while it is loaded.
UnloadOnlyReleases(p) ==
    /\ phase[p] = "ready"
    /\ mapped' = [mapped EXCEPT ![p] = @ /\ ~client_mapped[p]]
    /\ ReleaseAll(p, fields[p])
    /\ fields' = [fields EXCEPT ![p] = {}]
    /\ client_mapped' = [client_mapped EXCEPT ![p] = FALSE]
    /\ Goto(p, "none")
    /\ UNCHANGED <<device, orphan>>

\* ane_unload: Path B's part, Path A's part, then the handle is deleted.  (The
\* connection answers unmapIOSurfaces and doUnloadModel.)
Unload(p) ==
    /\ phase[p] = "ready"
    /\ mapped' = [mapped EXCEPT ![p] = @ /\ ~client_mapped[p]]
    /\ ReleaseAll(p, fields[p])
    /\ fields' = [fields EXCEPT ![p] = {}]
    /\ client_mapped' = [client_mapped EXCEPT ![p] = FALSE]
    /\ Load(p, FALSE)
    /\ Goto(p, "none")
    /\ UNCHANGED orphan

Use(p) ==
    /\ \/ Compile(p) \/ FastPath(p)
       \/ Connect(p) \/ ModelAtURL(p) \/ LoadClient(p) \/ MakeSurfaces(p)
       \/ ExecuteClient(p) \/ WrapSurfaces(p) \/ BuildRequest(p)
       \/ MapSurfaces(p) \/ EvaluateDirect(p)
       \/ DeltaReload(p) \/ Unload(p)
    /\ UNCHANGED initVars

Next ==
    \/ \E t \in Thread : Initialize(t) \/ (CallInitialize(t) /\ UNCHANGED progVars)
    \/ \E p \in Program : Use(p)

\* A call to initialize runs on: nothing in do_initialize waits, and call_once
\* wakes the threads that wait for it.
Spec == Init /\ [][Next]_vars /\ \A t \in Thread : WF_vars(Initialize(t))

-----------------------------------------------------------------------------
\* initialize is "idempotent" (ane_runtime.hpp): every caller, the one that
\* ran do_initialize and those that waited or came later, is told the same;
\* and whoever sees g_state Available, through state() at any moment, finds
\* the symbols of both paths decided.
InitAgrees ==
    /\ \A t, u \in Thread :
         seen[t] # "Uninitialized" /\ seen[u] # "Uninitialized" => seen[t] = seen[u]
    /\ g_state = "Available" => once = "done" /\ "loaded" \in syms

\* A handle the caller has owns each object it points to exactly once, and
\* nothing it does not point to: whichever call failed before, ane_unload
\* releases everything, and nothing twice.  Nor is anything released too often
\* on the way.
RefsOwned ==
    \A p \in Program, o \in Object :
        /\ refs[p][o] >= 0
        /\ phase[p] \in {"none", "ready"} => refs[p][o] = IF o \in fields[p] THEN 1 ELSE 0

\* A mapping in the kernel is known to the program that has to undo it, and a
\* program never evaluates over surfaces that are not mapped.
MappingKnown ==
    \A p \in Program :
        /\ mapped[p] = client_mapped[p]
        /\ mapped[p] => phase[p] # "none" /\ "client_request" \in fields[p]

\* No model stays on the device without a handle, except the one whose
\* surfaces ane_load_mlmodelc could not create.
ModelsOwned ==
    \A p \in Program : device[p] /\ phase[p] = "none" => p \in orphan

\* Every call to initialize returns, whichever thread runs do_initialize and
\* however early that gives up.
InitializeEnds == \A t \in Thread : pc[t] = "once" ~> pc[t] = "out"
=============================================================================
