----------------------------- MODULE HwxBackend -----------------------------
(***************************************************************************)
(* HwxBackend::compile_group and the HwxEmitter cache behind it            *)
(* (src/graph/hwx_backend.cpp, hwx_emitter.cpp), with runtime::            *)
(* ane_load_hwx (src/runtime/ane_runtime.mm): a single activation node is  *)
(* compiled from MIL the first time, and afterwards from a cached HWX      *)
(* binary in which the op is patched.                                      *)
(*                                                                         *)
(* The loader has no entry point for a binary: ane_load_hwx compiles a     *)
(* relu stub, overwrites the .hwx file in the stub's model directory and   *)
(* reloads the model.  The directory is named after the stub's text, which *)
(* holds the shape and the two tensor names and nothing else.  Backends    *)
(* are thread_local; the directories are shared.                           *)
(*                                                                         *)
(* A loaded program is represented by the binary it was loaded from.       *)
(***************************************************************************)
EXTENDS HwxEmitter

CONSTANTS
    Thread,     \* threads that compile graphs
    Names,      \* pairs of input and output tensor names
    Requests,   \* what each thread asks for: op, shape, names
    MaxCalls    \* bound: compile_group calls of a thread

ASSUME HwxAssumption ==
    /\ "RELU" \in Op
    /\ Requests \in [Thread -> SUBSET [op : Op, shape : Shape, names : Names]]
    /\ MaxCalls \in Nat

VARIABLES
    shapes,     \* shape_cache_ of each thread: the template of each shape
    configs,    \* op_cfg_cache_ of each thread: the configuration of each op
    file,       \* the .hwx file of each stub directory
    pc,         \* where each thread is
    req,        \* its current request
    stub,       \* what the model ane_load_hwx holds has loaded
    got,        \* the program the last call returned
    calls

vars == <<shapes, configs, file, pc, req, stub, got, calls>>

Request == [op : Op, shape : Shape, names : Names]
Dir(r) == <<r.shape, r.names>>

Init ==
    /\ shapes = [t \in Thread |-> [s \in Shape |-> NoHwx]]
    /\ configs = [t \in Thread |-> [op \in Op |-> NoConfig]]
    /\ file = [d \in Shape \X Names |-> NoHwx]
    /\ pc = [t \in Thread |-> "idle"]
    /\ req \in [Thread -> {CHOOSE r \in Request : TRUE}]
    /\ stub = [t \in Thread |-> NoHwx]
    /\ got = [t \in Thread |-> NoHwx]
    /\ calls = [t \in Thread |-> 0]

Goto(t, l) == pc' = [pc EXCEPT ![t] = l]
Stub(t, hwx) == stub' = [stub EXCEPT ![t] = hwx]

-----------------------------------------------------------------------------
CanEmit(t, r) == shapes[t][r.shape] # NoHwx /\ configs[t][r.op] # NoConfig

\* The template of the shape, which any op may have left, with the
\* configuration of the op, which may come from another shape.
Emit(t, r) ==
    LET tmpl == shapes[t][r.shape]
    IN  IF CanEmit(t, r) THEN patch_op(tmpl, configs[t][r.op], extract_op_config(tmpl)) ELSE NoHwx

CompileGroup(t, r) ==
    /\ pc[t] = "idle" /\ calls[t] < MaxCalls
    /\ req' = [req EXCEPT ![t] = r]
    /\ got' = [got EXCEPT ![t] = NoHwx]
    /\ calls' = [calls EXCEPT ![t] = @ + 1]
    /\ Goto(t, IF CanEmit(t, r) THEN "warm" ELSE "cold")
    /\ UNCHANGED <<shapes, configs, file, stub>>

\* ane_load_hwx: the stub is compiled and loaded, leaving its own binary in
\* the directory.
CompileStub(t) ==
    /\ pc[t] = "warm"
    /\ file' = [file EXCEPT ![Dir(req[t])] = Compiled["RELU"][req[t].shape]]
    /\ Stub(t, Compiled["RELU"][req[t].shape])
    /\ Goto(t, "write")
    /\ UNCHANGED <<shapes, configs, req, got, calls>>

WriteHwx(t) ==
    /\ pc[t] = "write"
    /\ file' = [file EXCEPT ![Dir(req[t])] = Emit(t, req[t])]
    /\ Goto(t, "reload")
    /\ UNCHANGED <<shapes, configs, req, stub, got, calls>>

\* The model is unloaded and loaded again, from the file.
ReloadHwx(t) ==
    /\ pc[t] = "reload"
    /\ got' = [got EXCEPT ![t] = file[Dir(req[t])]]
    /\ Stub(t, NoHwx)
    /\ Goto(t, "idle")
    /\ UNCHANGED <<shapes, configs, file, req, calls>>

\* A mutant: the error paths of ane_load_hwx return without ane_unload.
LoadHwxFailsKeepsStub(t) ==
    /\ pc[t] \in {"warm", "write", "reload"}
    /\ Goto(t, "cold")
    /\ UNCHANGED <<shapes, configs, file, req, stub, got, calls>>

\* The stub does not compile, no .hwx file is found, it cannot be written or
\* the reload fails: ane_load_hwx unloads what it has and returns nullptr, and
\* compile_group takes the cold path.
LoadHwxFails(t) ==
    /\ pc[t] \in {"warm", "write", "reload"}
    /\ Stub(t, NoHwx)
    /\ Goto(t, "cold")
    /\ UNCHANGED <<shapes, configs, file, req, got, calls>>

\* MilBackend compiles the node from MIL text, in a directory of that text.
CompileMil(t) ==
    /\ pc[t] = "cold"
    /\ \/ /\ got' = [got EXCEPT ![t] = Compiled[req[t].op][req[t].shape]]
          /\ Goto(t, "capture")
       \/ /\ Goto(t, "idle")
          /\ UNCHANGED got
    /\ UNCHANGED <<shapes, configs, file, req, stub, calls>>

\* The .hwx file in the directory of the program: the binary, something that
\* is not an HWX file, or none.
ModelDirFile(r) ==
    LET hwx == Compiled[r.op][r.shape] IN {hwx, [hwx EXCEPT !.magic = FALSE], NoHwx}

\* capture_from_model_dir keeps the first binary of a shape and the first
\* configuration of an op; it does nothing when it cannot read a binary.
Capture(t) ==
    /\ pc[t] = "capture"
    /\ \E file_ \in ModelDirFile(req[t]) :
         LET hwx == read_hwx_from_dir(file_)
             keep(cache, key, none, new) ==
                 IF hwx = NoHwx \/ cache[t][key] # none THEN cache
                 ELSE [cache EXCEPT ![t][key] = new]
         IN  /\ shapes' = keep(shapes, req[t].shape, NoHwx, hwx)
             /\ configs' = keep(configs, req[t].op, NoConfig, extract_op_config(hwx))
    /\ Goto(t, "idle")
    /\ UNCHANGED <<file, req, stub, got, calls>>

Step(t) == CompileStub(t) \/ WriteHwx(t) \/ ReloadHwx(t) \/ LoadHwxFails(t) \/ CompileMil(t) \/ Capture(t)

Finished == (\A t \in Thread : pc[t] = "idle" /\ calls[t] = MaxCalls) /\ UNCHANGED vars

Next ==
    \/ \E t \in Thread : \E r \in Requests[t] : CompileGroup(t, r)
    \/ \E t \in Thread : Step(t)
    \/ Finished

Spec == Init /\ [][Next]_vars

-----------------------------------------------------------------------------
\* hwx_backend.hpp: "HwxBackend is strictly additive - it never changes the
\* semantics of any compiled graph": a program it returns is well laid out and
\* computes the op of the node at its shape, on the cold path, on the warm
\* path, whatever op left the template and at whatever shape the op's
\* configuration was captured, and after a failed warm path.
Additive ==
    \A t \in Thread : pc[t] = "idle" /\ got[t] # NoHwx =>
        Computes(got[t], req[t].op, req[t].shape)

\* No stub stays loaded once compile_group has returned or has given up the
\* warm path.
NoStubLeft ==
    \A t \in Thread : pc[t] \in {"idle", "cold", "capture"} => stub[t] = NoHwx
=============================================================================
