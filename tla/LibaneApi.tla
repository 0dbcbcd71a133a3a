----------------------------- MODULE LibaneApi ------------------------------
(***************************************************************************)
(* The operation API of libane (src/libane.cpp): libane_compile,           *)
(* libane_compile_batch, libane_execute, libane_delta_reload,              *)
(* libane_release, libane_matmul_f16, libane_matmul_f32,                   *)
(* libane_set_backend and libane_cache_flush, called by several threads    *)
(* over the shared compile cache.                                          *)
(*                                                                         *)
(* A cache entry owns one ANE program.  The entry is reference counted: it *)
(* is held by the cache, by the handles given to callers and by the        *)
(* shared_ptr locals of the calls in progress, and its destructor unloads  *)
(* the program.  The cache is used through its promise, LruCache.          *)
(***************************************************************************)
EXTENDS LruOps

CONSTANTS
    Requests,       \* what compilations are asked for: a sequence of keys
                    \* (op, shape, weights); libane_compile has one
    MatmulKeys,     \* the keys of the products libane_matmul_f16 is asked for
    Buildable,      \* keys whose shape the MIL builder accepts
    NoKey

ASSUME ApiAssumption ==
    /\ Requests \subseteq Seq(Key) \ {<<>>}
    /\ MatmulKeys \subseteq Key
    /\ Buildable \subseteq Key
    /\ NoKey \notin Key

VARIABLES
    available,  \* runtime::state() == Available, decided once
    backend,    \* g_force_backend: "auto", "ane", "cpu"
    order,      \* the compile cache, most recently used first
    got,        \* what the cache returned to each thread
    code,       \* what the program of an entry computes: the product with the
                \* weights as "raw" or as "transposed" by libane_matmul_f16, or
                \* "none" (is_ane == false)
    model,      \* the entry's program on the device: "unborn", "absent" (there is
                \* none), "loaded", "unloaded", "freed" (the destructor ran)
    pc,         \* where each thread is, "idle" outside the library
    requests,   \* the requests of a compilation, <<>> in other calls
    success,    \* all_success of a compilation, TRUE outside
    req,        \* the key of a product
    local,      \* the shared_ptr local of the call
    prog,       \* the raw program pointer the call uses
    handle,     \* the libane_handle_t's each thread got from its last
                \* compilation; NoEntry is NULL
    broken,     \* history: the entries whose last reload to end has failed
    res         \* what the last call of each thread returned

vars == <<available, backend, order, got, code, model, pc, requests, success,
          req, local, prog, handle, broken, res>>

Cache == INSTANCE LruCache WITH ret <- got

-----------------------------------------------------------------------------
UseAne == available /\ backend # "cpu"

\* Every shared_ptr to a cache entry there is: in the cache, in a handle, in
\* a call.
Held(o, h, l) ==
    Elements(o) \cup UNION {Elements(h[t]) \cup {l[t]} : t \in Thread}

\* The entries nobody holds any more are destroyed: ~CacheEntry unloads the
\* program.  A step that drops references ends with this.
Reap(m) ==
    model' = [e \in Entry |->
                IF m[e] \in {"loaded", "unloaded"} /\ e \notin Held(order', handle', local')
                  THEN "freed" ELSE m[e]]

Unborn == {e \in Entry : model[e] = "unborn"}

\* The keys a call in progress may still build a program for.
Asked(t) ==
    IF req[t] # NoKey THEN <<req[t]>>
    ELSE SubSeq(requests[t], Len(handle[t]) + 1, Len(requests[t]))

Occurrences(ks, k) == Cardinality({i \in DOMAIN ks : ks[i] = k})

\* Bound: a call that asks for ks starts while an entry is left for each.
EntriesLeft(ks) ==
    \A k \in Elements(ks) \cap Buildable :
        Cardinality({e \in Unborn : EntryKey[e] = k}) >=
            Occurrences(ks, k) + MapThenSumSet(LAMBDA t : Occurrences(Asked(t), k), Thread)

\* Mutant: the entry counts as an ANE entry whatever ane_compile returned.
NewEntryAlwaysAne(t, k, c) ==
    \E e \in Unborn :
        /\ EntryKey[e] = k
        /\ code' = [code EXCEPT ![e] = c]
        /\ model' = [model EXCEPT ![e] = "loaded"]
        /\ prog' = [prog EXCEPT ![t] = e]
        /\ local' = [local EXCEPT ![t] = e]

\* A thread has compiled a program for k with the weights laid out as c ("none": the
\* compilation failed) and wrapped it in an entry, which it owns.
NewEntry(t, k, c) ==
    \E e \in Unborn :
        /\ EntryKey[e] = k
        /\ code' = [code EXCEPT ![e] = c]
        /\ model' = [model EXCEPT ![e] = IF c = "none" THEN "absent" ELSE "loaded"]
        /\ prog' = [prog EXCEPT ![t] = e]
        /\ local' = [local EXCEPT ![t] = e]

Init ==
    /\ available \in BOOLEAN
    /\ backend = "auto"
    /\ order = <<>>
    /\ got = [t \in Thread |-> NoEntry]
    /\ code = [e \in Entry |-> "none"]
    /\ model = [e \in Entry |-> "unborn"]
    /\ pc = [t \in Thread |-> "idle"]
    /\ requests = [t \in Thread |-> <<>>]
    /\ success = [t \in Thread |-> TRUE]
    /\ req = [t \in Thread |-> NoKey]
    /\ local = [t \in Thread |-> NoEntry]
    /\ prog = [t \in Thread |-> NoEntry]
    /\ handle = [t \in Thread |-> <<>>]
    /\ broken = {}
    /\ res = [t \in Thread |-> "none"]

\* The call goes on at l; there is no result yet.
Goto(t, l) == pc' = [pc EXCEPT ![t] = l] /\ res' = [res EXCEPT ![t] = "none"]

\* The call returns r; its locals go out of scope.
Leave(t, r) ==
    /\ pc' = [pc EXCEPT ![t] = "idle"]
    /\ res' = [res EXCEPT ![t] = r]
    /\ local' = [local EXCEPT ![t] = NoEntry]
    /\ prog' = [prog EXCEPT ![t] = NoEntry]
    /\ req' = [req EXCEPT ![t] = NoKey]
    /\ requests' = [requests EXCEPT ![t] = <<>>]

-----------------------------------------------------------------------------
(***************************************************************************)
(* libane_compile, and libane_compile_batch, which calls it in a loop and  *)
(* goes on after a request that failed.                                    *)
(***************************************************************************)

\* The thread has released the handles of its last compilation.
CompileBatch(t, ks) ==
    /\ pc[t] = "idle" /\ Elements(handle[t]) \subseteq {NoEntry}
    /\ EntriesLeft(ks)
    /\ requests' = [requests EXCEPT ![t] = ks]
    /\ handle' = [handle EXCEPT ![t] = <<>>]
    /\ Goto(t, "lookup")
    /\ UNCHANGED <<available, broken, backend, order, got, code, model, success, req, local,
                   prog>>

\* The request being compiled.
Request(t) == requests[t][Len(handle[t]) + 1]

\* Mutant: the status is that of the last request.
DeliverLast(t, e) ==
    LET all == e # NoEntry IN
    /\ handle' = [handle EXCEPT ![t] = Append(@, e)]
    /\ \/ /\ Len(handle[t]) + 1 < Len(requests[t])
          /\ success' = [success EXCEPT ![t] = all]
          /\ Goto(t, "lookup")
          /\ local' = [local EXCEPT ![t] = NoEntry]
          /\ prog' = [prog EXCEPT ![t] = NoEntry]
          /\ UNCHANGED <<requests, req>>
       \/ /\ Len(handle[t]) + 1 = Len(requests[t])
          /\ success' = [success EXCEPT ![t] = TRUE]
          /\ Leave(t, IF all THEN "compiled" ELSE "compile failed")

\* libane_compile is done with a request: it returns a handle to e, or NULL.
\* After the last one the call returns.
Deliver(t, e) ==
    LET all == success[t] /\ e # NoEntry IN
    /\ handle' = [handle EXCEPT ![t] = Append(@, e)]
    /\ \/ /\ Len(handle[t]) + 1 < Len(requests[t])
          /\ success' = [success EXCEPT ![t] = all]
          /\ Goto(t, "lookup")
          /\ local' = [local EXCEPT ![t] = NoEntry]
          /\ prog' = [prog EXCEPT ![t] = NoEntry]
          /\ UNCHANGED <<requests, req>>
       \/ /\ Len(handle[t]) + 1 = Len(requests[t])
          /\ success' = [success EXCEPT ![t] = TRUE]
          /\ Leave(t, IF all THEN "compiled" ELSE "compile failed")

\* The cache is asked first: a hit returns a handle before the shape is
\* validated and before the backend is looked at.
Compile(t) ==
    /\ pc[t] = "lookup"
    /\ Cache!Lookup(t, Request(t))
    /\ \/ /\ got'[t] # NoEntry
          /\ Deliver(t, got'[t])
       \/ /\ got'[t] = NoEntry
          /\ Goto(t, "compile")
          /\ UNCHANGED <<requests, success, req, local, prog, handle>>
    /\ UNCHANGED <<available, broken, backend, code, model>>

\* Mutant: a failed compilation is cached, as libane_matmul_f16 does.
CompileBuildCachesFailure(t) ==
    /\ pc[t] = "compile"
    /\ \/ /\ ~UseAne \/ Request(t) \notin Buildable
          /\ Deliver(t, NoEntry)
          /\ UNCHANGED <<code, model>>
       \/ /\ UseAne /\ Request(t) \in Buildable
          /\ \E c \in {"raw", "none"} : NewEntry(t, Request(t), c)
          /\ Goto(t, "store")
          /\ UNCHANGED <<requests, success, req, handle>>
    /\ UNCHANGED <<available, broken, backend, order, got>>

\* Validate, look at the backend, build the MIL text and compile it.  A
\* failure of any of them returns NULL and caches nothing.
CompileBuild(t) ==
    /\ pc[t] = "compile"
    /\ \/ /\ Deliver(t, NoEntry)
          /\ UNCHANGED <<code, model>>
       \/ /\ UseAne /\ Request(t) \in Buildable
          /\ NewEntry(t, Request(t), "raw")
          /\ Goto(t, "store")
          /\ UNCHANGED <<requests, success, req, handle>>
    /\ UNCHANGED <<available, broken, backend, order, got>>

\* Put the entry into the cache, whatever another thread has put there since
\* the lookup, and return a handle to it.
CompileStore(t) ==
    /\ pc[t] = "store"
    /\ Cache!Store(t, prog[t])
    /\ Deliver(t, prog[t])
    /\ Reap(model)
    /\ UNCHANGED <<available, broken, backend, code>>

-----------------------------------------------------------------------------
(***************************************************************************)
(* libane_execute, libane_execute2                                         *)
(***************************************************************************)
ExecuteBegin(t) ==
    /\ pc[t] = "idle"
    /\ \E h \in Elements(handle[t]) :
          \/ h = NoEntry /\ Leave(t, "invalid argument")
          \/ /\ h # NoEntry /\ code[h] = "none"
             /\ Leave(t, "unavailable")
          \/ /\ h # NoEntry /\ code[h] # "none"
             /\ prog' = [prog EXCEPT ![t] = h]
             /\ Goto(t, "execute")
             /\ UNCHANGED <<requests, req, local>>
    /\ UNCHANGED <<available, broken, backend, order, got, code, model, success, handle>>

\* The device may refuse; it does when the program is not loaded.
ExecuteEnd(t) ==
    /\ pc[t] = "execute"
    /\ \/ Leave(t, "failed")
       \/ /\ model[prog[t]] = "loaded"
          /\ Leave(t, IF code[prog[t]] = "raw" THEN "ok" ELSE "wrong")
    /\ UNCHANGED <<available, broken, backend, order, got, code, model, success, handle>>

(***************************************************************************)
(* libane_delta_reload: unload, then load.  Other threads with a handle to *)
(* the same entry go on in between; the program of a failed load stays     *)
(* unloaded and its entry stays in the cache.                              *)
(***************************************************************************)
ReloadBegin(t) ==
    /\ pc[t] = "idle"
    /\ \E h \in Elements(handle[t]) :
          \/ h = NoEntry /\ Leave(t, "invalid argument") /\ UNCHANGED model
          \/ /\ h # NoEntry /\ code[h] = "none"
             /\ Leave(t, "unavailable")
             /\ UNCHANGED model
          \/ /\ h # NoEntry /\ code[h] # "none"
             /\ prog' = [prog EXCEPT ![t] = h]
             /\ model' = [model EXCEPT ![h] = "unloaded"]
             /\ Goto(t, "reload")
             /\ UNCHANGED <<requests, req, local>>
    /\ UNCHANGED <<available, broken, backend, order, got, code, success, handle>>

ReloadEnd(t) ==
    /\ pc[t] = "reload"
    /\ \/ /\ Leave(t, "failed")
          /\ broken' = broken \cup {prog[t]}
          /\ UNCHANGED model
       \/ /\ Leave(t, "ok")
          /\ broken' = broken \ {prog[t]}
          /\ model' = [model EXCEPT ![prog[t]] = "loaded"]
    /\ UNCHANGED <<available, backend, order, got, code, success, handle>>

\* libane_release: the handle's reference goes; the cache keeps its own.
Release(t) ==
    /\ pc[t] = "idle"
    /\ \E i \in DOMAIN handle[t] :
          /\ handle[t][i] # NoEntry
          /\ handle' = [handle EXCEPT ![t][i] = NoEntry]
    /\ res' = [res EXCEPT ![t] = "none"]
    /\ UNCHANGED <<available, broken, backend, order, got, code, pc, requests, success, req,
                   local, prog>>
    /\ Reap(model)

-----------------------------------------------------------------------------
(***************************************************************************)
(* libane_matmul_f16, and libane_matmul_f32, which calls it on casts of    *)
(* the operands.  Whatever goes wrong on the ANE, the product is computed  *)
(* on the CPU.                                                             *)
(***************************************************************************)
MatmulF32(t, k) ==
    /\ pc[t] = "idle"
    /\ EntriesLeft(<<k>>)
    /\ \/ /\ ~UseAne
          /\ Leave(t, "ok")
       \/ /\ UseAne
          /\ req' = [req EXCEPT ![t] = k]
          /\ Goto(t, "matmul f32")
          /\ UNCHANGED <<requests, local, prog>>
    /\ UNCHANGED <<available, broken, backend, order, got, code, model, success, handle>>

\* The backend is asked again: it may have changed during the casts.
Matmul(t, k) ==
    /\ \/ pc[t] = "idle" /\ EntriesLeft(<<k>>)
       \/ pc[t] = "matmul f32" /\ req[t] = k
    /\ \/ /\ ~UseAne
          /\ Leave(t, "ok")
          /\ UNCHANGED <<order, got>>
       \/ /\ UseAne
          /\ Cache!Lookup(t, k)
          /\ \/ /\ got'[t] # NoEntry /\ code[got'[t]] # "none"
                /\ local' = [local EXCEPT ![t] = got'[t]]
                /\ prog' = [prog EXCEPT ![t] = got'[t]]
                /\ Goto(t, "matmul")
                /\ req' = [req EXCEPT ![t] = NoKey]
                /\ UNCHANGED requests
             \/ /\ got'[t] # NoEntry /\ code[got'[t]] = "none"
                /\ Leave(t, "ok")
             \/ /\ got'[t] = NoEntry
                /\ Goto(t, "matmul compile")
                /\ req' = [req EXCEPT ![t] = k]
                /\ UNCHANGED <<requests, local, prog>>
    /\ UNCHANGED <<available, broken, backend, code, model, success, handle>>

\* Mutant: the weights are not transposed for the convolution.
MatmulBuildRaw(t) ==
    /\ pc[t] = "matmul compile"
    /\ \/ req[t] \notin Buildable /\ Leave(t, "ok") /\ UNCHANGED <<code, model>>
       \/ /\ req[t] \in Buildable
          /\ \E c \in {"raw", "none"} : NewEntry(t, req[t], c)
          /\ Goto(t, "matmul store")
          /\ UNCHANGED <<requests, req>>
    /\ UNCHANGED <<available, broken, backend, order, got, success, handle>>

\* Build and compile with the transposed weights.  A shape the builder
\* refuses throws, which ends on the CPU; a compilation that fails makes an
\* entry without a program.
MatmulBuild(t) ==
    /\ pc[t] = "matmul compile"
    /\ \/ req[t] \notin Buildable /\ Leave(t, "ok") /\ UNCHANGED <<code, model>>
       \/ /\ req[t] \in Buildable
          /\ \E c \in {"transposed", "none"} : NewEntry(t, req[t], c)
          /\ Goto(t, "matmul store")
          /\ UNCHANGED <<requests, req>>
    /\ UNCHANGED <<available, broken, backend, order, got, success, handle>>

\* Mutant: the entry returned by put is not kept for the execution.
MatmulStoreDropsEntry(t) ==
    /\ pc[t] = "matmul store"
    /\ Cache!Store(t, prog[t])
    /\ UNCHANGED <<success, handle>>
    /\ \/ code[prog[t]] = "none" /\ Leave(t, "ok")
       \/ /\ code[prog[t]] # "none"
          /\ local' = [local EXCEPT ![t] = NoEntry]
          /\ req' = [req EXCEPT ![t] = NoKey]
          /\ Goto(t, "matmul")
          /\ UNCHANGED <<requests, prog>>
    /\ Reap(model)
    /\ UNCHANGED <<available, broken, backend, code>>

\* The entry is cached even when it has no program; entry_ptr keeps it alive
\* for the execution.
MatmulStore(t) ==
    /\ pc[t] = "matmul store"
    /\ Cache!Store(t, prog[t])
    /\ UNCHANGED <<success, handle>>
    /\ \/ code[prog[t]] = "none" /\ Leave(t, "ok")
       \/ /\ code[prog[t]] # "none"
          /\ Goto(t, "matmul")
          /\ req' = [req EXCEPT ![t] = NoKey]
          /\ UNCHANGED <<requests, prog, local>>
    /\ Reap(model)
    /\ UNCHANGED <<available, broken, backend, code>>

\* Execute, or fall back to the CPU when the device refuses.
MatmulExecute(t) ==
    /\ pc[t] = "matmul"
    /\ UNCHANGED <<available, broken, backend, order, got, code, success, handle>>
    /\ \/ Leave(t, "ok")
       \/ /\ model[prog[t]] = "loaded"
          /\ Leave(t, IF code[prog[t]] = "transposed" THEN "ok" ELSE "wrong")
    /\ Reap(model)

-----------------------------------------------------------------------------
SetBackend(b) ==
    /\ backend' = b
    /\ UNCHANGED <<available, broken, order, got, code, model, pc, requests, success, req,
                   local, prog, handle, res>>

CacheFlush ==
    /\ Cache!Clear
    /\ UNCHANGED <<available, broken, backend, code, pc, requests, success, req, local, prog,
                   handle, res>>
    /\ Reap(model)

Next ==
    \/ \E t \in Thread :
          \/ \E ks \in Requests : CompileBatch(t, ks)
          \/ Compile(t) \/ CompileBuild(t) \/ CompileStore(t)
          \/ ExecuteBegin(t) \/ ExecuteEnd(t)
          \/ ReloadBegin(t) \/ ReloadEnd(t)
          \/ Release(t)
          \/ \E k \in MatmulKeys : MatmulF32(t, k) \/ Matmul(t, k)
          \/ MatmulBuild(t) \/ MatmulStore(t) \/ MatmulExecute(t)
    \/ \E b \in {"auto", "ane", "cpu"} : SetBackend(b)
    \/ CacheFlush

Spec == Init /\ [][Next]_vars

-----------------------------------------------------------------------------
TypeOK ==
    /\ available \in BOOLEAN
    /\ backend \in {"auto", "ane", "cpu"}
    /\ order \in Seq(Entry)
    /\ code \in [Entry -> {"none", "raw", "transposed"}]
    /\ model \in [Entry -> {"unborn", "absent", "loaded", "unloaded", "freed"}]
    /\ pc \in [Thread -> {"idle", "lookup", "compile", "store", "execute", "reload",
                          "matmul f32", "matmul compile", "matmul store", "matmul"}]
    /\ \A t \in Thread : requests[t] \in Requests \cup {<<>>}
    /\ success \in [Thread -> BOOLEAN]
    /\ req \in [Thread -> Key \cup {NoKey}]
    /\ {got, local, prog} \subseteq [Thread -> Entry \cup {NoEntry}]
    /\ handle \in [Thread -> Seq(Entry \cup {NoEntry})]
    /\ res \in [Thread -> {"none", "compiled", "compile failed", "ok", "wrong", "failed",
                           "unavailable", "invalid argument"}]
    /\ broken \subseteq Entry
    /\ \A e \in Entry : code[e] = "none" <=> model[e] \in {"unborn", "absent"}

\* A program is not unloaded and freed while a thread executes, reloads or is
\* about to return it, or owns a handle to it, although other threads evict,
\* replace, flush and release its entry meanwhile (the raw prog pointers of
\* libane.cpp).
NoUseAfterFree ==
    \A t \in Thread, e \in Entry :
        e = prog[t] \/ e \in Elements(handle[t]) => model[e] # "freed"

\* "Opaque handle, or NULL on failure" (libane_compile, include/libane.h) and
\* "handle is then invalid" (libane_delta_reload, when the reload fails): the
\* program of a handle is on the device, whatever the other threads did to
\* its entry in the cache, except while somebody reloads it and after a
\* reload that failed.
HandleUsable ==
    \A t \in Thread : \A h \in Elements(handle[t]) \ {NoEntry} :
        \/ model[h] = "loaded"
        \/ model[h] = "unloaded" /\ h \in broken
        \/ model[h] = "unloaded" /\ \E u \in Thread : pc[u] = "reload" /\ prog[u] = h

\* "LIBANE_OK if all compilations succeeded.  LIBANE_ERR_COMPILE_FAILED if one
\* or more compilations failed" (libane_compile_batch, include/libane.h): every
\* request of a call gets its handle or NULL, filed under its own key, and the
\* status says whether there is a NULL among them.
BatchReported ==
    [][\A t \in Thread :
         requests[t] # <<>> /\ requests'[t] = <<>> =>
            /\ Len(handle'[t]) = Len(requests[t])
            /\ \A i \in DOMAIN requests[t] :
                 handle'[t][i] = NoEntry \/ EntryKey[handle'[t][i]] = requests[t][i]
            /\ res'[t] = "compiled" <=> NoEntry \notin Elements(handle'[t])]_vars

\* "Single-call fp16 matrix multiplication: C = A x B." and "Execute a
\* compiled program" (include/libane.h): a call that reports success has
\* applied the caller's weights in the layout the caller gave them in.
ResultsRight == \A t \in Thread : res[t] # "wrong"
=============================================================================
