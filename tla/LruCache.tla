------------------------------ MODULE LruCache ------------------------------
(***************************************************************************)
(* What the compile cache promises its callers: a byte-bounded LRU cache   *)
(* whose operations are atomic.  The only state is the list of cached      *)
(* entries, most recently used first, and the value each caller was given. *)
(* CompileCache implements this with a map, a list, a running byte count,  *)
(* a two-lock lookup and an eviction loop.                                 *)
(***************************************************************************)
EXTENDS LruOps

VARIABLES
    order,      \* cached entries, most recently used first
    ret         \* what the last completed call of each thread returned

lruVars == <<order, ret>>

-----------------------------------------------------------------------------
Init ==
    /\ order = <<>>
    /\ ret = [t \in Thread |-> NoEntry]

\* A lookup returns the entry of the key and makes it the most recent, or
\* returns nullptr when there is none.
Lookup(t, k) ==
    \/ /\ At(order, k) = {}
       /\ ret' = [ret EXCEPT ![t] = NoEntry]
       /\ UNCHANGED order
    \/ \E i \in At(order, k) :
          /\ ret' = [ret EXCEPT ![t] = order[i]]
          /\ order' = MoveToFront(order, i)

\* A store replaces the entry of the same key, drops least recently used
\* entries until the new one fits and no further, and puts it in front.
Store(t, e) ==
    /\ e \notin Elements(order)
    /\ order' = <<e>> \o Keep(Without(order, EntryKey[e]), e)
    /\ ret' = [ret EXCEPT ![t] = e]

Clear ==
    /\ order' = <<>>
    /\ UNCHANGED ret

Next ==
    \/ \E t \in Thread, k \in Key : Lookup(t, k)
    \/ \E t \in Thread, e \in Entry : Store(t, e)
    \/ Clear

Spec == Init /\ [][Next]_lruVars
=============================================================================
