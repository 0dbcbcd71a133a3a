---------------------------- MODULE CompileCache ----------------------------
(***************************************************************************)
(* libane::CompileCache (src/core/compile_cache.cpp): the process-wide LRU *)
(* cache of compiled ANE programs.  Threads call get, put and flush.       *)
(*                                                                         *)
(* mutex_ is a read-write lock.  A section that runs under it and does not *)
(* loop is one step; it is enabled when no writer is inside.  put loops    *)
(* under the exclusive lock, so it takes several steps and `writer` names  *)
(* the thread inside.  get takes the lock twice, shared and then           *)
(* exclusive, and anything may happen in between.                          *)
(***************************************************************************)
EXTENDS LruOps

CONSTANTS
    NoThread,   \* nobody holds the lock exclusively
    MaxGets     \* bound: lookups in a behaviour (the statistics count them)

ASSUME BoundAssumption ==
    /\ NoThread \notin Thread
    /\ MaxGets \in Nat

VARIABLES
    lru,            \* lru_: entries, most recently used first
    map,            \* map_: the entry filed under each key
    current_bytes,  \* current_bytes_ (size_t: it must never be decremented
                    \* below zero)
    hits, misses, evictions,
    writer,         \* the thread inside put's exclusive section
    pc,             \* where each thread is: "idle", "hit" (between the two
                    \* locks of get), "put" (in the eviction loop)
    key,            \* the key of a thread's get
    entry,          \* the entry of a thread's put
    ret,            \* what the last completed call of a thread returned
    used,           \* entries handed to put so far: a unique_ptr is moved
                    \* into put, so no entry is put twice
    before          \* history: lru_ when the current put took the lock

stats == <<hits, misses, evictions>>
table == <<lru, map, current_bytes>>
vars == <<lru, map, current_bytes, hits, misses, evictions, writer, pc, key,
          entry, ret, used, before>>

Lru == INSTANCE LruCache WITH order <- IF writer = NoThread THEN lru ELSE before

-----------------------------------------------------------------------------
Init ==
    /\ lru = <<>>
    /\ map = [k \in Key |-> NoEntry]
    /\ current_bytes = 0
    /\ hits = 0 /\ misses = 0 /\ evictions = 0
    /\ writer = NoThread
    /\ pc = [t \in Thread |-> "idle"]
    /\ key = [t \in Thread |-> CHOOSE k \in Key : TRUE]
    /\ entry = [t \in Thread |-> NoEntry]
    /\ ret = [t \in Thread |-> NoEntry]
    /\ used = {}
    /\ before = <<>>

Goto(t, l) == pc' = [pc EXCEPT ![t] = l]
Return(t, e) == ret' = [ret EXCEPT ![t] = e] /\ Goto(t, "idle")

\* lru_pos of the entry e: the list node that holds it.
LruPos(e) == CHOOSE i \in DOMAIN lru : lru[i] = e

-----------------------------------------------------------------------------
(***************************************************************************)
(* get                                                                     *)
(***************************************************************************)

\* Under the shared lock: the key is not in map_.
GetMiss(t, k) ==
    /\ pc[t] = "idle" /\ writer = NoThread
    /\ hits + misses < MaxGets
    /\ map[k] = NoEntry
    /\ misses' = misses + 1
    /\ Return(t, NoEntry)
    /\ UNCHANGED <<table, hits, evictions, writer, key, entry, used, before>>

\* Under the shared lock: the key is there.  The hit is counted now and the
\* lock released; nothing read here is kept but the key.
GetHit(t, k) ==
    /\ pc[t] = "idle" /\ writer = NoThread
    /\ hits + misses < MaxGets
    /\ map[k] # NoEntry
    /\ hits' = hits + 1
    /\ key' = [key EXCEPT ![t] = k]
    /\ Goto(t, "hit")
    /\ UNCHANGED <<table, misses, evictions, writer, entry, ret, used, before>>

\* Under the exclusive lock: the key is looked up again.  It may have been
\* evicted, flushed or replaced since GetHit.
GetPromote(t) ==
    /\ pc[t] = "hit" /\ writer = NoThread
    /\ \/ /\ map[key[t]] = NoEntry
          /\ Return(t, NoEntry)
          /\ UNCHANGED lru
       \/ /\ map[key[t]] # NoEntry
          /\ lru' = MoveToFront(lru, LruPos(map[key[t]]))
          /\ Return(t, map[key[t]])
    /\ UNCHANGED <<map, current_bytes, stats, writer, key, entry, used, before>>

-----------------------------------------------------------------------------
(***************************************************************************)
(* put                                                                     *)
(***************************************************************************)

\* Mutant: the replaced entry is erased from map_ but its list node stays.
PutBeginLeavesNode(t, e) ==
    LET k == EntryKey[e]
        old == map[k]
    IN  /\ pc[t] = "idle" /\ writer = NoThread
        /\ e \notin used
        /\ used' = used \cup {e}
        /\ writer' = t
        /\ entry' = [entry EXCEPT ![t] = e]
        /\ Goto(t, "put")
        /\ before' = lru
        /\ current_bytes' = current_bytes - IF old = NoEntry THEN 0 ELSE EntrySize[old]
        /\ map' = [map EXCEPT ![k] = NoEntry]
        /\ UNCHANGED <<lru, stats, key, ret>>

\* Take the lock and unlink the entry filed under the same key, if any.
PutBegin(t, e) ==
    LET k == EntryKey[e]
        old == map[k]
    IN  /\ pc[t] = "idle" /\ writer = NoThread
        /\ e \notin used
        /\ used' = used \cup {e}
        /\ writer' = t
        /\ entry' = [entry EXCEPT ![t] = e]
        /\ Goto(t, "put")
        /\ before' = lru
        /\ IF old = NoEntry
             THEN UNCHANGED table
             ELSE /\ current_bytes' = current_bytes - EntrySize[old]
                  /\ lru' = RemoveAt(lru, LruPos(old))
                  /\ map' = [map EXCEPT ![k] = NoEntry]
        /\ UNCHANGED <<stats, key, ret>>

\* Mutant: the loop condition forgets the size of the new entry.
NoRoomNow(t) == current_bytes > MaxBytes /\ lru # <<>>

\* The loop condition of put.
NoRoom(t) == current_bytes + EntrySize[entry[t]] > MaxBytes /\ lru # <<>>

\* Mutant: evict_lru_locked drops the most recently used entry.
EvictFront(t) ==
    LET victim == Head(lru)
    IN  /\ pc[t] = "put"
        /\ NoRoom(t)
        /\ current_bytes' = current_bytes - EntrySize[victim]
        /\ map' = [map EXCEPT ![EntryKey[victim]] = NoEntry]
        /\ lru' = Tail(lru)
        /\ evictions' = evictions + 1
        /\ UNCHANGED <<hits, misses, writer, pc, key, entry, ret, used, before>>

\* Mutant: the early return of evict_lru_locked is inverted.
EvictReturnsEarly(t) == pc[t] = "put" /\ NoRoom(t) /\ UNCHANGED vars

\* One iteration of the loop: evict_lru_locked.
PutEvict(t) ==
    LET victim == Last(lru)
    IN  /\ pc[t] = "put"
        /\ NoRoom(t)
        /\ current_bytes' = current_bytes - EntrySize[victim]
        /\ map' = [map EXCEPT ![EntryKey[victim]] = NoEntry]
        /\ lru' = Front(lru)
        /\ evictions' = evictions + 1
        /\ UNCHANGED <<hits, misses, writer, pc, key, entry, ret, used, before>>

\* Mutant: the byte count is decremented for the new entry.
PutInsertSubtracts(t) ==
    LET e == entry[t]
    IN  /\ pc[t] = "put"
        /\ ~NoRoom(t)
        /\ lru' = <<e>> \o lru
        /\ map' = [map EXCEPT ![EntryKey[e]] = e]
        /\ current_bytes' = current_bytes - EntrySize[e]
        /\ writer' = NoThread
        /\ before' = <<>>
        /\ Return(t, e)
        /\ UNCHANGED <<stats, key, entry, used>>

\* After the loop: file the entry and release the lock.
PutInsert(t) ==
    LET e == entry[t]
    IN  /\ pc[t] = "put"
        /\ ~NoRoom(t)
        /\ lru' = <<e>> \o lru
        /\ map' = [map EXCEPT ![EntryKey[e]] = e]
        /\ current_bytes' = current_bytes + EntrySize[e]
        /\ writer' = NoThread
        /\ before' = <<>>
        /\ Return(t, e)
        /\ UNCHANGED <<stats, key, entry, used>>

-----------------------------------------------------------------------------
\* Mutant: flush does not reset current_bytes_.
FlushKeepsCount(t) ==
    /\ pc[t] = "idle" /\ writer = NoThread
    /\ lru' = <<>>
    /\ map' = [k \in Key |-> NoEntry]
    /\ UNCHANGED <<current_bytes, stats, writer, pc, key, entry, ret, used, before>>

\* flush: everything goes, the statistics stay.
Flush(t) ==
    /\ pc[t] = "idle" /\ writer = NoThread
    /\ lru' = <<>>
    /\ map' = [k \in Key |-> NoEntry]
    /\ current_bytes' = 0
    /\ UNCHANGED <<stats, writer, pc, key, entry, ret, used, before>>

Next ==
    \E t \in Thread :
        \/ \E k \in Key : GetMiss(t, k) \/ GetHit(t, k)
        \/ GetPromote(t)
        \/ \E e \in Entry : PutBegin(t, e)
        \/ PutEvict(t)
        \/ PutInsert(t)
        \/ Flush(t)

Spec == Init /\ [][Next]_vars

\* A thread inside put's critical section keeps running.
Fairness == \A t \in Thread : WF_vars(PutEvict(t) \/ PutInsert(t))

FairSpec == Spec /\ Fairness

-----------------------------------------------------------------------------
TypeOK ==
    /\ lru \in Seq(Entry)
    /\ map \in [Key -> Entry \cup {NoEntry}]
    /\ current_bytes \in Nat
    /\ hits \in Nat /\ misses \in Nat /\ evictions \in Nat
    /\ writer \in Thread \cup {NoThread}
    /\ pc \in [Thread -> {"idle", "hit", "put"}]
    /\ key \in [Thread -> Key]
    /\ entry \in [Thread -> Entry \cup {NoEntry}]
    /\ ret \in [Thread -> Entry \cup {NoEntry}]
    /\ used \subseteq Entry
    /\ before \in Seq(Entry)

\* map_ and lru_ always describe the same entries: map_ files exactly the
\* entries of the list, each under its own key, and no list node is
\* duplicated, whatever mixture of replacement, eviction, promotion and
\* flush led here (also half-way through put's eviction loop).
MapMatchesLru ==
    /\ \A i \in DOMAIN lru : map[EntryKey[lru[i]]] = lru[i]
    /\ \A k \in Key : map[k] # NoEntry =>
          /\ EntryKey[map[k]] = k
          /\ \E i \in DOMAIN lru : lru[i] = map[k]
    /\ \A i, j \in DOMAIN lru : lru[i] = lru[j] => i = j

\* current_bytes_ is exactly the size of what is cached: it is adjusted at
\* four places in put, evict_lru_locked and flush, and being a size_t it
\* would wrap if one of them subtracted twice.
BytesExact == current_bytes = Bytes(Elements(lru))

\* Between calls the cache is within its budget, unless it holds a single
\* entry that is larger than the budget by itself.
WithinBudget ==
    writer = NoThread => current_bytes <= MaxBytes \/ Len(lru) = 1

\* The map, the list, the byte count, the two-lock get and the looping put
\* implement an atomic LRU cache: put drops exactly the least recently used
\* entries that must go, and a get that misses or is promoted sees one state.
ImplementsLru == Lru!Spec

\* put's eviction loop ends, also for an entry larger than the whole budget.
PutReturns ==
    \A t \in Thread : pc[t] = "put" ~> pc[t] = "idle"
=============================================================================
