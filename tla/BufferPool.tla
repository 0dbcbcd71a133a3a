----------------------------- MODULE BufferPool -----------------------------
(***************************************************************************)
(* libane::BufferPool and AneBuffer (src/core/buffer_manager.cpp) as the   *)
(* library's calls use them: threads acquire an input and an output        *)
(* buffer, copy the caller's tensor in, run the program, copy the result   *)
(* out and give the buffers back through the RAII guard PooledBuffer.      *)
(*                                                                         *)
(* The pool's mutex covers one acquire or one release; everything a thread *)
(* does to a buffer happens outside it.  A buffer is an address: once      *)
(* destroyed it may be allocated again.                                    *)
(***************************************************************************)
EXTENDS Naturals, Sequences, SequencesExt

CONSTANTS
    Thread,
    Buffer,         \* addresses an AneBuffer can have
    NoBuffer,       \* nullptr
    Size,           \* byte sizes a caller can ask for
    Layout,         \* tensor shapes (C, S)
    NoLayout,       \* tensor_layout_ == false
    LayoutBytes,    \* C * S * 2
    Value,          \* what a buffer can contain
    Data,           \* tensors callers pass
    Junk,           \* contents that are nobody's data
    F,              \* what the program computes
    Requests,       \* the calls that are made
    MaxIdle         \* max_idle_per_size_

\* A request: a tensor d for a buffer of layout lay (NoLayout: raw bytes) and
\* at least n bytes, and a raw output of m bytes.
Request == [d : Data, lay : Layout \cup {NoLayout}, n : Size, m : Size]

ASSUME PoolAssumption ==
    /\ NoBuffer \notin Buffer
    /\ NoLayout \notin Layout
    /\ Size \subseteq Nat
    /\ LayoutBytes \in [Layout -> Size]
    /\ MaxIdle \in Nat
    /\ Data \subseteq Value /\ Junk \in Value
    /\ F \in [Value -> Value]
    /\ Requests \subseteq Request
    /\ Size # {} /\ Requests # {}

VARIABLES
    idle,       \* idle_: the idle buffers of each size, used as a stack
    alive,      \* the buffers that exist
    bytes,      \* bytes_ of a buffer
    layout,     \* its tensor metadata
    content,    \* what is in its memory
    pc, req,    \* where each thread is and the request it serves
    inb, outb,  \* the buffers of its two PooledBuffer guards
    result      \* what its last call left in the caller's output

vars == <<idle, alive, bytes, layout, content, pc, req, inb, outb, result>>

\* acquire_tensor_padded asks for the larger of the tensor and the padding.
InBytes(r) ==
    IF r.lay = NoLayout \/ LayoutBytes[r.lay] < r.n THEN r.n ELSE LayoutBytes[r.lay]

Pooled == UNION {{idle[n][i] : i \in DOMAIN idle[n]} : n \in Size}

Held(t) == {inb[t], outb[t]} \ {NoBuffer}

-----------------------------------------------------------------------------
Init ==
    /\ idle = [n \in Size |-> <<>>]
    /\ alive = {}
    /\ bytes = [b \in Buffer |-> CHOOSE n \in Size : TRUE]
    /\ layout = [b \in Buffer |-> NoLayout]
    /\ content = [b \in Buffer |-> Junk]
    /\ pc = [t \in Thread |-> "idle"]
    /\ req = [t \in Thread |-> CHOOSE r \in Requests : TRUE]
    /\ inb = [t \in Thread |-> NoBuffer]
    /\ outb = [t \in Thread |-> NoBuffer]
    /\ result = [t \in Thread |-> Junk]

Goto(t, l) == pc' = [pc EXCEPT ![t] = l]

\* Mutant: the recycled buffer stays in the pool.
AcquireNoPop(n, lay, b) ==
    /\ \/ /\ idle[n] # <<>>
          /\ b = Last(idle[n])
          /\ UNCHANGED <<idle, alive, bytes, content>>
       \/ /\ idle[n] = <<>>
          /\ b \notin alive
          /\ alive' = alive \cup {b}
          /\ bytes' = [bytes EXCEPT ![b] = n]
          /\ content' = [content EXCEPT ![b] = Junk]
          /\ UNCHANGED idle
    /\ layout' = [layout EXCEPT ![b] = lay]

\* Mutant: a generic acquire keeps the metadata of the buffer's last user.
AcquireNoReset(n, lay, b) ==
    /\ \/ /\ idle[n] # <<>>
          /\ b = Last(idle[n])
          /\ idle' = [idle EXCEPT ![n] = Front(@)]
          /\ UNCHANGED <<alive, bytes, content>>
       \/ /\ idle[n] = <<>>
          /\ b \notin alive
          /\ alive' = alive \cup {b}
          /\ bytes' = [bytes EXCEPT ![b] = n]
          /\ content' = [content EXCEPT ![b] = Junk]
          /\ UNCHANGED idle
    /\ layout' = [layout EXCEPT ![b] = IF lay = NoLayout THEN @ ELSE lay]

\* acquire and acquire_tensor_padded: the most recently released buffer of
\* exactly this size, or a new one; the metadata is set for the new user, the
\* contents are left alone.
Acquire(n, lay, b) ==
    /\ \/ /\ idle[n] # <<>>
          /\ b = Last(idle[n])
          /\ idle' = [idle EXCEPT ![n] = Front(@)]
          /\ UNCHANGED <<alive, bytes, content>>
       \/ /\ idle[n] = <<>>
          /\ b \notin alive
          /\ alive' = alive \cup {b}
          /\ bytes' = [bytes EXCEPT ![b] = n]
          /\ content' = [content EXCEPT ![b] = Junk]
          /\ UNCHANGED idle
    /\ layout' = [layout EXCEPT ![b] = lay]

\* Mutant: one buffer too many is kept.
ReleaseOneMore(b) ==
    /\ IF Len(idle[bytes[b]]) <= MaxIdle
         THEN idle' = [idle EXCEPT ![bytes[b]] = Append(@, b)] /\ UNCHANGED alive
         ELSE alive' = alive \ {b} /\ UNCHANGED idle
    /\ UNCHANGED <<bytes, layout, content>>

\* Mutant: a tensor buffer is filed under its logical size, not its own.
ReleaseByLayout(b) ==
    LET n == IF layout[b] = NoLayout THEN bytes[b] ELSE LayoutBytes[layout[b]]
    IN  /\ IF Len(idle[n]) < MaxIdle
             THEN idle' = [idle EXCEPT ![n] = Append(@, b)] /\ UNCHANGED alive
             ELSE alive' = alive \ {b} /\ UNCHANGED idle
        /\ UNCHANGED <<bytes, layout, content>>

\* release: back to the idle buffers of its size, or destroyed when there are
\* MaxIdle of them.
Release(b) ==
    /\ IF Len(idle[bytes[b]]) < MaxIdle
         THEN idle' = [idle EXCEPT ![bytes[b]] = Append(@, b)] /\ UNCHANGED alive
         ELSE alive' = alive \ {b} /\ UNCHANGED idle
    /\ UNCHANGED <<bytes, layout, content>>

-----------------------------------------------------------------------------
(***************************************************************************)
(* One call                                                                *)
(***************************************************************************)
AcquireIn(t, r, b) ==
    /\ pc[t] = "idle"
    /\ Acquire(InBytes(r), r.lay, b)
    /\ req' = [req EXCEPT ![t] = r]
    /\ inb' = [inb EXCEPT ![t] = b]
    /\ Goto(t, "copy in")
    /\ UNCHANGED <<outb, result>>

\* copy_from, outside the pool's lock.
CopyIn(t) ==
    /\ pc[t] = "copy in"
    /\ content' = [content EXCEPT ![inb[t]] = req[t].d]
    /\ Goto(t, "acquire out")
    /\ UNCHANGED <<idle, alive, bytes, layout, req, inb, outb, result>>

AcquireOut(t, b) ==
    /\ pc[t] = "acquire out"
    /\ Acquire(req[t].m, NoLayout, b)
    /\ outb' = [outb EXCEPT ![t] = b]
    /\ Goto(t, "run")
    /\ UNCHANGED <<req, inb, result>>

\* Mutant: the exception leaves the call without running the input's guard.
AcquireOutLeaks(t) ==
    /\ pc[t] = "acquire out"
    /\ idle[req[t].m] = <<>>
    /\ inb' = [inb EXCEPT ![t] = NoBuffer]
    /\ Goto(t, "idle")
    /\ UNCHANGED <<idle, alive, bytes, layout, content, req, outb, result>>

\* allocate throws bad_alloc: unwinding runs the input's guard.
AcquireOutThrows(t) ==
    /\ pc[t] = "acquire out"
    /\ idle[req[t].m] = <<>>
    /\ Goto(t, "release in")
    /\ UNCHANGED <<idle, alive, bytes, layout, content, req, inb, outb, result>>

\* Mutant: the status of the execution is not looked at.
RunUnchecked(t) ==
    /\ pc[t] = "run"
    /\ \/ content' = [content EXCEPT ![outb[t]] = F[content[inb[t]]]]
       \/ content' = [content EXCEPT ![outb[t]] = Junk]
    /\ Goto(t, "copy out")
    /\ UNCHANGED <<idle, alive, bytes, layout, req, inb, outb, result>>

\* The program reads the input surface and writes the output surface, or
\* fails and leaves anything there.
Run(t) ==
    /\ pc[t] = "run"
    /\ \/ /\ content' = [content EXCEPT ![outb[t]] = F[content[inb[t]]]]
          /\ Goto(t, "copy out")
       \/ /\ content' = [content EXCEPT ![outb[t]] = Junk]
          /\ Goto(t, "release out")
    /\ UNCHANGED <<idle, alive, bytes, layout, req, inb, outb, result>>

CopyOut(t) ==
    /\ pc[t] = "copy out"
    /\ result' = [result EXCEPT ![t] = content[outb[t]]]
    /\ Goto(t, "release out")
    /\ UNCHANGED <<idle, alive, bytes, layout, content, req, inb, outb>>

\* The guards' destructors, in the reverse order of their construction.
ReleaseOut(t) ==
    /\ pc[t] = "release out"
    /\ Release(outb[t])
    /\ outb' = [outb EXCEPT ![t] = NoBuffer]
    /\ Goto(t, "release in")
    /\ UNCHANGED <<req, inb, result>>

ReleaseIn(t) ==
    /\ pc[t] = "release in"
    /\ Release(inb[t])
    /\ inb' = [inb EXCEPT ![t] = NoBuffer]
    /\ Goto(t, "idle")
    /\ UNCHANGED <<req, outb, result>>

\* flush destroys the idle buffers.
Flush ==
    /\ idle' = [n \in Size |-> <<>>]
    /\ alive' = alive \ Pooled
    /\ UNCHANGED <<bytes, layout, content, pc, req, inb, outb, result>>

Next ==
    \/ \E t \in Thread :
          \/ \E r \in Requests, b \in Buffer : AcquireIn(t, r, b)
          \/ CopyIn(t)
          \/ \E b \in Buffer : AcquireOut(t, b)
          \/ AcquireOutThrows(t)
          \/ Run(t) \/ CopyOut(t)
          \/ ReleaseOut(t) \/ ReleaseIn(t)
    \/ Flush

Spec == Init /\ [][Next]_vars

-----------------------------------------------------------------------------
TypeOK ==
    /\ idle \in [Size -> Seq(Buffer)]
    /\ alive \subseteq Buffer
    /\ bytes \in [Buffer -> Size]
    /\ layout \in [Buffer -> Layout \cup {NoLayout}]
    /\ content \in [Buffer -> Value]
    /\ pc \in [Thread -> {"idle", "copy in", "acquire out", "run", "copy out",
                          "release out", "release in"}]
    /\ req \in [Thread -> Request]
    /\ inb \in [Thread -> Buffer \cup {NoBuffer}]
    /\ outb \in [Thread -> Buffer \cup {NoBuffer}]
    /\ result \in [Thread -> Value]

\* A buffer is in one place: in one guard of one call, or once in the idle
\* list of one size (unique_ptr ownership across acquire and release).
Exclusive ==
    /\ \A t, u \in Thread : t # u => Held(t) \cap Held(u) = {}
    /\ \A t \in Thread : inb[t] = outb[t] => inb[t] = NoBuffer
    /\ \A t \in Thread, n \in Size : \A i \in DOMAIN idle[n] : idle[n][i] \notin Held(t)
    /\ \A n, m \in Size : \A i \in DOMAIN idle[n], j \in DOMAIN idle[m] :
          idle[n][i] = idle[m][j] => n = m /\ i = j

\* "The pool keeps at most max_idle_per_size idle buffers of each size"
\* (buffer_manager.hpp).
IdleBounded == \A n \in Size : Len(idle[n]) <= MaxIdle

\* An idle buffer is filed under its own size and a call's buffers have the
\* size it asked for, so that the copies stay within bytes_ (the assertions
\* of copy_from and copy_from_f32), however often the buffer was recycled.
SizesMatch ==
    /\ \A n \in Size : \A i \in DOMAIN idle[n] : bytes[idle[n][i]] = n
    /\ \A t \in Thread :
          /\ inb[t] # NoBuffer => bytes[inb[t]] = InBytes(req[t])
          /\ outb[t] # NoBuffer => bytes[outb[t]] = req[t].m

\* The tensor metadata of a buffer in use is that of its current user, never
\* of an earlier one with the same byte size: copy_from and copy_to assert
\* nbytes == C * S * 2 against it.
MetadataFresh ==
    \A t \in Thread :
        /\ inb[t] # NoBuffer => layout[inb[t]] = req[t].lay
        /\ outb[t] # NoBuffer => layout[outb[t]] = NoLayout

\* No buffer is lost: one that exists is in the pool or in a guard, also after
\* an allocation that throws half-way through a call, and conversely.
NoLeak == alive = Pooled \cup UNION {Held(t) : t \in Thread}

\* What a call copies out to its caller is the program applied to the tensor
\* that call was given, never what another call or an earlier one left in a
\* recycled surface.
OwnResult ==
    [][\A t \in Thread :
          result'[t] # result[t] => result'[t] = F[req[t].d]]_vars
=============================================================================
