----------------------------- MODULE Reassembly -----------------------------
(***************************************************************************)
(* The receiving half of a PeerSession's "core.bin" channel                *)
(* (packages/core/src/peer-session.ts): chunked binary messages are put    *)
(* together in a buffer that is capped per message, bounded in total and   *)
(* swept by an interval timer that runs only while something is buffered.  *)
(*                                                                         *)
(* The remote end is any peer that speaks the frame format: frames of      *)
(* different messages may interleave and may repeat (ADR-0012, item 8).    *)
(* Bytes are counted in abstract units; a frame's body is its size.        *)
(***************************************************************************)
EXTENDS Integers, FiniteSets, Functions

CONSTANTS
    Keys,           \* addon + id pairs: the keys of the reassembly Map
    Mimes,          \* mime types
    MaxTotal,       \* largest declared number of chunks
    Fractions,      \* sequence numbers between two integers: finitely many doubles
    Ceiling,        \* the integer above each, [Fractions -> 1..MaxTotal]
    Sizes,          \* body sizes of a frame
    MessageCap,     \* BIN_MESSAGE_MAX_BYTES
    Budget,         \* BIN_REASSEMBLY_BUDGET_BYTES
    Timeout,        \* BIN_REASSEMBLY_TIMEOUT_MS, in clock ticks
    Incoming,       \* bound: the frames the remote peer may send
    MaxConverting   \* bound: Blob frames being converted at once

ASSUME KeysAssumption == IsFiniteSet(Keys)
ASSUME NumbersAssumption ==
    /\ MaxTotal \in Nat \ {0}
    /\ Sizes \subseteq Nat
    /\ MessageCap \in Nat
    /\ Budget \in Nat
    /\ MessageCap <= Budget
    /\ Timeout \in Nat \ {0}
    /\ MaxConverting \in Nat
ASSUME FractionsAssumption ==
    /\ IsFiniteSet(Fractions)
    /\ Fractions \cap Int = {}
    /\ Ceiling \in [Fractions -> 1..MaxTotal]

VARIABLES
    slots,            \* reassembly: Map from key to ReassemblySlot
    reassemblyBytes,  \* the running total of buffered bytes
    gcTimer,          \* reassemblyGcTimer is set
    converting,       \* Blob frames whose arrayBuffer() has not resolved yet
    closed,           \* close() has run its final part
    event             \* what the last step emitted: "binary" and "error" events

vars == <<slots, reassemblyBytes, gcTimer, converting, closed, event>>

-----------------------------------------------------------------------------
(* Data *)

(* A sequence number is any JSON number that is not negative: the code asks for
   typeof "number" and no more. A negative one is refused like one too large; a
   total that is no length of an array makes new Array(total) throw, and the frame
   is as if it had not come. *)
Frame == [key: Keys, mime: Mimes, seq: 0..MaxTotal \cup Fractions, total: 1..MaxTotal,
          size: Sizes]

ASSUME IncomingAssumption == Incoming \subseteq Frame

(* Received chunks, each under its sequence number. *)
ChunkMap == UNION {[S -> Sizes] : S \in SUBSET (0..(MaxTotal - 1) \cup Fractions)}

Slot == [mime: Mimes,
         total: 1..MaxTotal,
         frames: ChunkMap,
         receivedFrames: Nat,
         bytes: Nat,
         age: 0..Timeout,       \* clock ticks since firstSeenAt
         older: SUBSET Keys]    \* the slots this one comes after in firstSeenAt order

NoMessage == [key |-> {}]
Nothing == [binary |-> NoMessage, errors |-> {}]

Overflow == "reassembly-overflow"
TimedOut == "reassembly-timeout"
TooBig == "exceeds-cap"
BadRange == "seq-total-out-of-range"
Mismatch == "total-mime-mismatch"

ErrorEvent == [reason: {Overflow, TimedOut, TooBig, BadRange, Mismatch}, key: Keys]
Error(reason, ks) == {[reason |-> reason, key |-> k] : k \in ks}

(* The sum of g over a finite set S of its domain. *)
Sum(g, S) == SumFunctionOnSet(g, S)

(* this.reassembly.delete for every key of ks. *)
Without(m, ks) ==
    [k \in DOMAIN m \ ks |-> [m[k] EXCEPT !.older = @ \ ks]]

-----------------------------------------------------------------------------
Init ==
    /\ slots = [k \in {} |-> {}]
    /\ reassemblyBytes = 0
    /\ gcTimer = FALSE
    /\ converting = {}
    /\ closed = FALSE
    /\ event = Nothing

(* Definitions named Slip_* are plausible mistakes: each replaces the definition
   it stands before to show that a property notices the difference. *)
Slip_TimerNeverStops(timer, m) == timer
Slip_TimerAlwaysStops(timer, m) == FALSE

(* maybeStopReassemblyGc: the timer survives only while a slot does. *)
TimerAfter(timer, m) == timer /\ DOMAIN m # {}

(* The buffer with frame f recorded in its slot, a new one if need be. *)
SlotFor(f) ==
    IF f.key \in DOMAIN slots
    THEN slots[f.key]
    ELSE [mime |-> f.mime, total |-> f.total, frames |-> [i \in {} |-> 0],
          receivedFrames |-> 0, bytes |-> 0, age |-> 0, older |-> DOMAIN slots]

Recorded(f) ==
    LET s == SlotFor(f)
    IN  [s EXCEPT !.frames = [i \in DOMAIN s.frames \cup {f.seq} |->
                                IF i = f.seq THEN f.size ELSE s.frames[i]],
                  !.receivedFrames = @ + 1,
                  !.bytes = @ + f.size]

WithSlot(key, s) == [k \in DOMAIN slots \cup {key} |-> IF k = key THEN s ELSE slots[k]]

Slip_EvictOne(m, total, protected) ==
    {k \in DOMAIN m \ {protected} : total > Budget /\ m[k].older \ {protected} = {}}

Slip_EvictNewest(m, total, protected) ==
    LET bytesOf == [k \in DOMAIN m |-> m[k].bytes]
    IN  {k \in DOMAIN m \ {protected} :
            total - Sum(bytesOf, {o \in DOMAIN m : k \in m[o].older} \ {protected})
                > Budget}

(* evictUntilUnderBudget: drop the oldest slots other than the protected one,
   one at a time, while the total is over the budget. A slot is dropped iff the
   total is still over the budget once everything older has been dropped. *)
Evicted(m, total, protected) ==
    LET bytesOf == [k \in DOMAIN m |-> m[k].bytes]
    IN  {k \in DOMAIN m \ {protected} :
            total - Sum(bytesOf, m[k].older \ {protected}) > Budget}

-----------------------------------------------------------------------------
(* handleBinaryFrame and handleChunk, one action per way out. *)

(* seq < total *)
Below(seq, total) == IF seq \in Fractions THEN Ceiling[seq] <= total ELSE seq < total

Slip_InSequence(f) == Below(f.seq, f.total + 1)
InSequence(f) == Below(f.seq, f.total)
Matches(f) ==
    f.key \in DOMAIN slots =>
        slots[f.key].total = f.total /\ slots[f.key].mime = f.mime
Slip_Duplicate(f) == FALSE
Duplicate(f) == f.key \in DOMAIN slots /\ f.seq \in DOMAIN slots[f.key].frames
NewChunk(f) == f.total > 1 /\ InSequence(f) /\ Matches(f) /\ ~Duplicate(f)

(* A frame without chunk fields, or with total 1, is a whole message. *)
EmitSingle(f) ==
    /\ f.total = 1
    /\ event' = [binary |-> [key |-> f.key, mime |-> f.mime, total |-> 1,
                             frames |-> [i \in {0} |-> f.size]],
                 errors |-> {}]
    /\ UNCHANGED <<slots, reassemblyBytes, gcTimer>>

RejectRange(f) ==
    /\ f.total > 1
    /\ ~InSequence(f)
    /\ event' = [Nothing EXCEPT !.errors = Error(BadRange, {f.key})]
    /\ UNCHANGED <<slots, reassemblyBytes, gcTimer>>

RejectMismatch(f) ==
    /\ f.total > 1
    /\ InSequence(f)
    /\ ~Matches(f)
    /\ event' = [Nothing EXCEPT !.errors = Error(Mismatch, {f.key})]
    /\ UNCHANGED <<slots, reassemblyBytes, gcTimer>>

IgnoreDuplicate(f) ==
    /\ f.total > 1
    /\ InSequence(f)
    /\ Matches(f)
    /\ Duplicate(f)
    /\ event' = Nothing
    /\ UNCHANGED <<slots, reassemblyBytes, gcTimer>>

DropOversize(f) ==
    LET s == Recorded(f)
    IN  /\ NewChunk(f)
        /\ s.bytes > MessageCap
        /\ slots' = Without(slots, {f.key})
        /\ reassemblyBytes' = reassemblyBytes + f.size - s.bytes
        /\ gcTimer' = TimerAfter(TRUE, slots')
        /\ event' = [Nothing EXCEPT !.errors = Error(TooBig, {f.key})]

(* The chunk is recorded, then older messages make room for it. *)
Buffer(f) ==
    LET s == Recorded(f)
        m == WithSlot(f.key, s)
        total == reassemblyBytes + f.size
        gone == Evicted(m, total, f.key)
    IN  /\ NewChunk(f)
        /\ s.bytes <= MessageCap
        /\ s.receivedFrames # s.total
        /\ slots' = Without(m, gone)
        /\ reassemblyBytes' = total - Sum([k \in DOMAIN m |-> m[k].bytes], gone)
        /\ gcTimer' = TimerAfter(TRUE, slots')
        /\ event' = [Nothing EXCEPT !.errors = Error(Overflow, gone)]

(* As many chunks as the total declares: room is made first, then the message
   leaves. The loop copies the chunks numbered 0..total-1 that are there, one after
   the other, into an array that is as long as all of them together. *)
Complete(f) ==
    LET s == Recorded(f)
        m == WithSlot(f.key, s)
        total == reassemblyBytes + f.size
        gone == Evicted(m, total, f.key)
    IN  /\ NewChunk(f)
        /\ s.bytes <= MessageCap
        /\ s.receivedFrames = s.total
        /\ slots' = Without(m, gone \cup {f.key})
        /\ reassemblyBytes' = total - Sum([k \in DOMAIN m |-> m[k].bytes], gone) - s.bytes
        /\ gcTimer' = TimerAfter(TRUE, slots')
        /\ event' = [binary |-> [key |-> f.key, mime |-> s.mime, total |-> s.total,
                                 frames |-> s.frames],
                     errors |-> Error(Overflow, gone)]

HandleBinaryFrame(f) ==
    \/ EmitSingle(f)
    \/ RejectRange(f)
    \/ RejectMismatch(f)
    \/ IgnoreDuplicate(f)
    \/ DropOversize(f)
    \/ Buffer(f)
    \/ Complete(f)

-----------------------------------------------------------------------------
(* binChannel.onmessage with an ArrayBuffer: handled at once. *)
OnArrayBuffer ==
    /\ ~closed
    /\ \E f \in Incoming : HandleBinaryFrame(f)
    /\ UNCHANGED <<converting, closed>>

(* binChannel.onmessage with a Blob: the bytes come back later, in any order. *)
OnBlob ==
    /\ ~closed
    /\ Cardinality(converting) < MaxConverting
    /\ \E f \in Incoming \ converting : converting' = converting \cup {f}
    /\ event' = Nothing
    /\ UNCHANGED <<slots, reassemblyBytes, gcTimer, closed>>

(* arrayBuffer() resolves: nothing ties the continuation to the session still
   being open. *)
BlobConverted ==
    /\ \E f \in converting :
          /\ HandleBinaryFrame(f)
          /\ converting' = converting \ {f}
    /\ UNCHANGED closed

Slip_GcSilent ==
    LET stale == {k \in DOMAIN slots : slots[k].age >= Timeout}
    IN  /\ gcTimer
        /\ slots' = Without(slots, stale)
        /\ reassemblyBytes' =
              reassemblyBytes - Sum([k \in DOMAIN slots |-> slots[k].bytes], stale)
        /\ gcTimer' = TimerAfter(gcTimer, slots')
        /\ event' = Nothing
        /\ UNCHANGED <<converting, closed>>

(* gcStaleReassemblies, run by the interval timer. *)
GcStale ==
    LET stale == {k \in DOMAIN slots : slots[k].age >= Timeout}
    IN  /\ gcTimer
        /\ slots' = Without(slots, stale)
        /\ reassemblyBytes' =
              reassemblyBytes - Sum([k \in DOMAIN slots |-> slots[k].bytes], stale)
        /\ gcTimer' = TimerAfter(gcTimer, slots')
        /\ event' = [Nothing EXCEPT !.errors = Error(TimedOut, stale)]
        /\ UNCHANGED <<converting, closed>>

(* Date.now() moves on. Ages beyond the timeout are all alike. *)
Tick ==
    /\ \E k \in DOMAIN slots : slots[k].age < Timeout
    /\ slots' = [k \in DOMAIN slots |->
                    [slots[k] EXCEPT !.age = IF @ < Timeout THEN @ + 1 ELSE @]]
    /\ event' = Nothing
    /\ UNCHANGED <<reassemblyBytes, gcTimer, converting, closed>>

Slip_CloseKeepsCount ==
    /\ ~closed
    /\ closed' = TRUE
    /\ slots' = [k \in {} |-> {}]
    /\ gcTimer' = FALSE
    /\ event' = Nothing
    /\ UNCHANGED <<reassemblyBytes, converting>>

(* The final part of close(): the channel is closed and the buffer dropped. *)
Close ==
    /\ ~closed
    /\ closed' = TRUE
    /\ slots' = [k \in {} |-> {}]
    /\ reassemblyBytes' = 0
    /\ gcTimer' = FALSE
    /\ event' = Nothing
    /\ UNCHANGED converting

Next ==
    \/ OnArrayBuffer
    \/ OnBlob
    \/ BlobConverted
    \/ GcStale
    \/ Tick
    \/ Close

(* Timers and the clock run whatever the peer does. *)
Fairness == WF_vars(GcStale) /\ WF_vars(Tick)

Spec == Init /\ [][Next]_vars
FairSpec == Spec /\ Fairness

-----------------------------------------------------------------------------
(* Properties *)

(* Every variable has its type (reassemblyBytes: see Accounting). *)
TypeOK ==
    /\ DOMAIN slots \subseteq Keys
    /\ \A k \in DOMAIN slots : slots[k] \in Slot
    /\ gcTimer \in BOOLEAN
    /\ converting \subseteq Incoming
    /\ closed \in BOOLEAN
    /\ event.errors \subseteq ErrorEvent

(* The counters kept beside the buffered chunks (reassemblyBytes, slot.bytes,
   slot.receivedFrames) agree with what is really buffered, whatever mix of
   evictions, timeouts, completions and oversize drops came before. *)
CountsMatch ==
    \A k \in DOMAIN slots :
        slots[k].receivedFrames = Cardinality(DOMAIN slots[k].frames)

Accounting ==
    /\ CountsMatch
    /\ \A k \in DOMAIN slots :
          slots[k].bytes = Sum(slots[k].frames, DOMAIN slots[k].frames)
    /\ reassemblyBytes = Sum([k \in DOMAIN slots |-> slots[k].bytes], DOMAIN slots)

(* No frame leaves more than the budget buffered ("MUST be bounded at 16 MiB
   in-flight per peer", docs/peer-session-spec.md): evicting everything but the
   protected message is always enough. *)
WithinBudget == reassemblyBytes <= Budget

(* The interval timer runs exactly while something is buffered: a slot without
   a timer would never time out, a timer without a slot would never stop. *)
TimerIffSlots == gcTimer <=> DOMAIN slots # {}

(* A slot in the buffer is a partial message: some chunk is there, there are fewer
   than its total declares, each has a number below it, and the cap holds. *)
SlotsArePartial ==
    \A k \in DOMAIN slots :
        LET s == slots[k]
        IN  /\ DOMAIN s.frames # {}
            /\ \A seq \in DOMAIN s.frames : Below(seq, s.total)
            /\ Cardinality(DOMAIN s.frames) < s.total
            /\ s.bytes <= MessageCap

(* The message a "binary" event carries has every chunk its total declares, but
   for one hole in the place of each chunk whose number is no integer ("once `seq`
   0..total-1 have all arrived", docs/addon-binary-transfer-spec.md:132; the code
   counts such a chunk, and its copying loop leaves it out). No repetition,
   mismatch, eviction or late Blob makes a hole. *)
Holes(m) == (0..(m.total - 1)) \ DOMAIN m.frames
Strays(m) == DOMAIN m.frames \cap Fractions

HolesAreStrays ==
    event.binary # NoMessage =>
        Cardinality(Holes(event.binary)) = Cardinality(Strays(event.binary))

(* A buffered message leaves the buffer by being emitted, by an error that
   names it, or by close(): never silently. *)
NoSilentLoss ==
    [][\A k \in DOMAIN slots \ DOMAIN slots' :
          \/ closed' /\ ~closed
          \/ event'.binary # NoMessage /\ event'.binary.key = k
          \/ \E e \in event'.errors : e.key = k]_vars

(* Making room spares the message the frame belongs to, and never drops a
   message that is younger than one it keeps. *)
OldestFirst ==
    [][\A k \in DOMAIN slots \ DOMAIN slots' :
          [reason |-> Overflow, key |-> k] \in event'.errors =>
              \A o \in slots[k].older \cap DOMAIN slots' :
                  slots'[o].receivedFrames > slots[o].receivedFrames]_vars

(* A message that never completes does not stay: every slot leaves the buffer
   (timeout, eviction, completion or close), also one that a late Blob frame
   opened after close(). *)
StaleReclaimed ==
    \A k \in Keys : k \in DOMAIN slots ~> k \notin DOMAIN slots

=============================================================================
