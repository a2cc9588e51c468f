-------------------------- MODULE ReassemblyProofs --------------------------
(* Theorems about Reassembly, for every set of keys, sizes and limits. *)
EXTENDS Reassembly, FiniteSetTheorems, WellFoundedInduction, TLAPS

(* What holds of every buffered slot: the part of the inductive invariant that
   talks about one slot. *)
Tallied(s) ==
    /\ DOMAIN s.frames # {}
    /\ IsFiniteSet(DOMAIN s.frames)
    /\ \A seq \in DOMAIN s.frames : Below(seq, s.total)
    /\ s.receivedFrames = Cardinality(DOMAIN s.frames)
    /\ s.receivedFrames <= s.total

PartialSlot(s) ==
    /\ s \in Slot
    /\ Tallied(s)
    /\ s.bytes <= MessageCap

AllPartial(m) ==
    \A k \in DOMAIN m : PartialSlot(m[k]) /\ m[k].receivedFrames # m[k].total

(* The inductive invariant. SlotsArePartial alone is not inductive: that a slot
   that is not complete has fewer chunks than its total needs receivedFrames to
   count them. *)
IInv ==
    /\ TypeOK
    /\ TimerIffSlots
    /\ AllPartial(slots)
    /\ HolesAreStrays

-----------------------------------------------------------------------------
(* Among total chunks whose numbers are below total, there is one that is no integer
   for each of 0..total-1 that is not there. *)
LEMMA HolesAreCounted ==
    ASSUME NEW total \in Nat, NEW D, IsFiniteSet(D), Cardinality(D) = total,
           D \subseteq 0..(MaxTotal - 1) \cup Fractions,
           \A seq \in D : Below(seq, total)
    PROVE  Cardinality((0..(total - 1)) \ D) = Cardinality(D \cap Fractions)
<1> DEFINE I == 0..(total - 1)
<1>1. IsFiniteSet(I) /\ Cardinality(I) = total
  <2>1. 0 \in Int /\ total - 1 \in Int
    OBVIOUS
  <2> QED
    BY <2>1, FS_Interval
<1>2. I \cap D = D \ Fractions
  <2>1. ASSUME NEW seq \in D, seq \notin Fractions PROVE seq \in I
    <3>1. seq < total /\ seq \in 0..(MaxTotal - 1)
      BY <2>1 DEF Below
    <3> QED
      BY <3>1, NumbersAssumption
  <2>2. I \cap Fractions = {}
    BY FractionsAssumption
  <2> HIDE DEF I
  <2> QED
    BY <2>1, <2>2
<1> HIDE DEF I
<1>3. Cardinality(I \ D) = total - Cardinality(I \cap D)
  BY <1>1, FS_Difference
<1>4. Cardinality(D \ Fractions) = total - Cardinality(D \cap Fractions)
  BY FS_Difference
<1>5. Cardinality(D \cap Fractions) \in Nat
  BY FS_Intersection, FS_CardinalityType
<1>6. Cardinality(I \ D) = Cardinality(D \cap Fractions)
  <2>1. \A h, x, n \in Int : n = total - x /\ h = total - n => h = x
    OBVIOUS
  <2>2. Cardinality(I \ D) = total - Cardinality(D \ Fractions)
    BY <1>2, <1>3
  <2>3. Cardinality(I \ D) \in Int /\ Cardinality(D \ Fractions) \in Int
    BY <1>4, <1>5, <2>2
  <2> QED
    BY <1>4, <1>5, <2>1, <2>2, <2>3
<1> QED
  BY <1>6 DEF I

(* Recording a new chunk gives a slot that is well formed but for the cap. *)
LEMMA RecordedSlot ==
    ASSUME IInv, NEW f \in Frame, NewChunk(f)
    PROVE  LET s == Recorded(f)
           IN  /\ s.bytes <= MessageCap => PartialSlot(s)
               /\ s \in Slot
               /\ Tallied(s)
               /\ s.total = f.total
<1> DEFINE old == SlotFor(f)
           new == Recorded(f)
<1>0. /\ f.key \in Keys /\ f.mime \in Mimes /\ f.size \in Sizes
      /\ f.total \in 1..MaxTotal /\ f.seq \in 0..MaxTotal \cup Fractions
  BY DEF Frame
<1>1. /\ f.key \in Keys /\ f.mime \in Mimes /\ f.size \in Sizes /\ f.size \in Nat
      /\ f.total \in 1..MaxTotal /\ f.total \in Nat
      /\ Below(f.seq, f.total) /\ f.seq \in 0..(MaxTotal - 1) \cup Fractions
  <2>1. Below(f.seq, f.total)
    BY DEF NewChunk, InSequence
  <2>2. f.total \in Nat /\ f.size \in Nat
    <3>1. \A n \in 1..MaxTotal : n \in Nat
      BY NumbersAssumption
    <3>2. \A n \in Sizes : n \in Nat
      BY NumbersAssumption
    <3> QED
      BY <1>0, <3>1, <3>2
  <2>3. f.seq \in 0..(MaxTotal - 1) \cup Fractions
    BY <1>0, <2>1, <2>2, NumbersAssumption DEF Below
  <2> QED
    BY <1>0, <2>1, <2>2, <2>3
<1>2. /\ old \in Slot
      /\ old.total = f.total
      /\ old.mime = f.mime
      /\ f.seq \notin DOMAIN old.frames
      /\ IsFiniteSet(DOMAIN old.frames)
      /\ \A seq \in DOMAIN old.frames : Below(seq, f.total)
      /\ old.receivedFrames = Cardinality(DOMAIN old.frames)
      /\ old.receivedFrames < f.total
  <2>1. CASE f.key \in DOMAIN slots
    <3>1. old = slots[f.key]
      BY <2>1 DEF SlotFor
    <3>2. PartialSlot(slots[f.key]) /\ slots[f.key].receivedFrames # slots[f.key].total
      BY <2>1 DEF IInv, AllPartial
    <3>3. slots[f.key].total = f.total /\ slots[f.key].mime = f.mime
          /\ f.seq \notin DOMAIN slots[f.key].frames
      BY <2>1 DEF NewChunk, Matches, Duplicate
    <3>4. slots[f.key].receivedFrames < f.total
      <4>1. slots[f.key].receivedFrames \in Nat
        BY <3>2 DEF PartialSlot, Slot
      <4> QED
        BY <1>1, <3>2, <3>3, <4>1 DEF PartialSlot, Tallied
    <3> QED
      BY <3>1, <3>2, <3>3, <3>4 DEF PartialSlot, Tallied
  <2>2. CASE f.key \notin DOMAIN slots
    <3>0. old = [mime |-> f.mime, total |-> f.total, frames |-> [i \in {} |-> 0],
                 receivedFrames |-> 0, bytes |-> 0, age |-> 0, older |-> DOMAIN slots]
      BY <2>2 DEF SlotFor
    <3>1. [i \in {} |-> 0] \in [{} -> Sizes]
      OBVIOUS
    <3>2. [i \in {} |-> 0] \in ChunkMap
      <4>1. {} \in SUBSET (0..(MaxTotal - 1) \cup Fractions)
        OBVIOUS
      <4> QED
        BY <3>1, <4>1 DEF ChunkMap
    <3>3. DOMAIN slots \subseteq Keys /\ 0 \in 0..Timeout
      BY NumbersAssumption DEF IInv, TypeOK
    <3>4. old \in Slot
      BY <1>1, <3>0, <3>2, <3>3 DEF Slot
    <3>5. old.receivedFrames = 0 /\ DOMAIN old.frames = {} /\ old.total = f.total /\ old.mime = f.mime
      BY <3>0
    <3>6. Cardinality({}) = 0 /\ IsFiniteSet({})
      BY FS_EmptySet
    <3>7. 0 < f.total
      BY <1>1
    <3> QED
      BY <3>4, <3>5, <3>6, <3>7
  <2> QED
    BY <2>1, <2>2
<1> DEFINE D == DOMAIN old.frames
           fr == [i \in D \cup {f.seq} |-> IF i = f.seq THEN f.size ELSE old.frames[i]]
<1>3. new = [old EXCEPT !.frames = fr, !.receivedFrames = @ + 1, !.bytes = @ + f.size]
  BY DEF Recorded
<1>4. /\ old.frames \in ChunkMap
      /\ old.mime \in Mimes /\ old.total \in 1..MaxTotal /\ old.receivedFrames \in Nat
      /\ old.bytes \in Nat /\ old.age \in 0..Timeout /\ old.older \in SUBSET Keys
  BY <1>2 DEF Slot
<1>5. \A i \in D : old.frames[i] \in Sizes
  BY <1>4 DEF ChunkMap
<1>6. /\ fr \in [D \cup {f.seq} -> Sizes]
      /\ D \cup {f.seq} \subseteq 0..(MaxTotal - 1) \cup Fractions
  <2>1. fr \in [D \cup {f.seq} -> Sizes]
    BY <1>1, <1>5
  <2>2. D \subseteq 0..(MaxTotal - 1) \cup Fractions
    BY <1>4 DEF ChunkMap
  <2> QED
    BY <1>1, <2>1, <2>2
<1>7. fr \in ChunkMap
  BY <1>6 DEF ChunkMap
<1>8. /\ new.mime = old.mime /\ new.total = old.total /\ new.frames = fr
      /\ new.receivedFrames = old.receivedFrames + 1 /\ new.bytes = old.bytes + f.size
      /\ new \in Slot
  <2> HIDE DEF old, new, fr
  <2>1. /\ old.receivedFrames + 1 \in Nat /\ old.bytes + f.size \in Nat
    BY <1>1, <1>4
  <2>2. old \in Slot
    BY <1>2
  <2>3. /\ new.mime = old.mime /\ new.total = old.total /\ new.frames = fr
        /\ new.receivedFrames = old.receivedFrames + 1 /\ new.bytes = old.bytes + f.size
    BY <1>3, <2>2 DEF Slot
  <2>4. new \in Slot
    BY <1>3, <1>7, <2>1, <2>2 DEF Slot
  <2> QED
    BY <2>3, <2>4
<1>9. Cardinality(D \cup {f.seq}) = Cardinality(D) + 1 /\ IsFiniteSet(D \cup {f.seq})
  BY <1>2, FS_AddElement
<1>10. DOMAIN new.frames = D \cup {f.seq}
  BY <1>8
<1>11. Tallied(new)
  <2>1. \A seq \in D \cup {f.seq} : Below(seq, f.total)
    BY <1>1, <1>2
  <2>2. old.receivedFrames + 1 <= f.total
    BY <1>1, <1>2, <1>4
  <2>3. new.total = f.total /\ new.receivedFrames = Cardinality(D \cup {f.seq})
    BY <1>2, <1>8, <1>9
  <2>4. new.receivedFrames <= new.total
    BY <1>2, <1>8, <2>2, <2>3
  <2> HIDE DEF new, old, D
  <2> QED
    BY <1>9, <1>10, <2>1, <2>3, <2>4 DEF Tallied
<1> HIDE DEF new, old
<1> QED
  BY <1>2, <1>8, <1>11 DEF PartialSlot, new, old

(* Deleting keys from the Map leaves the other slots as they were, but for the
   bookkeeping of their age order. *)
LEMMA WithoutKeeps ==
    ASSUME NEW m, NEW ks,
           \A k \in DOMAIN m : PartialSlot(m[k]),
           \A k \in DOMAIN m \ ks : m[k].receivedFrames # m[k].total
    PROVE  /\ DOMAIN Without(m, ks) = DOMAIN m \ ks
           /\ AllPartial(Without(m, ks))
<1>1. DOMAIN Without(m, ks) = DOMAIN m \ ks
  BY DEF Without
<1>2. ASSUME NEW k \in DOMAIN m \ ks
      PROVE  /\ PartialSlot(Without(m, ks)[k])
             /\ Without(m, ks)[k].receivedFrames # Without(m, ks)[k].total
  <2>1. Without(m, ks)[k] = [m[k] EXCEPT !.older = @ \ ks]
    BY DEF Without
  <2>2. PartialSlot(m[k])
    OBVIOUS
  <2> QED
    BY <2>1, <2>2 DEF PartialSlot, Slot, Tallied
<1> QED
  BY <1>1, <1>2 DEF AllPartial

(* What handling a frame re-establishes. *)
FrameHandled ==
    /\ DOMAIN slots' \subseteq Keys
    /\ AllPartial(slots')
    /\ gcTimer' \in BOOLEAN
    /\ gcTimer' <=> DOMAIN slots' # {}
    /\ event'.errors \subseteq ErrorEvent
    /\ HolesAreStrays'

(* Every way out of handleBinaryFrame keeps the buffer well formed. *)
LEMMA FrameKeepsInv ==
    ASSUME IInv, NEW f \in Frame, HandleBinaryFrame(f)
    PROVE  FrameHandled
<1> DEFINE s == Recorded(f)
           m == WithSlot(f.key, s)
           total == reassemblyBytes + f.size
           gone == Evicted(m, total, f.key)
<1> USE DEF FrameHandled
<1>0. /\ DOMAIN slots \subseteq Keys /\ AllPartial(slots) /\ gcTimer \in BOOLEAN
      /\ gcTimer <=> DOMAIN slots # {}
      /\ f.key \in Keys
  BY DEF IInv, TypeOK, TimerIffSlots, Frame
<1>1. ASSUME NEW ks \in SUBSET Keys, NEW reason \in {Overflow, TimedOut, TooBig, BadRange, Mismatch}
      PROVE  Error(reason, ks) \subseteq ErrorEvent
  BY DEF Error, ErrorEvent
<1>2. \A e : [Nothing EXCEPT !.errors = e].binary = NoMessage
              /\ [Nothing EXCEPT !.errors = e].errors = e
  BY DEF Nothing
<1>3. CASE EmitSingle(f)
  <2>1. event'.errors = {} /\ event'.binary.total = 1
        /\ DOMAIN event'.binary.frames = {0}
    BY <1>3 DEF EmitSingle
  <2>2. HolesAreStrays'
    <3>1. (0..(event'.binary.total - 1)) \ DOMAIN event'.binary.frames = {}
      BY <2>1
    <3>2. DOMAIN event'.binary.frames \cap Fractions = {}
      BY <2>1, FractionsAssumption
    <3> QED
      BY <3>1, <3>2 DEF HolesAreStrays, Holes, Strays
  <2> QED
    BY <1>0, <1>3, <2>1, <2>2 DEF EmitSingle
<1>4. CASE RejectRange(f)
  <2>1. event'.binary = NoMessage /\ event'.errors = Error(BadRange, {f.key})
    BY <1>2, <1>4 DEF RejectRange
  <2> QED
    BY <1>0, <1>1, <1>4, <2>1 DEF RejectRange, HolesAreStrays
<1>5. CASE RejectMismatch(f)
  <2>1. event'.binary = NoMessage /\ event'.errors = Error(Mismatch, {f.key})
    BY <1>2, <1>5 DEF RejectMismatch
  <2> QED
    BY <1>0, <1>1, <1>5, <2>1 DEF RejectMismatch, HolesAreStrays
<1>6. CASE IgnoreDuplicate(f)
  BY <1>0, <1>6 DEF IgnoreDuplicate, HolesAreStrays, Nothing
<1>7. CASE DropOversize(f)
  <2>1. /\ slots' = Without(slots, {f.key})
        /\ gcTimer' = (TRUE /\ DOMAIN slots' # {})
        /\ event'.binary = NoMessage /\ event'.errors = Error(TooBig, {f.key})
    BY <1>2, <1>7 DEF DropOversize, TimerAfter
  <2>2. /\ \A k \in DOMAIN slots : PartialSlot(slots[k])
        /\ \A k \in DOMAIN slots \ {f.key} : slots[k].receivedFrames # slots[k].total
    BY <1>0 DEF AllPartial
  <2>3. AllPartial(slots') /\ DOMAIN slots' = DOMAIN slots \ {f.key}
    BY <2>1, <2>2, WithoutKeeps
  <2> QED
    BY <1>0, <1>1, <2>1, <2>3 DEF HolesAreStrays
<1>8. ASSUME NewChunk(f), s.bytes <= MessageCap
      PROVE  /\ DOMAIN m = DOMAIN slots \cup {f.key}
             /\ \A k \in DOMAIN m : PartialSlot(m[k])
             /\ \A k \in DOMAIN m \ {f.key} : m[k].receivedFrames # m[k].total
             /\ m[f.key] = s
             /\ gone \subseteq DOMAIN m \ {f.key}
  <2>1. PartialSlot(s)
    BY <1>8, RecordedSlot
  <2>2. /\ DOMAIN m = DOMAIN slots \cup {f.key}
        /\ m[f.key] = s
        /\ \A k \in DOMAIN m \ {f.key} : k \in DOMAIN slots /\ m[k] = slots[k]
    BY DEF WithSlot
  <2>3. gone \subseteq DOMAIN m \ {f.key}
    BY DEF Evicted
  <2> HIDE DEF m, s, gone
  <2> QED
    BY <1>0, <2>1, <2>2, <2>3 DEF AllPartial
<1>9. CASE Buffer(f)
  <2>1. /\ NewChunk(f) /\ s.bytes <= MessageCap /\ s.receivedFrames # s.total
        /\ slots' = Without(m, gone)
        /\ gcTimer' = (TRUE /\ DOMAIN slots' # {})
        /\ event'.binary = NoMessage /\ event'.errors = Error(Overflow, gone)
    BY <1>2, <1>9 DEF Buffer, TimerAfter
  <2> HIDE DEF m, s, gone
  <2>2. AllPartial(slots') /\ DOMAIN slots' \subseteq Keys
    <3>1. \A k \in DOMAIN m \ gone : m[k].receivedFrames # m[k].total
      BY <1>8, <2>1
    <3>2. AllPartial(slots') /\ DOMAIN slots' = DOMAIN m \ gone
      BY <1>8, <2>1, <3>1, WithoutKeeps
    <3> QED
      BY <1>0, <1>8, <2>1, <3>2
  <2>3. gone \subseteq Keys
    BY <1>0, <1>8, <2>1
  <2> QED
    BY <1>1, <2>1, <2>2, <2>3 DEF HolesAreStrays
<1>10. CASE Complete(f)
  <2>1. /\ NewChunk(f) /\ s.bytes <= MessageCap /\ s.receivedFrames = s.total
        /\ slots' = Without(m, gone \cup {f.key})
        /\ gcTimer' = (TRUE /\ DOMAIN slots' # {})
        /\ event'.binary.frames = s.frames /\ event'.binary.total = s.total
        /\ event'.errors = Error(Overflow, gone)
    BY <1>10 DEF Complete, TimerAfter
  <2>2. HolesAreStrays'
    <3>1. Tallied(s) /\ s \in Slot
      BY <2>1, RecordedSlot
    <3>2. /\ s.total \in Nat
          /\ DOMAIN s.frames \subseteq 0..(MaxTotal - 1) \cup Fractions
      BY <3>1, NumbersAssumption DEF Slot, ChunkMap
    <3> HIDE DEF s
    <3>3. Cardinality((0..(s.total - 1)) \ DOMAIN s.frames)
            = Cardinality(DOMAIN s.frames \cap Fractions)
      BY <2>1, <3>1, <3>2, HolesAreCounted DEF Tallied
    <3> QED
      BY <2>1, <3>3 DEF HolesAreStrays, Holes, Strays
  <2> HIDE DEF m, s, gone
  <2>3. AllPartial(slots') /\ DOMAIN slots' \subseteq Keys
    <3>1. \A k \in DOMAIN m \ (gone \cup {f.key}) : m[k].receivedFrames # m[k].total
      BY <1>8, <2>1
    <3>2. AllPartial(slots') /\ DOMAIN slots' = DOMAIN m \ (gone \cup {f.key})
      BY <1>8, <2>1, <3>1, WithoutKeeps
    <3> QED
      BY <1>0, <1>8, <2>1, <3>2
  <2>4. gone \subseteq Keys
    BY <1>0, <1>8, <2>1
  <2> QED
    BY <1>1, <2>1, <2>2, <2>3, <2>4
<1> QED
  BY <1>3, <1>4, <1>5, <1>6, <1>7, <1>9, <1>10 DEF HandleBinaryFrame

(* The inductive invariant holds in every reachable state of the buffer, whatever
   frames the remote peer sends (handleBinaryFrame, gcStaleReassemblies, close). *)
THEOREM InvariantHolds == Spec => []IInv
<1>1. Init => IInv
  <2> SUFFICES ASSUME Init PROVE IInv
    OBVIOUS
  <2>1. DOMAIN slots = {} /\ gcTimer = FALSE /\ converting = {} /\ closed = FALSE
    BY DEF Init
  <2>2. event.binary = NoMessage /\ event.errors = {}
    BY DEF Init, Nothing
  <2>3. \A k \in DOMAIN slots : slots[k] \in Slot
    BY <2>1
  <2>4. TypeOK
    BY <2>1, <2>2, <2>3 DEF TypeOK
  <2> QED
    BY <2>1, <2>2, <2>4 DEF IInv, TimerIffSlots, AllPartial, HolesAreStrays
<1>2. IInv /\ [Next]_vars => IInv'
  <2> SUFFICES ASSUME IInv, [Next]_vars PROVE IInv'
    OBVIOUS
  <2>0. /\ DOMAIN slots \subseteq Keys /\ AllPartial(slots) /\ gcTimer \in BOOLEAN
        /\ gcTimer <=> DOMAIN slots # {}
        /\ converting \subseteq Incoming /\ closed \in BOOLEAN
    BY DEF IInv, TypeOK, TimerIffSlots
  <2>1. AllPartial(slots) /\ DOMAIN slots \subseteq Keys
        => \A k \in DOMAIN slots : slots[k] \in Slot
    BY DEF AllPartial, PartialSlot
  <2>2. AllPartial(slots') /\ DOMAIN slots' \subseteq Keys
        => \A k \in DOMAIN slots' : slots'[k] \in Slot
    BY DEF AllPartial, PartialSlot
  <2>3. CASE OnArrayBuffer
    <3>1. PICK f \in Incoming : HandleBinaryFrame(f)
      BY <2>3 DEF OnArrayBuffer
    <3>2. FrameHandled
      BY <3>1, FrameKeepsInv, IncomingAssumption
    <3> QED
      BY <2>0, <2>2, <2>3, <3>2 DEF FrameHandled, OnArrayBuffer, IInv, TypeOK, TimerIffSlots
  <2>4. CASE OnBlob
    <3>1. converting' \subseteq Incoming /\ event' = Nothing
          /\ UNCHANGED <<slots, reassemblyBytes, gcTimer, closed>>
      BY <2>0, <2>4 DEF OnBlob
    <3> QED
      BY <2>0, <2>1, <3>1 DEF IInv, TypeOK, TimerIffSlots, HolesAreStrays, Nothing
  <2>5. CASE BlobConverted
    <3>1. PICK f \in converting : HandleBinaryFrame(f) /\ converting' = converting \ {f}
      BY <2>5 DEF BlobConverted
    <3>2. FrameHandled
      BY <2>0, <3>1, FrameKeepsInv, IncomingAssumption
    <3> QED
      BY <2>0, <2>2, <2>5, <3>1, <3>2 DEF FrameHandled, BlobConverted, IInv, TypeOK, TimerIffSlots
  <2>6. CASE GcStale
    <3> DEFINE stale == {k \in DOMAIN slots : slots[k].age >= Timeout}
    <3>1. /\ slots' = Without(slots, stale)
          /\ gcTimer' = (gcTimer /\ DOMAIN slots' # {})
          /\ event'.binary = NoMessage /\ event'.errors = Error(TimedOut, stale)
          /\ UNCHANGED <<converting, closed>>
      BY <2>6 DEF GcStale, TimerAfter, Nothing
    <3>2. stale \subseteq DOMAIN slots
      OBVIOUS
    <3> HIDE DEF stale
    <3>3. AllPartial(slots') /\ DOMAIN slots' = DOMAIN slots \ stale
      <4>1. /\ \A k \in DOMAIN slots : PartialSlot(slots[k])
            /\ \A k \in DOMAIN slots \ stale : slots[k].receivedFrames # slots[k].total
        BY <2>0 DEF AllPartial
      <4> QED
        BY <3>1, <4>1, WithoutKeeps
    <3>4. event'.errors \subseteq ErrorEvent
      BY <2>0, <3>1, <3>2 DEF Error, ErrorEvent
    <3> QED
      BY <2>0, <2>2, <3>1, <3>3, <3>4 DEF IInv, TypeOK, TimerIffSlots, HolesAreStrays
  <2>7. CASE Tick
    <3>1. /\ slots' = [k \in DOMAIN slots |->
                          [slots[k] EXCEPT !.age = IF @ < Timeout THEN @ + 1 ELSE @]]
          /\ event' = Nothing
          /\ UNCHANGED <<reassemblyBytes, gcTimer, converting, closed>>
      BY <2>7 DEF Tick
    <3>2. ASSUME NEW k \in DOMAIN slots
          PROVE PartialSlot(slots'[k]) /\ slots'[k].receivedFrames # slots'[k].total
      <4>1. slots[k] \in Slot /\ PartialSlot(slots[k]) /\ slots[k].receivedFrames # slots[k].total
        BY <2>0 DEF AllPartial, PartialSlot
      <4>2. slots'[k] = [slots[k] EXCEPT !.age = IF slots[k].age < Timeout
                                                 THEN slots[k].age + 1 ELSE slots[k].age]
        BY <3>1
      <4>3. (IF slots[k].age < Timeout THEN slots[k].age + 1 ELSE slots[k].age) \in 0..Timeout
        BY <4>1, NumbersAssumption DEF Slot
      <4>4. /\ slots'[k] \in Slot
            /\ slots'[k].frames = slots[k].frames
            /\ slots'[k].total = slots[k].total
            /\ slots'[k].receivedFrames = slots[k].receivedFrames
            /\ slots'[k].bytes = slots[k].bytes
        BY <4>1, <4>2, <4>3 DEF Slot
      <4> QED
        BY <4>1, <4>4 DEF PartialSlot, Tallied
    <3>3. AllPartial(slots') /\ DOMAIN slots' = DOMAIN slots
      BY <3>1, <3>2 DEF AllPartial
    <3> QED
      BY <2>0, <2>2, <3>1, <3>3 DEF IInv, TypeOK, TimerIffSlots, HolesAreStrays, Nothing
  <2>8. CASE Close
    <3>1. /\ slots' = [k \in {} |-> {}] /\ gcTimer' = FALSE /\ event' = Nothing
          /\ closed' = TRUE /\ converting' = converting
      BY <2>8 DEF Close
    <3>2. DOMAIN slots' = {}
      BY <3>1
    <3> QED
      BY <2>0, <3>1, <3>2 DEF IInv, TypeOK, TimerIffSlots, AllPartial, HolesAreStrays, Nothing
  <2>9. CASE UNCHANGED vars
    BY <2>9 DEF vars, IInv, TypeOK, TimerIffSlots, AllPartial, HolesAreStrays
  <2> QED
    BY <2>3, <2>4, <2>5, <2>6, <2>7, <2>8, <2>9 DEF Next
<1> QED
  BY <1>1, <1>2, PTL DEF Spec

(* The interval timer of the reassembly buffer (startReassemblyGcIfNeeded,
   maybeStopReassemblyGc) runs exactly while the buffer holds something. *)
THEOREM TimerFollowsSlots == Spec => []TimerIffSlots
<1>1. IInv => TimerIffSlots
  BY DEF IInv
<1> QED
  BY <1>1, InvariantHolds, PTL

(* Every variable keeps its type. *)
THEOREM TypesHold == Spec => []TypeOK
<1>1. IInv => TypeOK
  BY DEF IInv
<1> QED
  BY <1>1, InvariantHolds, PTL

(* The copying loop of handleChunk skips a number of 0..total-1 only in place of a
   chunk whose number is no integer: what repeats, does not match, is evicted or comes
   late never makes a hole in an emitted message. *)
THEOREM HolesComeFromFractions == Spec => []HolesAreStrays
<1>1. IInv => HolesAreStrays
  BY DEF IInv
<1> QED
  BY <1>1, InvariantHolds, PTL

(* What stays buffered is partial, within its declared total and under the cap
   of a message: a complete message never lingers in the buffer. *)
THEOREM BufferedMessagesArePartial == Spec => []SlotsArePartial
<1>1. ASSUME IInv PROVE SlotsArePartial
  <2>1. ASSUME NEW k \in DOMAIN slots
        PROVE  /\ DOMAIN slots[k].frames # {}
               /\ \A seq \in DOMAIN slots[k].frames : Below(seq, slots[k].total)
               /\ Cardinality(DOMAIN slots[k].frames) < slots[k].total
               /\ slots[k].bytes <= MessageCap
    <3>1. PartialSlot(slots[k]) /\ slots[k].receivedFrames # slots[k].total
      BY <1>1 DEF IInv, AllPartial
    <3>2. slots[k].total \in Nat /\ slots[k].receivedFrames \in Nat
      BY <3>1, NumbersAssumption DEF PartialSlot, Slot
    <3> QED
      BY <3>1, <3>2 DEF PartialSlot, Tallied
  <2> QED
    BY <2>1 DEF SlotsArePartial
<1> QED
  BY <1>1, InvariantHolds, PTL

-----------------------------------------------------------------------------
(* Sums over finite sets. A non-empty set of subsets of a finite set has a minimal
   member: a fact about every sum is proved by looking at a smallest set for which
   it fails. *)
LEMMA MinimalSubset ==
    ASSUME NEW S, IsFiniteSet(S), NEW B \in SUBSET (SUBSET S), B # {}
    PROVE  \E T \in B : \A U \in SUBSET T : U # T => U \notin B
<1>1. IsWellFoundedOn(StrictSubsetOrdering(S), SUBSET S)
  BY FS_StrictSubsetOrderingWellFounded, FS_FiniteSubsetsOfFinite
<1>2. PICK T \in B : \A U \in B : ~ (<<U, T>> \in StrictSubsetOrdering(S))
  BY <1>1, WFMin
<1>3. ASSUME NEW U \in SUBSET T, U # T, U \in B PROVE FALSE
  <2>1. <<U, T>> \in StrictSubsetOrdering(S)
    BY <1>3 DEF StrictSubsetOrdering
  <2> QED
    BY <1>2, <1>3, <2>1
<1> QED
  BY <1>3

(* Sum expands to a function that is chosen by its recursive equation, taking the
   members of a set away in an order that CHOOSE fixes. *)
First(s) == CHOOSE x \in s : TRUE
Adds(h, g, S) ==
    h = [s \in SUBSET S |-> IF s = {} THEN 0 ELSE g[First(s)] + h[s \ {First(s)}]]
Adder(g, S) == CHOOSE h : Adds(h, g, S)

LEMMA SumIs == ASSUME NEW g, NEW S PROVE Sum(g, S) = Adder(g, S)[S]
BY DEF Sum, SumFunctionOnSet, FoldFunctionOnSet, MapThenFoldSet, Adder, Adds, First

LEMMA AddsAt ==
    ASSUME NEW h, NEW g, NEW S, Adds(h, g, S), NEW s \in SUBSET S
    PROVE  h[s] = IF s = {} THEN 0 ELSE g[First(s)] + h[s \ {First(s)}]
BY Zenon DEF Adds

LEMMA AddsAgree ==
    ASSUME NEW g, NEW S, IsFiniteSet(S), NEW T \in SUBSET S,
           NEW h, Adds(h, g, S), NEW k, Adds(k, g, T)
    PROVE  \A s \in SUBSET T : h[s] = k[s]
<1> DEFINE Wrong == {s \in SUBSET T : h[s] # k[s]}
<1> SUFFICES ASSUME Wrong # {} PROVE FALSE
  OBVIOUS
<1>1. IsFiniteSet(T) /\ Wrong \in SUBSET (SUBSET T)
  BY FS_Subset
<1> HIDE DEF Wrong
<1>2. PICK s \in Wrong : \A u \in SUBSET s : u # s => u \notin Wrong
  BY <1>1, MinimalSubset
<1> USE DEF Wrong
<1>3. s \in SUBSET S /\ h[s] = (IF s = {} THEN 0 ELSE g[First(s)] + h[s \ {First(s)}])
      /\ k[s] = (IF s = {} THEN 0 ELSE g[First(s)] + k[s \ {First(s)}])
  BY AddsAt
<1>4. s # {} /\ First(s) \in s
  BY <1>2, <1>3 DEF First
<1>5. h[s \ {First(s)}] = k[s \ {First(s)}]
  BY <1>2, <1>4
<1> QED
  BY <1>2, <1>3, <1>5

LEMMA AdderExists ==
    ASSUME NEW g, NEW S, IsFiniteSet(S)
    PROVE  Adds(Adder(g, S), g, S)
<1> DEFINE Lacks == {s \in SUBSET S : ~ Adds(Adder(g, s), g, s)}
<1> SUFFICES ASSUME Lacks # {} PROVE FALSE
  OBVIOUS
<1>0. Lacks \in SUBSET (SUBSET S)
  OBVIOUS
<1> HIDE DEF Lacks
<1>1. PICK s \in Lacks : \A u \in SUBSET s : u # s => u \notin Lacks
  BY <1>0, MinimalSubset
<1> USE DEF Lacks
<1> DEFINE h == [u \in SUBSET s |-> IF u = s THEN (IF s = {} THEN 0 ELSE g[First(s)] + Adder(g, s \ {First(s)})[s \ {First(s)}])
                                    ELSE Adder(g, u)[u]]
<1>2. ASSUME NEW u \in SUBSET s, u # {}
      PROVE  h[u] = g[First(u)] + h[u \ {First(u)}]
  <2>1. First(u) \in u /\ u \ {First(u)} \in SUBSET u /\ u \ {First(u)} # u /\ u \ {First(u)} # s
    BY <1>2 DEF First
  <2>2. h[u \ {First(u)}] = Adder(g, u \ {First(u)})[u \ {First(u)}]
    BY <2>1
  <2>3. CASE u = s
    BY <1>2, <2>2, <2>3
  <2>4. CASE u # s
    <3>1. IsFiniteSet(u) /\ u \in SUBSET S
      BY <1>1, FS_Subset
    <3>2. Adds(Adder(g, u), g, u) /\ Adds(Adder(g, u \ {First(u)}), g, u \ {First(u)})
      BY <1>1, <2>1, <2>4, <3>1
    <3>3. Adder(g, u)[u] = g[First(u)] + Adder(g, u)[u \ {First(u)}]
      BY <1>2, <3>2, AddsAt
    <3>4. Adder(g, u)[u \ {First(u)}] = Adder(g, u \ {First(u)})[u \ {First(u)}]
      BY <2>1, <3>1, <3>2, AddsAgree
    <3> QED
      BY <2>2, <2>4, <3>3, <3>4
  <2> QED
    BY <2>3, <2>4
<1>3. h[{}] = 0
  <2>1. CASE s = {}
    BY <2>1
  <2>2. CASE s # {}
    <3>1. Adds(Adder(g, {}), g, {})
      BY <1>1, <2>2
    <3> QED
      BY <2>2, <3>1, AddsAt
  <2> QED
    BY <2>1, <2>2
<1>4. h = [u \in SUBSET s |-> h[u]]
  OBVIOUS
<1> HIDE DEF h
<1>5. Adds(h, g, s)
  BY <1>2, <1>3, <1>4 DEF Adds
<1>6. \E a : Adds(a, g, s)
  BY <1>5
<1>7. Adds(Adder(g, s), g, s)
  BY <1>6 DEF Adder
<1> QED
  BY <1>1, <1>7

LEMMA SumStep ==
    ASSUME NEW g, NEW S, IsFiniteSet(S), S # {}
    PROVE  First(S) \in S /\ Sum(g, S) = g[First(S)] + Sum(g, S \ {First(S)})
<1>1. First(S) \in S
  BY DEF First
<1>2. IsFiniteSet(S \ {First(S)}) /\ S \ {First(S)} \in SUBSET S
  BY FS_Subset
<1>3. Adder(g, S)[S] = g[First(S)] + Adder(g, S)[S \ {First(S)}]
  BY AdderExists, AddsAt
<1>4. Adder(g, S)[S \ {First(S)}] = Adder(g, S \ {First(S)})[S \ {First(S)}]
  <2> DEFINE T == S \ {First(S)}
             h == Adder(g, S)
             k == Adder(g, T)
  <2>1. Adds(h, g, S) /\ Adds(k, g, T) /\ T \in SUBSET S /\ T \in SUBSET T
    BY <1>2, AdderExists
  <2> HIDE DEF T, h, k
  <2>2. h[T] = k[T]
    BY <2>1, AddsAgree
  <2> QED
    BY <2>2 DEF T, h, k
<1> QED
  BY <1>1, <1>3, <1>4, SumIs

LEMMA SumEmpty == ASSUME NEW g PROVE Sum(g, {}) = 0
<1>1. IsFiniteSet({})
  BY FS_EmptySet
<1> QED
  BY <1>1, AdderExists, AddsAt, SumIs

LEMMA SumInt ==
    ASSUME NEW g, NEW S, IsFiniteSet(S), \A x \in S : g[x] \in Nat
    PROVE  Sum(g, S) \in Nat
<1> DEFINE Wrong == {s \in SUBSET S : Sum(g, s) \notin Nat}
<1> SUFFICES ASSUME Wrong # {} PROVE FALSE
  <2>1. S \notin Wrong => Sum(g, S) \in Nat
    OBVIOUS
  <2> QED
    BY <2>1
<1>0. Wrong \in SUBSET (SUBSET S)
  OBVIOUS
<1> HIDE DEF Wrong
<1>1. PICK s \in Wrong : \A u \in SUBSET s : u # s => u \notin Wrong
  BY <1>0, MinimalSubset
<1> USE DEF Wrong
<1>2. IsFiniteSet(s) /\ s # {}
  <2>1. IsFiniteSet(s)
    BY <1>1, FS_Subset
  <2>2. Sum(g, {}) \in Nat
    BY SumEmpty
  <2> QED
    BY <1>1, <2>1, <2>2
<1>3. First(s) \in s /\ Sum(g, s) = g[First(s)] + Sum(g, s \ {First(s)})
  BY <1>2, SumStep
<1>4. Sum(g, s \ {First(s)}) \in Nat
  BY <1>1, <1>3
<1> QED
  BY <1>1, <1>3, <1>4

LEMMA SumAdd ==
    ASSUME NEW g, NEW S, IsFiniteSet(S), \A x \in S : g[x] \in Nat, NEW y \in S
    PROVE  Sum(g, S) = g[y] + Sum(g, S \ {y})
<1> DEFINE Wrong == {s \in SUBSET S : \E x \in s : Sum(g, s) # g[x] + Sum(g, s \ {x})}
<1> SUFFICES ASSUME Wrong # {} PROVE FALSE
  <2>1. S \notin Wrong => Sum(g, S) = g[y] + Sum(g, S \ {y})
    OBVIOUS
  <2> QED
    BY <2>1
<1>0. Wrong \in SUBSET (SUBSET S)
  OBVIOUS
<1> HIDE DEF Wrong
<1>1. PICK s \in Wrong : \A u \in SUBSET s : u # s => u \notin Wrong
  BY <1>0, MinimalSubset
<1> USE DEF Wrong
<1>2. PICK x \in s : Sum(g, s) # g[x] + Sum(g, s \ {x})
  OBVIOUS
<1>3. s \in SUBSET S /\ IsFiniteSet(s)
  BY <1>1, FS_Subset
<1> DEFINE f == First(s)
<1>4. f \in s /\ Sum(g, s) = g[f] + Sum(g, s \ {f})
  BY <1>2, <1>3, SumStep
<1>5. f # x
  BY <1>2, <1>4
<1> HIDE DEF f
<1>6. Sum(g, s \ {f}) = g[x] + Sum(g, (s \ {f}) \ {x})
  <2>1. s \ {f} \in SUBSET s /\ s \ {f} # s /\ x \in s \ {f} /\ s \ {f} \in SUBSET S
    BY <1>2, <1>4, <1>5
  <2> QED
    BY <1>1, <2>1
<1>7. Sum(g, s \ {x}) = g[f] + Sum(g, (s \ {x}) \ {f})
  <2>1. s \ {x} \in SUBSET s /\ s \ {x} # s /\ f \in s \ {x} /\ s \ {x} \in SUBSET S
    BY <1>2, <1>4, <1>5
  <2> QED
    BY <1>1, <2>1
<1>8. (s \ {x}) \ {f} = (s \ {f}) \ {x}
  OBVIOUS
<1>9. Sum(g, (s \ {f}) \ {x}) \in Nat /\ g[x] \in Nat /\ g[f] \in Nat
  <2>1. (s \ {f}) \ {x} \in SUBSET S
    BY <1>3
  <2>2. IsFiniteSet((s \ {f}) \ {x})
    BY <2>1, FS_Subset
  <2> QED
    BY <1>3, <1>4, <2>1, <2>2, SumInt
<1> QED
  BY <1>2, <1>4, <1>6, <1>7, <1>8, <1>9

(* A sum depends on the values in the set only. *)
LEMMA SumSame ==
    ASSUME NEW g, NEW h, NEW S, IsFiniteSet(S), \A x \in S : g[x] = h[x]
    PROVE  Sum(g, S) = Sum(h, S)
<1> DEFINE Wrong == {s \in SUBSET S : Sum(g, s) # Sum(h, s)}
<1> SUFFICES ASSUME Wrong # {} PROVE FALSE
  <2>1. S \notin Wrong => Sum(g, S) = Sum(h, S)
    OBVIOUS
  <2> QED
    BY <2>1
<1>0. Wrong \in SUBSET (SUBSET S)
  OBVIOUS
<1> HIDE DEF Wrong
<1>1. PICK s \in Wrong : \A u \in SUBSET s : u # s => u \notin Wrong
  BY <1>0, MinimalSubset
<1> USE DEF Wrong
<1>2. IsFiniteSet(s) /\ s # {}
  <2>1. IsFiniteSet(s)
    BY <1>1, FS_Subset
  <2>2. Sum(g, {}) = Sum(h, {})
    BY SumEmpty
  <2> QED
    BY <1>1, <2>1, <2>2
<1>3. First(s) \in s /\ Sum(g, s) = g[First(s)] + Sum(g, s \ {First(s)})
      /\ Sum(h, s) = h[First(s)] + Sum(h, s \ {First(s)})
  BY <1>2, SumStep
<1>4. Sum(g, s \ {First(s)}) = Sum(h, s \ {First(s)})
  BY <1>1, <1>3
<1> QED
  BY <1>1, <1>3, <1>4

LEMMA SumSplit ==
    ASSUME NEW g, NEW S, IsFiniteSet(S), \A x \in S : g[x] \in Nat, NEW T \in SUBSET S
    PROVE  Sum(g, S) = Sum(g, T) + Sum(g, S \ T)
<1> DEFINE Wrong == {t \in SUBSET S : Sum(g, S) # Sum(g, t) + Sum(g, S \ t)}
<1> SUFFICES ASSUME Wrong # {} PROVE FALSE
  <2>1. T \notin Wrong => Sum(g, S) = Sum(g, T) + Sum(g, S \ T)
    OBVIOUS
  <2> QED
    BY <2>1
<1>0. Wrong \in SUBSET (SUBSET S)
  OBVIOUS
<1> HIDE DEF Wrong
<1>1. PICK t \in Wrong : \A u \in SUBSET t : u # t => u \notin Wrong
  BY <1>0, MinimalSubset
<1> USE DEF Wrong
<1>2. \A u \in SUBSET S : IsFiniteSet(u) /\ Sum(g, u) \in Nat /\ \A x \in u : g[x] \in Nat
  BY FS_Subset, SumInt
<1>3. PICK y \in t : TRUE
  <2>1. S \ {} = S /\ Sum(g, {}) = 0 /\ Sum(g, S) \in Nat
    BY <1>2, SumEmpty
  <2>2. Sum(g, S) = Sum(g, {}) + Sum(g, S \ {})
    BY <2>1
  <2>3. t # {}
    BY <1>1, <2>2
  <2> QED
    BY <2>3
<1>4. Sum(g, t) = g[y] + Sum(g, t \ {y})
  BY <1>2, SumAdd
<1>5. Sum(g, S \ (t \ {y})) = g[y] + Sum(g, S \ t)
  <2>1. S \ (t \ {y}) \in SUBSET S /\ y \in S \ (t \ {y}) /\ (S \ (t \ {y})) \ {y} = S \ t
    OBVIOUS
  <2> QED
    BY <1>2, <2>1, SumAdd
<1>6. Sum(g, S) = Sum(g, t \ {y}) + Sum(g, S \ (t \ {y}))
  BY <1>1
<1>7. Sum(g, t \ {y}) \in Nat /\ Sum(g, S \ t) \in Nat /\ Sum(g, t) \in Nat /\ g[y] \in Nat
  <2>1. t \ {y} \in SUBSET S /\ S \ t \in SUBSET S /\ t \in SUBSET S
    OBVIOUS
  <2> QED
    BY <1>2, <2>1
<1>8. Sum(g, S) # Sum(g, t) + Sum(g, S \ t)
  BY <1>1
<1> QED
  BY <1>4, <1>5, <1>6, <1>7, <1>8

-----------------------------------------------------------------------------
(* The byte counts of the buffered messages. *)
BytesOf(m) == [k \in DOMAIN m |-> m[k].bytes]

SlotCounted(s) == s.bytes = Sum(s.frames, DOMAIN s.frames)
AllCounted(m) == \A k \in DOMAIN m : SlotCounted(m[k])

(* The slots that one comes after are in the buffer, it is not one of them, and it
   comes after everything that they come after. *)
Ordered(m) ==
    \A k \in DOMAIN m :
        /\ m[k].older \subseteq DOMAIN m \ {k}
        /\ \A o \in m[k].older : m[o].older \subseteq m[k].older

(* What a buffer and the running total beside it must satisfy. *)
Counted(m, total) ==
    /\ AllCounted(m)
    /\ Ordered(m)
    /\ total = Sum(BytesOf(m), DOMAIN m)
    /\ total <= Budget

(* The inductive invariant of the byte counts. WithinBudget needs the order of the
   slots: eviction is cut off by age, and only because age is transitive does it
   drop enough; and it needs the counts to agree, since what eviction subtracts are
   the slots' own counts. *)
CInv == IInv /\ Counted(slots, reassemblyBytes)

(* A slot's counts are numbers, and its chunks a finite set. *)
LEMMA SlotNumbers ==
    ASSUME NEW s \in Slot
    PROVE  /\ s.bytes \in Nat /\ s.receivedFrames \in Nat
           /\ IsFiniteSet(DOMAIN s.frames)
           /\ \A i \in DOMAIN s.frames : s.frames[i] \in Nat
<1>1. s.frames \in ChunkMap /\ s.bytes \in Nat /\ s.receivedFrames \in Nat
  BY DEF Slot
<1>2. PICK S \in SUBSET (0..(MaxTotal - 1) \cup Fractions) : s.frames \in [S -> Sizes]
  BY <1>1 DEF ChunkMap
<1>3. IsFiniteSet(0..(MaxTotal - 1) \cup Fractions)
  <2>1. 0 \in Int /\ MaxTotal - 1 \in Int
    BY NumbersAssumption
  <2>2. IsFiniteSet(0..(MaxTotal - 1))
    BY <2>1, FS_Interval
  <2> QED
    BY <2>2, FractionsAssumption, FS_Union
<1>4. IsFiniteSet(S)
  BY <1>2, <1>3, FS_Subset
<1>5. \A i \in S : s.frames[i] \in Nat
  BY <1>2, NumbersAssumption
<1> QED
  BY <1>1, <1>2, <1>4, <1>5

(* The buffer is finite and its byte counts are numbers. *)
LEMMA BufferNumbers ==
    ASSUME NEW m, DOMAIN m \subseteq Keys, \A k \in DOMAIN m : m[k] \in Slot,
           NEW ks \in SUBSET DOMAIN m
    PROVE  /\ IsFiniteSet(DOMAIN m) /\ IsFiniteSet(ks)
           /\ DOMAIN BytesOf(m) = DOMAIN m
           /\ \A k \in DOMAIN m : BytesOf(m)[k] = m[k].bytes /\ BytesOf(m)[k] \in Nat
           /\ Sum(BytesOf(m), ks) \in Nat
<1>1. IsFiniteSet(DOMAIN m) /\ IsFiniteSet(ks)
  BY KeysAssumption, FS_Subset
<1>2. \A k \in DOMAIN m : BytesOf(m)[k] = m[k].bytes /\ BytesOf(m)[k] \in Nat
  BY SlotNumbers DEF BytesOf
<1>3. Sum(BytesOf(m), ks) \in Nat
  BY <1>1, <1>2, SumInt
<1> QED
  BY <1>1, <1>2, <1>3 DEF BytesOf

(* Deleting slots takes their bytes from the total and leaves the rest counted and
   in order. *)
LEMMA WithoutCounted ==
    ASSUME NEW m, DOMAIN m \subseteq Keys, \A k \in DOMAIN m : m[k] \in Slot,
           AllCounted(m), Ordered(m), NEW ks
    PROVE  LET w == Without(m, ks)
           IN  /\ AllCounted(w) /\ Ordered(w)
               /\ Sum(BytesOf(w), DOMAIN w)
                    = Sum(BytesOf(m), DOMAIN m) - Sum(BytesOf(m), DOMAIN m \cap ks)
<1> DEFINE w == Without(m, ks)
<1>1. DOMAIN w = DOMAIN m \ ks
  BY DEF Without
<1>2. ASSUME NEW k \in DOMAIN w
      PROVE  /\ k \in DOMAIN m /\ w[k].bytes = m[k].bytes /\ w[k].frames = m[k].frames
             /\ w[k].older = m[k].older \ ks
  <2>1. w[k] = [m[k] EXCEPT !.older = @ \ ks] /\ k \in DOMAIN m
    BY <1>1 DEF Without
  <2>2. m[k] \in Slot
    BY <2>1
  <2> HIDE DEF w
  <2> QED
    BY <2>1, <2>2 DEF Slot
<1> HIDE DEF w
<1>3. AllCounted(w)
  BY <1>2 DEF AllCounted, SlotCounted
<1>4. Ordered(w)
  <2>1. ASSUME NEW k \in DOMAIN w
        PROVE  /\ w[k].older \subseteq DOMAIN w \ {k}
               /\ \A o \in w[k].older : w[o].older \subseteq w[k].older
    <3>1. /\ m[k].older \subseteq DOMAIN m \ {k}
          /\ \A o \in m[k].older : m[o].older \subseteq m[k].older
      BY <1>2, <2>1 DEF Ordered
    <3>2. w[k].older \subseteq DOMAIN w \ {k}
      BY <1>1, <1>2, <3>1
    <3>3. ASSUME NEW o \in w[k].older PROVE w[o].older \subseteq w[k].older
      <4>1. o \in DOMAIN w /\ o \in m[k].older
        BY <1>2, <3>2
      <4>2. w[o].older = m[o].older \ ks /\ w[k].older = m[k].older \ ks
        BY <1>2, <4>1
      <4> QED
        BY <3>1, <4>1, <4>2
    <3> QED
      BY <3>2, <3>3
  <2> QED
    BY <2>1 DEF Ordered
<1>5. Sum(BytesOf(w), DOMAIN w) = Sum(BytesOf(m), DOMAIN w)
  <2>1. IsFiniteSet(DOMAIN w)
    <3>1. DOMAIN w \in SUBSET DOMAIN m
      BY <1>1
    <3> QED
      BY <3>1, BufferNumbers
  <2>2. \A k \in DOMAIN w : BytesOf(w)[k] = BytesOf(m)[k]
    BY <1>2 DEF BytesOf
  <2> QED
    BY <2>1, <2>2, SumSame
<1>6. Sum(BytesOf(m), DOMAIN m)
        = Sum(BytesOf(m), DOMAIN m \cap ks) + Sum(BytesOf(m), DOMAIN w)
  <2>1. DOMAIN m \cap ks \in SUBSET DOMAIN m /\ DOMAIN m \ (DOMAIN m \cap ks) = DOMAIN w
    BY <1>1
  <2>2. IsFiniteSet(DOMAIN m) /\ \A k \in DOMAIN m : BytesOf(m)[k] \in Nat
    BY <2>1, BufferNumbers
  <2> QED
    BY <2>1, <2>2, SumSplit
<1>7. /\ Sum(BytesOf(m), DOMAIN m) \in Nat
      /\ Sum(BytesOf(m), DOMAIN m \cap ks) \in Nat
      /\ Sum(BytesOf(m), DOMAIN w) \in Nat
  <2>1. DOMAIN m \in SUBSET DOMAIN m /\ DOMAIN m \cap ks \in SUBSET DOMAIN m
        /\ DOMAIN w \in SUBSET DOMAIN m
    BY <1>1
  <2> QED
    BY <2>1, BufferNumbers
<1>8. Sum(BytesOf(w), DOMAIN w)
        = Sum(BytesOf(m), DOMAIN m) - Sum(BytesOf(m), DOMAIN m \cap ks)
  BY <1>5, <1>6, <1>7
<1> QED
  BY <1>3, <1>4, <1>8 DEF w

(* Eviction drops enough: whatever the protected message leaves of the budget, the
   kept messages fit, because the protected one alone would. *)
LEMMA EvictionIsEnough ==
    ASSUME NEW m, DOMAIN m \subseteq Keys, \A k \in DOMAIN m : m[k] \in Slot,
           Ordered(m), NEW p \in DOMAIN m, m[p].bytes <= MessageCap,
           NEW total, total = Sum(BytesOf(m), DOMAIN m)
    PROVE  total - Sum(BytesOf(m), Evicted(m, total, p)) <= Budget
<1> DEFINE gone == Evicted(m, total, p)
           b == BytesOf(m)
           kept == (DOMAIN m \ {p}) \ gone
<1>1. gone = {k \in DOMAIN m \ {p} : total - Sum(b, m[k].older \ {p}) > Budget}
  BY DEF Evicted, BytesOf
<1>2. /\ IsFiniteSet(DOMAIN m)
      /\ \A k \in DOMAIN m : b[k] = m[k].bytes /\ b[k] \in Nat
      /\ \A ks \in SUBSET DOMAIN m : IsFiniteSet(ks) /\ Sum(b, ks) \in Nat
  BY BufferNumbers
<1>3. total \in Nat /\ Budget \in Nat /\ MessageCap \in Nat /\ MessageCap <= Budget
  BY <1>2, NumbersAssumption
<1>4. \A k \in DOMAIN m : /\ m[k].older \subseteq DOMAIN m \ {k}
                          /\ \A o \in m[k].older : m[o].older \subseteq m[k].older
  BY DEF Ordered
<1>5. gone \in SUBSET (DOMAIN m \ {p})
  BY <1>1
<1> HIDE DEF gone, b
<1>6. CASE kept = {}
  <2>1. gone = DOMAIN m \ {p}
    BY <1>5, <1>6
  <2>2. total = b[p] + Sum(b, DOMAIN m \ {p})
    BY <1>2, SumAdd DEF b
  <2>3. b[p] \in Nat /\ b[p] <= MessageCap /\ Sum(b, DOMAIN m \ {p}) \in Nat
    BY <1>2
  <2>4. total - Sum(b, gone) <= Budget
    BY <1>3, <2>1, <2>2, <2>3
  <2> QED
    BY <2>4 DEF gone, b
<1>7. CASE kept # {}
  <2> DEFINE olders == {m[k].older : k \in kept}
  <2>1. olders \in SUBSET (SUBSET DOMAIN m) /\ olders # {}
    BY <1>4, <1>7
  <2> HIDE DEF olders
  <2>2. PICK T \in olders : \A U \in SUBSET T : U # T => U \notin olders
    BY <1>2, <2>1, MinimalSubset
  <2>3. PICK k \in kept : T = m[k].older
    BY DEF olders
  <2>4. m[k].older \ {p} \subseteq gone
    <3>1. ASSUME NEW o \in m[k].older \ {p}, o \notin gone PROVE FALSE
      <4>1. o \in kept /\ k \in DOMAIN m /\ o \in DOMAIN m
        BY <1>4, <2>3, <3>1
      <4>2. m[o].older \subseteq m[k].older /\ o \notin m[o].older
        BY <1>4, <4>1
      <4>3. m[o].older \in olders
        BY <4>1 DEF olders
      <4> QED
        BY <2>2, <2>3, <4>2, <4>3
    <3> QED
      BY <3>1
  <2>5. total - Sum(b, m[k].older \ {p}) <= Budget
    <3>1. k \in DOMAIN m \ {p} /\ k \notin gone
      BY <2>3
    <3>2. ~ (total - Sum(b, m[k].older \ {p}) > Budget)
      BY <1>1, <3>1
    <3>3. Sum(b, m[k].older \ {p}) \in Nat
      BY <1>2, <1>4, <3>1
    <3> QED
      BY <1>3, <3>2, <3>3
  <2>6. Sum(b, gone) = Sum(b, m[k].older \ {p}) + Sum(b, gone \ (m[k].older \ {p}))
    <3>1. IsFiniteSet(gone) /\ \A x \in gone : b[x] \in Nat
      BY <1>2, <1>5
    <3> QED
      BY <2>4, <3>1, SumSplit
  <2>7. Sum(b, gone) \in Nat /\ Sum(b, m[k].older \ {p}) \in Nat
        /\ Sum(b, gone \ (m[k].older \ {p})) \in Nat
    <3>1. gone \in SUBSET DOMAIN m /\ m[k].older \ {p} \in SUBSET DOMAIN m
          /\ gone \ (m[k].older \ {p}) \in SUBSET DOMAIN m
      BY <1>5, <2>4
    <3> QED
      BY <1>2, <3>1
  <2>8. total - Sum(b, gone) <= Budget
    BY <1>3, <2>5, <2>6, <2>7
  <2> QED
    BY <2>8 DEF gone, b
<1> QED
  BY <1>6, <1>7

(* Recording a new chunk adds its bytes to its slot, and a chunk to its count. *)
LEMMA RecordedCounted ==
    ASSUME IInv, AllCounted(slots), NEW f \in Frame, NewChunk(f)
    PROVE  LET s == Recorded(f)
           IN  /\ SlotCounted(s) /\ s \in Slot /\ f.size \in Nat
               /\ IF f.key \in DOMAIN slots
                  THEN /\ s.bytes = slots[f.key].bytes + f.size
                       /\ s.receivedFrames = slots[f.key].receivedFrames + 1
                       /\ s.older = slots[f.key].older
                  ELSE s.bytes = f.size /\ s.older = DOMAIN slots
<1> DEFINE old == SlotFor(f)
           new == Recorded(f)
           D == DOMAIN old.frames
           fr == [i \in D \cup {f.seq} |-> IF i = f.seq THEN f.size ELSE old.frames[i]]
<1>1. new = [old EXCEPT !.frames = fr, !.receivedFrames = @ + 1, !.bytes = @ + f.size]
  BY DEF Recorded
<1>2. f.size \in Nat /\ new \in Slot
  <2>1. f.size \in Nat
    BY NumbersAssumption DEF Frame
  <2> QED
    BY <2>1, RecordedSlot
<1>3. CASE f.key \in DOMAIN slots
  <2>1. old = slots[f.key] /\ old \in Slot /\ SlotCounted(old) /\ f.seq \notin D
    BY <1>3 DEF SlotFor, IInv, TypeOK, AllCounted, NewChunk, Duplicate
  <2>2. /\ old.bytes \in Nat /\ IsFiniteSet(D)
        /\ \A i \in D : old.frames[i] \in Nat
    BY <2>1, SlotNumbers
  <2> HIDE DEF old, new
  <2>3. /\ new.bytes = old.bytes + f.size /\ new.frames = fr
        /\ new.receivedFrames = old.receivedFrames + 1 /\ new.older = old.older
    BY <1>1, <2>1 DEF Slot
  <2>4. Sum(fr, D \cup {f.seq}) = fr[f.seq] + Sum(fr, (D \cup {f.seq}) \ {f.seq})
    <3>1. IsFiniteSet(D \cup {f.seq})
      BY <2>2, FS_AddElement
    <3>2. \A i \in D \cup {f.seq} : fr[i] \in Nat
      BY <1>2, <2>2
    <3> HIDE DEF fr
    <3> QED
      BY <3>1, <3>2, SumAdd
  <2>5. (D \cup {f.seq}) \ {f.seq} = D /\ fr[f.seq] = f.size
    BY <2>1
  <2>6. Sum(fr, D) = Sum(old.frames, D)
    <3>1. \A i \in D : fr[i] = old.frames[i]
      BY <2>1
    <3> HIDE DEF fr, D
    <3> QED
      BY <2>2, <3>1, SumSame
  <2>7. old.bytes = Sum(old.frames, D)
    BY <2>1 DEF SlotCounted
  <2>8. DOMAIN fr = D \cup {f.seq}
    OBVIOUS
  <2>9. new.bytes = Sum(fr, DOMAIN fr)
    <3> HIDE DEF fr, D
    <3> QED
      BY <1>2, <2>2, <2>3, <2>4, <2>5, <2>6, <2>7, <2>8
  <2>10. SlotCounted(new)
    BY <2>3, <2>9 DEF SlotCounted
  <2> QED
    BY <1>2, <1>3, <2>1, <2>3, <2>10 DEF new
<1>4. CASE f.key \notin DOMAIN slots
  <2>1. old = [mime |-> f.mime, total |-> f.total, frames |-> [i \in {} |-> 0],
               receivedFrames |-> 0, bytes |-> 0, age |-> 0, older |-> DOMAIN slots]
    BY <1>4 DEF SlotFor
  <2>2. D = {} /\ old.bytes = 0 /\ old.older = DOMAIN slots
    BY <2>1
  <2>3. new.bytes = 0 + f.size /\ new.frames = fr /\ new.older = DOMAIN slots
    <3> HIDE DEF fr
    <3> QED
      BY <1>1, <2>1
  <2>4. DOMAIN fr = {f.seq} /\ fr[f.seq] = f.size
    BY <2>2
  <2> HIDE DEF fr, new, old
  <2>5. Sum(fr, {f.seq}) = fr[f.seq] + Sum(fr, {f.seq} \ {f.seq})
    <3>1. IsFiniteSet({f.seq})
      BY FS_Singleton
    <3>2. \A i \in {f.seq} : fr[i] \in Nat
      BY <1>2, <2>4
    <3> QED
      BY <3>1, <3>2, SumAdd
  <2>6. Sum(fr, {f.seq} \ {f.seq}) = 0
    <3>1. {f.seq} \ {f.seq} = {}
      OBVIOUS
    <3> QED
      BY <3>1, SumEmpty
  <2>7. new.bytes = Sum(fr, {f.seq}) /\ new.bytes = f.size
    BY <1>2, <2>3, <2>4, <2>5, <2>6
  <2>8. SlotCounted(new)
    BY <2>3, <2>4, <2>7 DEF SlotCounted
  <2> QED
    BY <1>2, <1>4, <2>3, <2>7, <2>8 DEF new
<1> QED
  BY <1>3, <1>4

(* With the chunk recorded, the buffer's bytes are the total that handleChunk has
   just raised. *)
LEMMA WithSlotCounted ==
    ASSUME IInv, Counted(slots, reassemblyBytes), NEW f \in Frame, NewChunk(f)
    PROVE  LET m == WithSlot(f.key, Recorded(f))
           IN  /\ DOMAIN m = DOMAIN slots \cup {f.key} /\ DOMAIN m \subseteq Keys
               /\ m[f.key] = Recorded(f)
               /\ \A k \in DOMAIN slots \ {f.key} : m[k] = slots[k]
               /\ \A k \in DOMAIN m : m[k] \in Slot
               /\ AllCounted(m) /\ Ordered(m)
               /\ reassemblyBytes + f.size = Sum(BytesOf(m), DOMAIN m)
<1> DEFINE s == Recorded(f)
           m == WithSlot(f.key, s)
           rest == DOMAIN slots \ {f.key}
<1>1. /\ SlotCounted(s) /\ s \in Slot /\ f.size \in Nat
      /\ f.key \in DOMAIN slots => s.bytes = slots[f.key].bytes + f.size
                                   /\ s.older = slots[f.key].older
      /\ f.key \notin DOMAIN slots => s.bytes = f.size /\ s.older = DOMAIN slots
  BY RecordedCounted DEF Counted
<1> HIDE DEF s
<1>2. /\ DOMAIN m = DOMAIN slots \cup {f.key}
      /\ m[f.key] = s
      /\ \A k \in rest : k \in DOMAIN m /\ m[k] = slots[k]
  BY DEF WithSlot
<1>3. /\ DOMAIN slots \subseteq Keys /\ f.key \in Keys
      /\ \A k \in DOMAIN slots : slots[k] \in Slot
      /\ AllCounted(slots) /\ Ordered(slots)
      /\ reassemblyBytes = Sum(BytesOf(slots), DOMAIN slots)
  BY DEF IInv, TypeOK, Counted, Frame
<1> HIDE DEF m
<1>4. DOMAIN m \subseteq Keys /\ \A k \in DOMAIN m : m[k] \in Slot
  BY <1>1, <1>2, <1>3
<1>5. AllCounted(m)
  BY <1>1, <1>2, <1>3 DEF AllCounted
<1>6. Ordered(m)
  <2>1. \A k \in DOMAIN slots : m[k].older = slots[k].older
    BY <1>1, <1>2
  <2>2. ASSUME NEW k \in DOMAIN slots
        PROVE  /\ m[k].older \subseteq DOMAIN slots \ {k}
               /\ \A o \in m[k].older : m[o].older \subseteq m[k].older
    BY <1>3, <2>1, <2>2 DEF Ordered
  <2>3. f.key \notin DOMAIN slots => m[f.key].older = DOMAIN slots
    BY <1>1, <1>2
  <2> QED
    BY <1>2, <2>2, <2>3 DEF Ordered
<1>7. reassemblyBytes + f.size = Sum(BytesOf(m), DOMAIN m)
  <2>1. /\ IsFiniteSet(DOMAIN m) /\ \A k \in DOMAIN m : BytesOf(m)[k] = m[k].bytes /\ BytesOf(m)[k] \in Nat
    <3>1. DOMAIN m \in SUBSET DOMAIN m
      OBVIOUS
    <3> QED
      BY <1>4, <3>1, BufferNumbers
  <2>2. /\ IsFiniteSet(DOMAIN slots) /\ IsFiniteSet(rest) /\ Sum(BytesOf(slots), rest) \in Nat
        /\ \A k \in DOMAIN slots : BytesOf(slots)[k] = slots[k].bytes /\ BytesOf(slots)[k] \in Nat
    BY <1>3, BufferNumbers
  <2>3. Sum(BytesOf(m), DOMAIN m) = s.bytes + Sum(BytesOf(m), DOMAIN m \ {f.key})
    BY <1>2, <2>1, SumAdd
  <2>4. Sum(BytesOf(m), rest) = Sum(BytesOf(slots), rest)
    <3>1. \A k \in rest : BytesOf(m)[k] = BytesOf(slots)[k]
      BY <1>2, <2>1, <2>2
    <3> QED
      BY <2>2, <3>1, SumSame
  <2>5. Sum(BytesOf(m), DOMAIN m) = s.bytes + Sum(BytesOf(slots), rest)
    <3>1. DOMAIN m \ {f.key} = rest
      BY <1>2
    <3> QED
      BY <2>3, <2>4, <3>1
  <2>6. CASE f.key \in DOMAIN slots
    <3>1. Sum(BytesOf(slots), DOMAIN slots) = slots[f.key].bytes + Sum(BytesOf(slots), rest)
      BY <2>2, <2>6, SumAdd
    <3>2. slots[f.key].bytes \in Nat /\ s.bytes = slots[f.key].bytes + f.size
      BY <1>1, <2>2, <2>6
    <3> QED
      BY <1>1, <1>3, <2>2, <2>5, <3>1, <3>2
  <2>7. CASE f.key \notin DOMAIN slots
    <3>1. rest = DOMAIN slots /\ s.bytes = f.size
      BY <1>1, <2>7
    <3>2. reassemblyBytes = Sum(BytesOf(slots), rest)
      BY <1>3, <3>1
    <3> QED
      BY <1>1, <2>2, <2>5, <3>1, <3>2
  <2> QED
    BY <2>6, <2>7
<1> QED
  BY <1>2, <1>3, <1>4, <1>5, <1>6, <1>7 DEF m, s

(* Every way out of handleBinaryFrame leaves the counts right and the budget kept. *)
LEMMA FrameCounted ==
    ASSUME CInv, NEW f \in Frame, HandleBinaryFrame(f)
    PROVE  Counted(slots', reassemblyBytes')
<1> DEFINE s == Recorded(f)
           m == WithSlot(f.key, s)
           total == reassemblyBytes + f.size
           gone == Evicted(m, total, f.key)
           b == BytesOf(m)
<1>0. IInv /\ Counted(slots, reassemblyBytes)
  BY DEF CInv
<1>1. CASE UNCHANGED <<slots, reassemblyBytes>>
  BY <1>0, <1>1
<1>2. ASSUME NewChunk(f)
      PROVE  /\ DOMAIN m = DOMAIN slots \cup {f.key} /\ DOMAIN m \subseteq Keys
             /\ m[f.key] = s
             /\ \A k \in DOMAIN slots \ {f.key} : m[k] = slots[k]
             /\ \A k \in DOMAIN m : m[k] \in Slot
             /\ AllCounted(m) /\ Ordered(m)
             /\ total = Sum(b, DOMAIN m)
  BY <1>0, <1>2, WithSlotCounted
<1>3. ASSUME NewChunk(f)
      PROVE  /\ IsFiniteSet(DOMAIN m)
             /\ \A k \in DOMAIN m : b[k] = m[k].bytes /\ b[k] \in Nat
             /\ \A ks \in SUBSET DOMAIN m : IsFiniteSet(ks) /\ Sum(b, ks) \in Nat
  <2> HIDE DEF m
  <2> QED
    BY <1>2, <1>3, BufferNumbers
<1>4. gone \in SUBSET (DOMAIN m \ {f.key})
  BY DEF Evicted
<1>5. ASSUME NewChunk(f), s.bytes <= MessageCap
      PROVE  total - Sum(b, gone) <= Budget
  <2> HIDE DEF m, s, total
  <2> QED
    BY <1>2, <1>5, EvictionIsEnough
<1>6. CASE DropOversize(f)
  <2>1. /\ NewChunk(f) /\ slots' = Without(slots, {f.key})
        /\ reassemblyBytes' = reassemblyBytes + f.size - s.bytes
    BY <1>6 DEF DropOversize
  <2>2. /\ DOMAIN slots \subseteq Keys /\ \A k \in DOMAIN slots : slots[k] \in Slot
        /\ AllCounted(slots) /\ Ordered(slots)
        /\ reassemblyBytes = Sum(BytesOf(slots), DOMAIN slots)
        /\ reassemblyBytes <= Budget
    BY <1>0 DEF IInv, TypeOK, Counted
  <2>3. /\ s.bytes \in Nat /\ f.size \in Nat
        /\ f.key \in DOMAIN slots => s.bytes = slots[f.key].bytes + f.size
        /\ f.key \notin DOMAIN slots => s.bytes = f.size
    <3>1. /\ s \in Slot /\ f.size \in Nat
          /\ f.key \in DOMAIN slots => s.bytes = slots[f.key].bytes + f.size
          /\ f.key \notin DOMAIN slots => s.bytes = f.size
      BY <1>0, <2>1, <2>2, RecordedCounted
    <3> HIDE DEF s
    <3> QED
      BY <3>1, SlotNumbers
  <2>4. /\ AllCounted(slots') /\ Ordered(slots')
        /\ Sum(BytesOf(slots'), DOMAIN slots')
              = reassemblyBytes - Sum(BytesOf(slots), DOMAIN slots \cap {f.key})
    BY <2>1, <2>2, WithoutCounted
  <2>5. Sum(BytesOf(slots), DOMAIN slots \cap {f.key}) = s.bytes - f.size
    <3>1. CASE f.key \in DOMAIN slots
      <4>1. DOMAIN slots \cap {f.key} = {f.key} /\ {f.key} \ {f.key} = {}
        BY <3>1
      <4>2. /\ BytesOf(slots)[f.key] = slots[f.key].bytes /\ BytesOf(slots)[f.key] \in Nat
            /\ IsFiniteSet({f.key})
        BY <2>2, <3>1, <4>1, BufferNumbers
      <4>3. Sum(BytesOf(slots), {f.key}) = BytesOf(slots)[f.key] + Sum(BytesOf(slots), {f.key} \ {f.key})
        BY <4>2, SumAdd
      <4>4. Sum(BytesOf(slots), {f.key}) = slots[f.key].bytes
        BY <4>1, <4>2, <4>3, SumEmpty
      <4>5. Sum(BytesOf(slots), DOMAIN slots \cap {f.key}) = slots[f.key].bytes
        BY <4>1, <4>4
      <4> HIDE DEF s
      <4> QED
        BY <2>3, <3>1, <4>2, <4>5
    <3>2. CASE f.key \notin DOMAIN slots
      <4>1. DOMAIN slots \cap {f.key} = {}
        BY <3>2
      <4>2. Sum(BytesOf(slots), DOMAIN slots \cap {f.key}) = 0
        BY <4>1, SumEmpty
      <4> HIDE DEF s
      <4> QED
        BY <2>3, <3>2, <4>2
    <3> QED
      BY <3>1, <3>2
  <2>6. reassemblyBytes \in Nat /\ s.bytes >= f.size
    <3>1. reassemblyBytes \in Nat
      <4>1. DOMAIN slots \in SUBSET DOMAIN slots
        OBVIOUS
      <4> QED
        BY <2>2, <4>1, BufferNumbers
    <3>2. f.key \in DOMAIN slots => slots[f.key].bytes \in Nat
      BY <2>2, SlotNumbers
    <3> HIDE DEF s
    <3> QED
      BY <2>3, <3>1, <3>2
  <2> HIDE DEF s
  <2>7. reassemblyBytes' = Sum(BytesOf(slots'), DOMAIN slots') /\ reassemblyBytes' <= Budget
    BY <2>1, <2>2, <2>3, <2>4, <2>5, <2>6, NumbersAssumption
  <2> QED
    BY <2>4, <2>7 DEF Counted
<1>7. CASE Buffer(f)
  <2>1. /\ NewChunk(f) /\ s.bytes <= MessageCap /\ slots' = Without(m, gone)
        /\ reassemblyBytes' = total - Sum(b, gone)
    BY <1>7 DEF Buffer, BytesOf
  <2>2. DOMAIN m \cap gone = gone
    BY <1>4
  <2>3. total - Sum(b, gone) <= Budget
    BY <1>5, <2>1
  <2>4. /\ AllCounted(Without(m, gone)) /\ Ordered(Without(m, gone))
        /\ Sum(BytesOf(Without(m, gone)), DOMAIN Without(m, gone))
             = Sum(b, DOMAIN m) - Sum(b, DOMAIN m \cap gone)
    <3>1. /\ DOMAIN m \subseteq Keys /\ \A k \in DOMAIN m : m[k] \in Slot
          /\ AllCounted(m) /\ Ordered(m)
      BY <1>2, <2>1
    <3> HIDE DEF m, gone
    <3> QED
      BY <3>1, WithoutCounted
  <2>5. total = Sum(b, DOMAIN m)
    BY <1>2, <2>1
  <2> HIDE DEF m, gone, total, b
  <2> QED
    BY <2>1, <2>2, <2>3, <2>4, <2>5 DEF Counted
<1>8. CASE Complete(f)
  <2> DEFINE ks == gone \cup {f.key}
  <2>1. /\ NewChunk(f) /\ s.bytes <= MessageCap /\ slots' = Without(m, ks)
        /\ reassemblyBytes' = total - Sum(b, gone) - s.bytes
    BY <1>8 DEF Complete, BytesOf
  <2>2. DOMAIN m \cap ks = ks
    BY <1>2, <1>4, <2>1
  <2>3. total - Sum(b, gone) <= Budget
    BY <1>5, <2>1
  <2>4. /\ AllCounted(Without(m, ks)) /\ Ordered(Without(m, ks))
        /\ Sum(BytesOf(Without(m, ks)), DOMAIN Without(m, ks))
             = Sum(b, DOMAIN m) - Sum(b, DOMAIN m \cap ks)
    <3>1. /\ DOMAIN m \subseteq Keys /\ \A k \in DOMAIN m : m[k] \in Slot
          /\ AllCounted(m) /\ Ordered(m)
      BY <1>2, <2>1
    <3> HIDE DEF m, ks
    <3> QED
      BY <3>1, WithoutCounted
  <2>5. Sum(b, ks) = s.bytes + Sum(b, gone)
    <3>1. ks \in SUBSET DOMAIN m /\ f.key \in ks /\ ks \ {f.key} = gone
      BY <1>2, <1>4, <2>1
    <3>2. IsFiniteSet(ks) /\ \A k \in ks : b[k] \in Nat
      BY <1>3, <2>1, <3>1
    <3>3. b[f.key] = s.bytes
      BY <1>2, <1>3, <2>1
    <3> HIDE DEF ks, m, s, gone, b
    <3>4. Sum(b, ks) = b[f.key] + Sum(b, ks \ {f.key})
      BY <3>1, <3>2, SumAdd
    <3> QED
      BY <3>1, <3>3, <3>4
  <2>6. total = Sum(b, DOMAIN m)
    BY <1>2, <2>1
  <2>7. total \in Nat /\ Sum(b, gone) \in Nat /\ s.bytes \in Nat
    <3>1. gone \in SUBSET DOMAIN m /\ DOMAIN m \in SUBSET DOMAIN m /\ f.key \in DOMAIN m
      BY <1>2, <1>4, <2>1
    <3>2. b[f.key] = s.bytes
      BY <1>2, <1>3, <2>1
    <3> HIDE DEF m, s, gone, b, total
    <3> QED
      BY <1>3, <2>1, <2>6, <3>1, <3>2
  <2> HIDE DEF m, gone, total, b, ks, s
  <2>8. reassemblyBytes' = Sum(BytesOf(slots'), DOMAIN slots') /\ reassemblyBytes' <= Budget
    <3>1. Sum(BytesOf(slots'), DOMAIN slots') = total - Sum(b, ks)
      BY <2>1, <2>2, <2>4, <2>6
    <3> QED
      BY <2>1, <2>3, <2>5, <2>7, <3>1, NumbersAssumption
  <2> QED
    BY <2>1, <2>4, <2>8 DEF Counted
<1> QED
  BY <1>1, <1>6, <1>7, <1>8
     DEF HandleBinaryFrame, EmitSingle, RejectRange, RejectMismatch, IgnoreDuplicate

(* The time-out sweep and the clock keep the counts too. *)
LEMMA SweepCounted == ASSUME CInv, GcStale PROVE Counted(slots', reassemblyBytes')
<1> DEFINE stale == {k \in DOMAIN slots : slots[k].age >= Timeout}
<1>1. /\ slots' = Without(slots, stale)
      /\ reassemblyBytes' = reassemblyBytes - Sum(BytesOf(slots), stale)
  BY DEF GcStale, BytesOf
<1>2. DOMAIN slots \cap stale = stale /\ stale \in SUBSET DOMAIN slots
  OBVIOUS
<1> HIDE DEF stale
<1>3. /\ DOMAIN slots \subseteq Keys /\ \A k \in DOMAIN slots : slots[k] \in Slot
      /\ AllCounted(slots) /\ Ordered(slots)
      /\ reassemblyBytes = Sum(BytesOf(slots), DOMAIN slots)
      /\ reassemblyBytes <= Budget
  BY DEF CInv, IInv, TypeOK, Counted
<1>4. /\ AllCounted(slots') /\ Ordered(slots')
      /\ Sum(BytesOf(slots'), DOMAIN slots')
           = reassemblyBytes - Sum(BytesOf(slots), DOMAIN slots \cap stale)
  BY <1>1, <1>3, WithoutCounted
<1>5. Sum(BytesOf(slots), stale) \in Nat /\ reassemblyBytes \in Nat
  <2>1. DOMAIN slots \in SUBSET DOMAIN slots
    OBVIOUS
  <2> QED
    BY <1>2, <1>3, <2>1, BufferNumbers
<1>6. reassemblyBytes' = Sum(BytesOf(slots'), DOMAIN slots')
  BY <1>1, <1>2, <1>4
<1>7. reassemblyBytes' <= Budget
  BY <1>1, <1>3, <1>5, NumbersAssumption
<1> QED
  BY <1>4, <1>6, <1>7 DEF Counted

LEMMA TickCounted == ASSUME CInv, Tick PROVE Counted(slots', reassemblyBytes')
<1>1. /\ DOMAIN slots' = DOMAIN slots /\ reassemblyBytes' = reassemblyBytes
      /\ \A k \in DOMAIN slots :
            slots'[k] = [slots[k] EXCEPT !.age = IF @ < Timeout THEN @ + 1 ELSE @]
  BY DEF Tick
<1>2. /\ DOMAIN slots \subseteq Keys /\ \A k \in DOMAIN slots : slots[k] \in Slot
      /\ AllCounted(slots) /\ Ordered(slots)
      /\ reassemblyBytes = Sum(BytesOf(slots), DOMAIN slots)
      /\ reassemblyBytes <= Budget
  BY DEF CInv, IInv, TypeOK, Counted
<1>3. ASSUME NEW k \in DOMAIN slots
      PROVE  /\ slots'[k].bytes = slots[k].bytes /\ slots'[k].frames = slots[k].frames
             /\ slots'[k].older = slots[k].older
  BY <1>1, <1>2 DEF Slot
<1>4. AllCounted(slots') /\ Ordered(slots')
  <2>1. AllCounted(slots')
    BY <1>1, <1>2, <1>3 DEF AllCounted, SlotCounted
  <2>2. ASSUME NEW k \in DOMAIN slots'
        PROVE  /\ slots'[k].older \subseteq DOMAIN slots' \ {k}
               /\ \A o \in slots'[k].older : slots'[o].older \subseteq slots'[k].older
    <3>1. /\ slots[k].older \subseteq DOMAIN slots \ {k}
          /\ \A o \in slots[k].older : slots[o].older \subseteq slots[k].older
      BY <1>1, <1>2, <2>2 DEF Ordered
    <3> QED
      BY <1>1, <1>3, <2>2, <3>1
  <2> QED
    BY <2>1, <2>2 DEF Ordered
<1>5. BytesOf(slots') = BytesOf(slots)
  BY <1>1, <1>3 DEF BytesOf
<1> QED
  BY <1>1, <1>2, <1>4, <1>5 DEF Counted

(* An empty buffer counts as nothing. *)
LEMMA EmptyCounted == ASSUME NEW m, DOMAIN m = {} PROVE Counted(m, 0)
<1>1. Sum(BytesOf(m), DOMAIN m) = 0
  BY SumEmpty
<1> QED
  BY <1>1, NumbersAssumption DEF Counted, AllCounted, Ordered

(* The counts kept beside the buffer are right in every reachable state. *)
THEOREM CountsHold == Spec => []CInv
<1>1. Init => Counted(slots, reassemblyBytes)
  <2> SUFFICES ASSUME Init PROVE Counted(slots, reassemblyBytes)
    OBVIOUS
  <2>1. DOMAIN slots = {} /\ reassemblyBytes = 0
    BY DEF Init
  <2> QED
    BY <2>1, EmptyCounted
<1>2. IInv /\ Counted(slots, reassemblyBytes) /\ [Next]_vars
        => Counted(slots', reassemblyBytes')
  <2> SUFFICES ASSUME IInv, Counted(slots, reassemblyBytes), [Next]_vars
               PROVE  Counted(slots', reassemblyBytes')
    OBVIOUS
  <2>0. CInv
    BY DEF CInv
  <2>1. CASE OnArrayBuffer
    <3>1. PICK f \in Incoming : HandleBinaryFrame(f)
      BY <2>1 DEF OnArrayBuffer
    <3> QED
      BY <2>0, <3>1, FrameCounted, IncomingAssumption
  <2>2. CASE BlobConverted
    <3>1. PICK f \in converting : HandleBinaryFrame(f)
      BY <2>2 DEF BlobConverted
    <3>2. f \in Frame
      BY IncomingAssumption DEF IInv, TypeOK
    <3> QED
      BY <2>0, <3>1, <3>2, FrameCounted
  <2>3. CASE GcStale
    BY <2>0, <2>3, SweepCounted
  <2>4. CASE Tick
    BY <2>0, <2>4, TickCounted
  <2>5. CASE Close
    <3>1. DOMAIN slots' = {} /\ reassemblyBytes' = 0
      BY <2>5 DEF Close
    <3> QED
      BY <3>1, EmptyCounted
  <2>6. CASE UNCHANGED <<slots, reassemblyBytes>>
    BY <2>6
  <2> QED
    BY <2>1, <2>2, <2>3, <2>4, <2>5, <2>6 DEF Next, OnBlob, vars
<1>3. CInv <=> IInv /\ Counted(slots, reassemblyBytes)
  BY DEF CInv
<1>4. Counted(slots, reassemblyBytes)' <=> Counted(slots', reassemblyBytes')
  BY DEF Counted, AllCounted, SlotCounted, Ordered, BytesOf
<1> QED
  BY <1>1, <1>2, <1>3, <1>4, InvariantHolds, PTL DEF Spec

(* reassemblyBytes, slot.bytes and slot.receivedFrames agree with the chunks that
   are really buffered, after any mix of evictions, timeouts, completions and
   oversize drops. *)
THEOREM CountsAgree == Spec => []Accounting
<1>1. CInv => Accounting
  BY DEF CInv, IInv, AllPartial, PartialSlot, Tallied, Counted, AllCounted, SlotCounted, BytesOf,
         Accounting, CountsMatch
<1> QED
  BY <1>1, CountsHold, PTL

(* evictUntilUnderBudget always makes enough room: no frame leaves more than
   BIN_REASSEMBLY_BUDGET_BYTES buffered, however the messages interleave. *)
THEOREM BudgetIsKept == Spec => []WithinBudget
<1>1. CInv => WithinBudget
  BY DEF CInv, Counted, WithinBudget
<1> QED
  BY <1>1, CountsHold, PTL

-----------------------------------------------------------------------------
(* How messages leave the buffer. *)
OverflowOf(k) == [reason |-> Overflow, key |-> k]

(* An error event names exactly the messages that were dropped for its reason. *)
LEMMA ErrorsNamed ==
    ASSUME NEW reason, NEW ks
    PROVE  \A k : k \in ks => \E e \in Error(reason, ks) : e.key = k
<1> TAKE k
<1>1. ASSUME k \in ks PROVE \E e \in Error(reason, ks) : e.key = k
  <2>1. [reason |-> reason, key |-> k] \in Error(reason, ks)
    BY <1>1 DEF Error
  <2>2. [reason |-> reason, key |-> k].key = k
    OBVIOUS
  <2> QED
    BY <2>1, <2>2
<1> QED
  BY <1>1

LEMMA OverflowNamed ==
    ASSUME NEW ks, NEW k, OverflowOf(k) \in Error(Overflow, ks) PROVE k \in ks
<1>1. PICK o \in ks : OverflowOf(k) = [reason |-> Overflow, key |-> o]
  BY DEF Error
<1>2. OverflowOf(k).key = k /\ OverflowOf(k).key = o
  BY <1>1 DEF OverflowOf
<1> QED
  BY <1>2

(* A message that a step takes out of the buffer is emitted, named by an error or
   dropped by close(). *)
Announced ==
    \A k \in DOMAIN slots \ DOMAIN slots' :
        \/ closed' /\ ~closed
        \/ event'.binary # NoMessage /\ event'.binary.key = k
        \/ \E e \in event'.errors : e.key = k

(* What an overflow drops was older than all that stays, but for the message whose
   frame has just come. *)
OldestGoFirst ==
    \A k \in DOMAIN slots \ DOMAIN slots' :
        OverflowOf(k) \in event'.errors =>
            \A o \in slots[k].older \cap DOMAIN slots' :
                slots'[o].receivedFrames > slots[o].receivedFrames

(* Making room spares the message the frame belongs to, and with a message it drops
   every older one. *)
LEMMA EvictedFromOldest ==
    ASSUME NEW m, DOMAIN m \subseteq Keys, \A k \in DOMAIN m : m[k] \in Slot, Ordered(m),
           NEW total \in Int, NEW p \in DOMAIN m,
           NEW k \in Evicted(m, total, p), NEW o \in m[k].older, o # p
    PROVE  o \in Evicted(m, total, p)
<1> DEFINE b == BytesOf(m)
           Older(x) == m[x].older \ {p}
<1>1. \A x : x \in Evicted(m, total, p)
                <=> x \in DOMAIN m \ {p} /\ total - Sum(b, Older(x)) > Budget
  BY DEF Evicted, BytesOf
<1>2. k \in DOMAIN m \ {p} /\ total - Sum(b, Older(k)) > Budget
  BY <1>1
<1>3. /\ Older(k) \in SUBSET DOMAIN m /\ o \in DOMAIN m \ {p}
      /\ m[o].older \subseteq m[k].older /\ Older(o) \subseteq Older(k)
  BY <1>2 DEF Ordered
<1>4. /\ IsFiniteSet(Older(k)) /\ \A x \in Older(k) : b[x] \in Nat
      /\ Sum(b, Older(k)) \in Nat /\ Sum(b, Older(o)) \in Nat
      /\ Sum(b, Older(k) \ Older(o)) \in Nat
  <2>1. Older(o) \in SUBSET DOMAIN m /\ Older(k) \ Older(o) \in SUBSET DOMAIN m
    BY <1>3
  <2> HIDE DEF Older
  <2> QED
    BY <1>3, <2>1, BufferNumbers
<1>5. Sum(b, Older(k)) = Sum(b, Older(o)) + Sum(b, Older(k) \ Older(o))
  <2> HIDE DEF Older, b
  <2> QED
    BY <1>3, <1>4, SumSplit
<1>6. total - Sum(b, Older(o)) > Budget
  <2> HIDE DEF Older, b
  <2> QED
    BY <1>2, <1>4, <1>5, NumbersAssumption
<1> QED
  BY <1>1, <1>3, <1>6

(* No way out of handleBinaryFrame loses a message silently, or out of turn. *)
LEMMA FrameLeaves ==
    ASSUME CInv, NEW f \in Frame, HandleBinaryFrame(f)
    PROVE  Announced /\ OldestGoFirst
<1> DEFINE s == Recorded(f)
           m == WithSlot(f.key, s)
           total == reassemblyBytes + f.size
           gone == Evicted(m, total, f.key)
<1>0. IInv /\ Counted(slots, reassemblyBytes)
  BY DEF CInv
<1>1. CASE DOMAIN slots' = DOMAIN slots
  BY <1>1 DEF Announced, OldestGoFirst
<1>2. CASE DropOversize(f)
  <2>1. slots' = Without(slots, {f.key}) /\ event'.errors = Error(TooBig, {f.key})
    BY <1>2 DEF DropOversize, Nothing
  <2>2. DOMAIN slots \ DOMAIN slots' \subseteq {f.key}
    BY <2>1 DEF Without
  <2>3. \E e \in event'.errors : e.key = f.key
    BY <2>1, ErrorsNamed
  <2>4. \A k : OverflowOf(k) \notin event'.errors
    <3>1. ASSUME NEW k, OverflowOf(k) \in Error(TooBig, {f.key}) PROVE FALSE
      <4>1. OverflowOf(k) = [reason |-> TooBig, key |-> f.key]
        BY <3>1 DEF Error
      <4>2. OverflowOf(k).reason = TooBig
        BY <4>1
      <4> QED
        BY <4>2 DEF OverflowOf, Overflow, TooBig
    <3> QED
      BY <2>1, <3>1
  <2> QED
    BY <2>2, <2>3, <2>4 DEF Announced, OldestGoFirst
<1>3. ASSUME NewChunk(f),
             NEW ks, slots' = Without(m, gone \cup ks), ks \subseteq {f.key},
             event'.errors = Error(Overflow, gone),
             ks # {} => event'.binary # NoMessage /\ event'.binary.key = f.key
      PROVE  Announced /\ OldestGoFirst
  <2>1. /\ DOMAIN m = DOMAIN slots \cup {f.key} /\ DOMAIN m \subseteq Keys
        /\ m[f.key] = s
        /\ \A k \in DOMAIN slots \ {f.key} : m[k] = slots[k]
        /\ \A k \in DOMAIN m : m[k] \in Slot
        /\ Ordered(m)
        /\ total = Sum(BytesOf(m), DOMAIN m)
    BY <1>0, <1>3, WithSlotCounted
  <2>2. gone \in SUBSET (DOMAIN m \ {f.key})
    BY DEF Evicted
  <2>3. total \in Nat
    <3> HIDE DEF m, total
    <3>1. DOMAIN m \in SUBSET DOMAIN m
      OBVIOUS
    <3> QED
      BY <2>1, <3>1, BufferNumbers
  <2>4. ASSUME NEW k \in gone, NEW o \in m[k].older, o # f.key PROVE o \in gone
    <3> HIDE DEF m, total
    <3> QED
      BY <2>1, <2>3, <2>4, EvictedFromOldest
  <2>5. f.key \in DOMAIN slots => s.receivedFrames > slots[f.key].receivedFrames
    <3>1. ASSUME f.key \in DOMAIN slots
          PROVE  s.receivedFrames = slots[f.key].receivedFrames + 1
                 /\ slots[f.key].receivedFrames \in Nat
      BY <1>0, <1>3, <3>1, RecordedCounted, SlotNumbers DEF Counted, IInv, TypeOK
    <3> HIDE DEF s
    <3> QED
      BY <3>1
  <2> HIDE DEF m, total, gone, s
  <2>6. DOMAIN slots' = DOMAIN m \ (gone \cup ks)
    BY <1>3 DEF Without
  <2>7. Announced
    <3>1. \A k \in gone : \E e \in event'.errors : e.key = k
      BY <1>3, ErrorsNamed
    <3>2. DOMAIN slots \ DOMAIN slots' \subseteq gone \cup ks
      BY <2>1, <2>6
    <3> QED
      BY <1>3, <3>1, <3>2 DEF Announced
  <2>8. OldestGoFirst
    <3>1. ASSUME NEW k \in DOMAIN slots \ DOMAIN slots', OverflowOf(k) \in event'.errors,
                 NEW o \in slots[k].older \cap DOMAIN slots'
          PROVE  slots'[o].receivedFrames > slots[o].receivedFrames
      <4>1. k \in gone
        BY <1>3, <3>1, OverflowNamed
      <4>2. k \in DOMAIN slots /\ k # f.key /\ m[k] = slots[k]
        BY <2>1, <2>2, <3>1, <4>1
      <4>3. o = f.key
        BY <2>4, <2>6, <3>1, <4>1, <4>2
      <4>4. o \in DOMAIN slots
        BY <1>0, <3>1, <4>2 DEF Counted, Ordered
      <4>5. slots'[o] = [m[o] EXCEPT !.older = @ \ (gone \cup ks)]
        BY <1>3, <2>6, <3>1 DEF Without
      <4>6. slots'[o].receivedFrames = s.receivedFrames
        BY <2>1, <4>3, <4>5 DEF Slot
      <4> QED
        BY <2>5, <4>3, <4>4, <4>6
    <3> QED
      BY <3>1 DEF OldestGoFirst
  <2> QED
    BY <2>7, <2>8
<1>4. CASE Buffer(f)
  <2>1. NewChunk(f) /\ slots' = Without(m, gone) /\ event'.errors = Error(Overflow, gone)
    BY <1>4 DEF Buffer, Nothing
  <2> HIDE DEF m, gone
  <2>2. gone = gone \cup {}
    OBVIOUS
  <2>3. PICK ks : ks = {}
    OBVIOUS
  <2>4. slots' = Without(m, gone \cup ks) /\ ks \subseteq {f.key} /\ ~(ks # {})
    BY <2>1, <2>2, <2>3
  <2> QED
    BY <1>3, <2>1, <2>4
<1>5. CASE Complete(f)
  <2>1. /\ NewChunk(f) /\ slots' = Without(m, gone \cup {f.key})
        /\ event'.errors = Error(Overflow, gone)
        /\ event'.binary = [key |-> f.key, mime |-> s.mime, total |-> s.total,
                            frames |-> s.frames]
    BY <1>5 DEF Complete
  <2>2. event'.binary.key = f.key /\ event'.binary # NoMessage
    <3>1. "mime" \in DOMAIN event'.binary
      BY <2>1
    <3>2. "mime" \notin DOMAIN NoMessage
      BY DEF NoMessage
    <3> QED
      BY <2>1, <3>1, <3>2
  <2> HIDE DEF m, gone
  <2> QED
    BY <1>3, <2>1, <2>2 DEF m, gone
<1>6. CASE UNCHANGED slots
  BY <1>1, <1>6
<1> QED
  BY <1>2, <1>4, <1>5, <1>6
     DEF HandleBinaryFrame, EmitSingle, RejectRange, RejectMismatch, IgnoreDuplicate

(* Neither does any other step. *)
LEMMA StepLeaves == ASSUME CInv, [Next]_vars PROVE Announced /\ OldestGoFirst
<1>1. CASE OnArrayBuffer
  <2>1. PICK f \in Incoming : HandleBinaryFrame(f)
    BY <1>1 DEF OnArrayBuffer
  <2> QED
    BY <2>1, FrameLeaves, IncomingAssumption
<1>2. CASE BlobConverted
  <2>1. PICK f \in converting : HandleBinaryFrame(f)
    BY <1>2 DEF BlobConverted
  <2>2. f \in Frame
    BY IncomingAssumption DEF CInv, IInv, TypeOK
  <2> QED
    BY <2>1, <2>2, FrameLeaves
<1>3. CASE GcStale
  <2> DEFINE stale == {k \in DOMAIN slots : slots[k].age >= Timeout}
  <2>1. slots' = Without(slots, stale) /\ event'.errors = Error(TimedOut, stale)
    BY <1>3 DEF GcStale, Nothing
  <2> HIDE DEF stale
  <2>2. DOMAIN slots \ DOMAIN slots' \subseteq stale
    BY <2>1 DEF Without
  <2>3. \A k \in stale : \E e \in event'.errors : e.key = k
    BY <2>1, ErrorsNamed
  <2>4. \A k : OverflowOf(k) \notin event'.errors
    <3>1. ASSUME NEW k, OverflowOf(k) \in Error(TimedOut, stale) PROVE FALSE
      <4>1. PICK o \in stale : OverflowOf(k) = [reason |-> TimedOut, key |-> o]
        BY <3>1 DEF Error
      <4>2. OverflowOf(k).reason = TimedOut
        BY <4>1
      <4> QED
        BY <4>2 DEF OverflowOf, Overflow, TimedOut
    <3> QED
      BY <2>1, <3>1
  <2> QED
    BY <2>2, <2>3, <2>4 DEF Announced, OldestGoFirst
<1>4. CASE DOMAIN slots' = DOMAIN slots
  BY <1>4 DEF Announced, OldestGoFirst
<1>5. CASE Close
  <2>1. closed' /\ ~closed /\ event' = Nothing
    BY <1>5 DEF Close
  <2> QED
    BY <2>1 DEF Announced, OldestGoFirst, Nothing
<1>6. Tick => DOMAIN slots' = DOMAIN slots
  BY DEF Tick
<1>7. OnBlob \/ UNCHANGED vars => DOMAIN slots' = DOMAIN slots
  BY DEF OnBlob, vars
<1> QED
  BY <1>1, <1>2, <1>3, <1>4, <1>5, <1>6, <1>7 DEF Next

(* A buffered message leaves by a "binary" event, by an error that names it, or by
   close(): whatever frames come and whenever the interval timer fires. *)
THEOREM NothingIsLostSilently == Spec => NoSilentLoss
<1>1. CInv /\ [Next]_vars => Announced
  BY StepLeaves
<1>2. [][Announced]_vars <=> NoSilentLoss
  BY DEF Announced, NoSilentLoss
<1> QED
  BY <1>1, <1>2, CountsHold, PTL DEF Spec

(* evictUntilUnderBudget drops from the oldest on and never the message whose frame
   has just come. *)
THEOREM EvictionGoesByAge == Spec => OldestFirst
<1>1. CInv /\ [Next]_vars => OldestGoFirst
  BY StepLeaves
<1>2. [][OldestGoFirst]_vars <=> OldestFirst
  BY DEF OldestGoFirst, OldestFirst, OverflowOf
<1> QED
  BY <1>1, <1>2, CountsHold, PTL DEF Spec

=============================================================================
