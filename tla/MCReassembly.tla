---------------------------- MODULE MCReassembly ----------------------------
(* Model values and bounds for Reassembly: three messages compete for a budget
   that holds one full message, so that a frame can evict none, one or both of
   the others. *)
EXTENDS Reassembly, Sequences

CONSTANTS k1, k2, k3, text, blob, half

MCKeys == {k1, k2, k3}
MCMimes == {text, blob}
MCSizes == {1, 2}
Half == [seq \in {half} |-> 1]

Chunks(key, total, sizes) ==
    [key: {key}, mime: {text}, seq: 0..(total - 1), total: {total}, size: sizes]

\* k1 and k2 may grow past the message cap; k3 needs three chunks.
\* Odd frames: a whole message, a chunk out of range, another total, another mime,
\* and chunk number 0.5.
MCIncoming ==
    Chunks(k1, 2, {1, 2}) \cup Chunks(k2, 2, {1, 2}) \cup Chunks(k3, 3, {1})
    \cup {[key |-> k1, mime |-> text, seq |-> 0, total |-> 1, size |-> 1],
          [key |-> k3, mime |-> text, seq |-> 3, total |-> 3, size |-> 1],
          [key |-> k1, mime |-> text, seq |-> 2, total |-> 3, size |-> 1],
          [key |-> k1, mime |-> blob, seq |-> 1, total |-> 2, size |-> 1],
          [key |-> k1, mime |-> text, seq |-> half, total |-> 2, size |-> 1]}

-----------------------------------------------------------------------------
(* The frames that the sender makes, with two bytes per frame.             *)
B == INSTANCE BinaryFrames WITH BodyPerFrame <- 2, FrameMax <- 10, MessageMax <- 23

Payload(n) == [i \in 1 .. n |-> i]

(* What is sent in full is received in full: every frame is accepted, one  *)
(* frame is a whole message, and several are chunks 0 .. total - 1 of one  *)
(* message whose bodies, none empty, make up the payload again.            *)
ASSUME ChunksMakeTheMessage ==
    \A n \in 0 .. 25, head \in 0 .. 6 :
        LET frames == B!Frames(Payload(n), "m")
            sent == B!SendBinary(Payload(n), "m", head)
            part(seq) == CHOOSE c \in UNION {B!Parsed(f) : f \in Range(frames)} : c.seq = seq IN
        /\ B!IsPrefix(sent, frames) /\ (n > 23 => sent = <<>>)
        /\ IF Len(frames) = 1 THEN B!Parsed(frames[1]) = {[body |-> Payload(n)]}
           ELSE /\ UNION {B!Parsed(f) : f \in Range(frames)} = {part(seq) : seq \in 0 .. Len(frames) - 1}
                /\ \A seq \in 0 .. Len(frames) - 1 : part(seq).total = Len(frames) /\ part(seq).body # <<>>
                /\ B!FlattenSeq([i \in 1 .. Len(frames) |-> part(i - 1).body]) = Payload(n)

(* A message of more than ten frames may be refused after ten have gone    *)
(* out, whose header is one byte shorter: the receiver keeps them until    *)
(* its timeout.                                                            *)
ASSUME RefusedHalfWay ==
    \E n \in 0 .. 23, head \in 0 .. 6 :
        Len(B!Frames(Payload(n), "m")) > 10 /\ Len(B!SendBinary(Payload(n), "m", head)) = 10

=============================================================================
