---------------------------- MODULE BinaryFrames ----------------------------
(***************************************************************************)
(* The wire format of "core.bin" (packages/core/src/peer-session.ts): how  *)
(* sendBinary() cuts a message into frames, and what handleBinaryFrame()   *)
(* makes of one. A header is the record of its fields; only its length in  *)
(* bytes is kept, since frames that are too long are refused.              *)
(***************************************************************************)
EXTENDS Integers, Sequences, SequencesExt, FiniteSetsExt

CONSTANTS
    BodyPerFrame,   \* BIN_BODY_PER_FRAME
    FrameMax,       \* BIN_FRAME_MAX_BYTES
    MessageMax      \* BIN_MESSAGE_MAX_BYTES

(* The length of a number in JSON.                                          *)
Digits(n) == CHOOSE d \in 1 .. 8 : n < 10 ^ d /\ (d = 1 \/ 10 ^ (d - 1) <= n)

Total(bytes) == Max({1, (Len(bytes) + BodyPerFrame - 1) \div BodyPerFrame})

Body(bytes, seq) ==
    SubSeq(bytes, seq * BodyPerFrame + 1, Min({(seq + 1) * BodyPerFrame, Len(bytes)}))

(* A message of one frame has no id, seq and total (the v1 wire format).    *)
Frames(bytes, id) ==
    [i \in 1 .. Total(bytes) |->
        LET b == Body(bytes, i - 1) IN
        IF Total(bytes) = 1 THEN [header |-> [size |-> Len(b)], body |-> b]
        ELSE [header |-> [size |-> Len(b), id |-> id, seq |-> i - 1, total |-> Total(bytes)], body |-> b]]

(* head: the bytes of the header that are in every frame of the message,    *)
(* its add-on and its mime type above all.                                  *)
FrameLength(f, head) ==
    LET chunked == IF "seq" \in DOMAIN f.header
                   THEN Digits(f.header.seq) + Digits(f.header.total) ELSE 0
    IN  4 + head + Digits(f.header.size) + chunked + Len(f.body)

(* The loop throws at the first frame that is too long; those before it     *)
(* have gone out.                                                           *)
Sent(frames, head) ==
    LET long == {i \in DOMAIN frames : FrameLength(frames[i], head) > FrameMax}
    IN  IF long = {} THEN frames ELSE SubSeq(frames, 1, Min(long) - 1)

SendBinary(bytes, id, head) ==
    IF Len(bytes) > MessageMax THEN <<>> ELSE Sent(Frames(bytes, id), head)

(* One result, or none with an "error" event: a whole message, or a chunk.  *)
(* A frame whose size is not that of its body is refused; total 1 is a      *)
(* whole message even if it has an id. Other malformed headers, which the   *)
(* sender never makes, are left out.                                        *)
Parsed(f) ==
    {IF {"id", "seq", "total"} \subseteq DOMAIN f.header /\ f.header.total > 1
     THEN [id |-> f.header.id, seq |-> f.header.seq, total |-> f.header.total, body |-> f.body]
     ELSE [body |-> f.body] :
        x \in {h \in {f.header} : "size" \in DOMAIN h /\ h.size = Len(f.body)}}
=============================================================================
