----------------------------- MODULE MCWebPage -----------------------------
(* Three clicks with a wait, on a page that creates or joins a room; and   *)
(* the facts about the codecs behind its links, on small documents.        *)
EXTENDS WebPage

(* An invite of the other peer, its further bundles, and its answer to the *)
(* page's own invite.                                                      *)
TheLinks == {[invite |-> TRUE, room |-> 0], [invite |-> FALSE, room |-> 0], [invite |-> FALSE, room |-> 1]}

C == INSTANCE Codecs

-----------------------------------------------------------------------------
(* Documents: every choice of present fields and of their values.          *)
Docs(fields, values(_)) ==
    UNION {{d \in [S -> UNION {values(f) : f \in S}] : \A f \in S : d[f] \in values(f)} : S \in SUBSET fields}

MessageDocs ==
    Docs({"kind", "from", "to", "sdp", "candidate", "extra"},
         LAMBDA f : CASE f = "kind" -> {"offer", "answer", "ice", "bye", "bad"}
                      [] f \in {"from", "sdp"} -> {"p", "bad"} [] OTHER -> {"p"})

(* The message types of packages/protocol/src/signaling.ts.                *)
SignalingMessage ==
    {[kind |-> "offer", from |-> "p", sdp |-> "p"], [kind |-> "answer", from |-> "p", to |-> "p", sdp |-> "p"],
     [kind |-> "ice", from |-> "p", to |-> "p", candidate |-> "p"], [kind |-> "bye", from |-> "p"]}

(* validateMessage() accepts the members of the type and nothing else.     *)
ASSUME ValidatorIsTheType == {m \in MessageDocs : C!ValidMessage(m)} = SignalingMessage

Offer(from) == [kind |-> "offer", from |-> from, sdp |-> "p"]
BundleDocs ==
    [v : {"1", "bad"}, roomId : {"r", "q"},
     messages : {<<>>, <<Offer("p")>>, <<Offer("p"), Offer("q")>>, <<Offer("bad")>>}]
InviteDocs ==
    Docs({"v", "roomId", "from", "protocolVersion", "capabilities", "note", "extra"},
         LAMBDA f : IF f = "roomId" THEN {"r"} ELSE IF f = "from" THEN {"p"} ELSE {"x", "bad"})

Bases == [scheme : {"https", "http", "file"}, host : {"loopback", "senn.example"}]

(* A link is parsed to what it was built of; it is built only of an invite *)
(* and a bundle of one room and one peer.                                  *)
ASSUME LinksRoundTrip ==
    \A base \in Bases, p \in InviteDocs, b \in BundleDocs :
        /\ \A l \in C!InviteBundleLink(base, p, b, TRUE) :
              /\ C!InviteBundleOf(l) = {<<p, b>>} /\ C!BundleOf(l) = {b}
              /\ b.roomId = p.roomId /\ (base.scheme = "http" => base.host = "loopback")
        /\ \A l \in C!InviteLink(base, p, TRUE) : C!InviteOf(l) = {p} /\ C!InviteBundleOf(l) = {<<p, <<>>>>}

(* A key other than i and s, or a bundle of another room, is refused.      *)
ASSUME StrangeLinksRefused ==
    \A p \in InviteDocs, b \in BundleDocs, key \in {"i", "s", "x"} :
        LET l == [scheme |-> "https", host |-> "h", fragment |-> <<<<"i", C!Wrapped(p)>>, <<key, C!Wrapped(b)>>>>]
        IN  C!InviteBundleOf(l) # {} => /\ C!ValidInvite(p) /\ key # "x"
                                        /\ key = "s" => C!ValidBundle(b) /\ b.roomId = "r"

Bytes == {0, 1, 3, 4, 15, 16, 63, 64, 127, 128, 255}
ByteStrings == UNION {[1 .. n -> Bytes] : n \in 0 .. 3} \cup [1 .. 5 -> {0, 16, 255}]

(* The reference: the bits of the bytes, padded with zeros, six by six.    *)
BitsOf(bytes) == [i \in 1 .. (8 * Len(bytes)) |-> (bytes[(i + 7) \div 8] \div (2 ^ (7 - ((i - 1) % 8)))) % 2]
Base64Reference(bytes) ==
    LET bits == BitsOf(bytes)
    IN  [d \in 1 .. ((Len(bits) + 5) \div 6) |->
            C!FromBits([i \in 1 .. 6 |-> IF 6 * (d - 1) + i <= Len(bits) THEN bits[6 * (d - 1) + i] ELSE 0])]

ASSUME Base64IsTheReference ==
    \A s \in ByteStrings : C!Base64(s) = Base64Reference(s) /\ C!Unbase64(C!Base64(s)) = {s}

(* Some decodable text is nobody's encoding: the spare bits are ignored.   *)
ASSUME Base64NotInjective == \E t \in [1 .. 2 -> {0, 1}] : \E s \in C!Unbase64(t) : C!Base64(s) # t

Bit48 == {[i \in 1 .. 48 |-> IF i = k THEN 1 ELSE 0] : k \in {1, 2, 24, 47, 48}}
First(a, b) == CHOOSE i \in DOMAIN a : a[i] # b[i] /\ \A j \in 1 .. (i - 1) : a[j] = b[j]

(* Ids have 26 digits; a peer id made later sorts later.                   *)
ASSUME IdsSort ==
    LET zeros(n) == [i \in 1 .. n |-> 0]  ones(n) == [i \in 1 .. n |-> 1] IN
    /\ C!IsId(C!RoomIdOf(ones(128)))
    /\ \A s, t \in Bit48 :
          LET a == C!PeerIdOf(s, ones(80))  b == C!PeerIdOf(t, zeros(80))
          IN  C!IsId(a) /\ (s # t /\ s[First(s, t)] < t[First(s, t)] => a[First(a, b)] < b[First(a, b)])

EnvelopeDocs == Docs(C!EnvelopeFields \cup {"extra"}, LAMBDA f : {"x", "bad"})

(* An envelope has every field, sound except for its payload, and no more. *)
ASSUME EnvelopesParsed ==
    \A e \in EnvelopeDocs : \A r \in C!ParsedEnvelope(e) :
        DOMAIN r = C!EnvelopeFields /\ \A f \in DOMAIN r : r[f] = e[f] /\ (r[f] = "bad" => f = "payload")

(* The fixture checks pass for the document's own encoding only.           *)
ASSUME FixturesChecked ==
    /\ \A b \in BundleDocs, t \in BundleDocs :
          C!BundleFixture(b, {C!Wrapped(t)}, FALSE) = "ok" <=> C!ValidBundle(b) /\ t = b
    /\ \A p \in InviteDocs, fits \in BOOLEAN :
          C!InviteFixture(p, {}, {}, fits, TRUE) = "updated" <=> C!ValidInvite(p) /\ fits
=============================================================================
