------------------------------- MODULE Codecs -------------------------------
(***************************************************************************)
(* What packages/protocol/src builds and accepts: ids, envelopes,          *)
(* signaling bundles, invites and the links that carry them; and the       *)
(* fixture checks of scripts/validate-bundle.ts and validate-invite.ts.    *)
(*                                                                         *)
(* A document is a function from the names of its fields to their values,  *)
(* "bad" standing for any value the validator refuses. A call that may     *)
(* throw returns a set: of its result, or empty. Text is wrapped by each   *)
(* conversion it has gone through, and only what is so wrapped is          *)
(* unwrapped.                                                              *)
(***************************************************************************)
EXTENDS Integers, Sequences, SequencesExt, FiniteSetsExt

Sound(doc) == \A f \in DOMAIN doc : doc[f] # "bad"

-----------------------------------------------------------------------------
(* Ids, as sequences of base32 digits, from sequences of bits.              *)

FromBits(bits) == SumSet({2 ^ (Len(bits) - i) : i \in {j \in DOMAIN bits : bits[j] = 1}})

Base32(bits) == [d \in 1 .. (Len(bits) \div 5) |-> FromBits(SubSeq(bits, 5 * d - 4, 5 * d))]

(* newRoomId(): 128 random bits, shifted to fill 26 digits.                 *)
RoomIdOf(random) == Base32(random \o <<0, 0>>)

(* newPeerId(): a ULID, 48 bits of the clock in ten digits and 80 random    *)
(* bits in sixteen.                                                         *)
PeerIdOf(clock, random) == Base32(<<0, 0>> \o clock) \o Base32(random)

(* isRoomId() and isPeerId() are one pattern.                               *)
IsId(s) == Len(s) = 26 /\ \A i \in 1 .. 26 : s[i] \in 0 .. 31

-----------------------------------------------------------------------------
(* Validators.                                                              *)

MessageFields ==
    [offer |-> {"kind", "from", "sdp"}, answer |-> {"kind", "from", "to", "sdp"},
     ice |-> {"kind", "from", "to", "candidate"}, bye |-> {"kind", "from"}]

ValidMessage(m) ==
    /\ "kind" \in DOMAIN m /\ m.kind \in DOMAIN MessageFields
    /\ DOMAIN m = MessageFields[m.kind] /\ Sound(m)

ValidBundle(b) ==
    /\ DOMAIN b = {"v", "roomId", "messages"}
    /\ b.v # "bad" /\ b.roomId # "bad"
    /\ b.messages # <<>> /\ \A i \in DOMAIN b.messages : ValidMessage(b.messages[i])

ValidInvite(p) ==
    LET required == {"v", "roomId", "from", "protocolVersion", "capabilities"} IN
    /\ required \subseteq DOMAIN p /\ DOMAIN p \subseteq required \cup {"note"}
    /\ Sound(p)

(* tryParseAddonEnvelope(): other fields are dropped, the payload is any.   *)
EnvelopeFields == {"kind", "id", "addon", "version", "createdAt", "payload"}

ParsedEnvelope(e) ==
    {[f \in EnvelopeFields |-> e[f]] :
        x \in {y \in {"envelope"} : EnvelopeFields \subseteq DOMAIN e
                                    /\ \A f \in EnvelopeFields \ {"payload"} : e[f] # "bad"}}

-----------------------------------------------------------------------------
(* base64url.                                                               *)

Groups(s, n) ==
    [i \in 1 .. ((Len(s) + n - 1) \div n) |-> SubSeq(s, n * (i - 1) + 1, Min({n * i, Len(s)}))]

Padded(g, n) == [i \in 1 .. n |-> IF i <= Len(g) THEN g[i] ELSE 0]

(* base64urlEncode(), three bytes to four digits, a rest of n to n + 1.     *)
Base64(bytes) ==
    LET digits(g) ==
            LET b == Padded(g, 3)
            IN  SubSeq(<<b[1] \div 4, (b[1] % 4) * 16 + b[2] \div 16,
                         (b[2] % 16) * 4 + b[3] \div 64, b[3] % 64>>, 1, Len(g) + 1)
    IN  FlattenSeq([i \in DOMAIN Groups(bytes, 3) |-> digits(Groups(bytes, 3)[i])])

(* base64urlDecode(); spare bits of the last digit are not looked at.       *)
Unbase64(digits) ==
    LET bytes(g) ==
            LET d == Padded(g, 4)
            IN  SubSeq(<<(d[1] * 4 + d[2] \div 16) % 256, ((d[2] % 16) * 16 + d[3] \div 4) % 256,
                         ((d[3] % 4) * 64 + d[4]) % 256>>, 1, Len(g) - 1)
    IN  {FlattenSeq([i \in DOMAIN Groups(digits, 4) |-> bytes(Groups(digits, 4)[i])]) :
            x \in {y \in {"bytes"} : Len(digits) % 4 # 1
                                     /\ \A i \in DOMAIN digits : digits[i] \in 0 .. 63}}

-----------------------------------------------------------------------------
(* Encoding: JSON, UTF-8 and deflate are the platform's, here one wrapping. *)

Wrapped(doc) == [deflated |-> doc]
Unwrapped(text) == IF "deflated" \in DOMAIN text THEN {text.deflated} ELSE {}

EncodeInvite(p) == IF ValidInvite(p) THEN {Wrapped(p)} ELSE {}
DecodeInvite(text) == {p \in Unwrapped(text) : ValidInvite(p)}
EncodeBundle(b) == IF ValidBundle(b) THEN {Wrapped(b)} ELSE {}
DecodeBundle(text) == {b \in Unwrapped(text) : ValidBundle(b)}

-----------------------------------------------------------------------------
(* Links: scheme, host and a fragment, a sequence of keys and texts.        *)

AllowedScheme(base) ==
    \/ base.scheme \in {"https", "file"}
    \/ base.scheme = "http" /\ base.host = "loopback"

OfOnePeer(p, b) == b.roomId = p.roomId /\ \A i \in DOMAIN b.messages : b.messages[i].from = p.from

Link(base, fragment) == [scheme |-> base.scheme, host |-> base.host, fragment |-> fragment]

(* buildInviteUrl(); fits: the link is no longer than 2048 characters.      *)
InviteLink(base, p, fits) ==
    {Link(base, <<<<"i", text>>>>) : text \in {t \in EncodeInvite(p) : AllowedScheme(base) /\ fits}}

(* buildInviteBundleUrl()                                                   *)
InviteBundleLink(base, p, b, fits) ==
    {Link(base, <<<<"i", texts[1]>>, <<"s", texts[2]>>>>) :
        texts \in {t \in EncodeInvite(p) \X EncodeBundle(b) :
                      OfOnePeer(p, b) /\ AllowedScheme(base) /\ fits}}

(* URLSearchParams.get(): the first value of a key.                         *)
Param(link, key) ==
    LET at == {i \in DOMAIN link.fragment : link.fragment[i][1] = key}
    IN  IF at = {} THEN {} ELSE {link.fragment[Min(at)][2]}

(* extractBundleFromUrl()                                                   *)
BundleOf(link) == UNION {DecodeBundle(text) : text \in Param(link, "s")}

(* parseInviteUrl()                                                         *)
InviteOf(link) == UNION {DecodeInvite(text) : text \in Param(link, "i")}

(* parseInviteBundleUrl(): the pair of an invite and its bundle, <<>> if    *)
(* there is none. Neither the scheme nor the length is looked at.           *)
InviteBundleOf(link) ==
    IF \E i \in DOMAIN link.fragment : link.fragment[i][1] \notin {"i", "s"} THEN {}
    ELSE IF Param(link, "s") = {} THEN {<<p, <<>>>> : p \in InviteOf(link)}
    ELSE {pair \in InviteOf(link) \X BundleOf(link) : OfOnePeer(pair[1], pair[2])}

-----------------------------------------------------------------------------
(* The fixture checks: a document, its expected encoding (a set, empty if   *)
(* the file is missing) and whether --update was given.                     *)

FixtureOutcome(doc, encode(_), decode(_), expected, update) ==
    IF encode(doc) = {} THEN "schema"
    ELSE IF \E text \in encode(doc) : decode(text) # {doc} THEN "round trip"
    ELSE IF update THEN "updated"
    ELSE IF expected = {} THEN "missing"
    ELSE IF expected # encode(doc) THEN "drifted"
    ELSE "ok"

(* validate-bundle.ts *)
BundleFixture(b, expected, update) == FixtureOutcome(b, EncodeBundle, DecodeBundle, expected, update)

(* validate-invite.ts, whose links to https://senn.example are compared as  *)
(* well. *)
InviteFixture(p, expected, expectedLinks, fits, update) ==
    LET base == [scheme |-> "https", host |-> "senn.example"]
        outcome == FixtureOutcome(p, EncodeInvite, DecodeInvite, expected, update)
    IN  IF outcome # "schema" /\ ~fits THEN "too long"
        ELSE IF outcome = "ok" /\ expectedLinks # InviteLink(base, p, fits) THEN "drifted"
        ELSE outcome

=============================================================================
