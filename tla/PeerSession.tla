----------------------------- MODULE PeerSession -----------------------------
(***************************************************************************)
(* PeerSession (packages/core/src/peer-session.ts): the sessions of one    *)
(* room, each driving an RTCPeerConnection over a SignalingTransport.      *)
(*                                                                         *)
(* One action is one turn of the JavaScript event loop: an event handler,  *)
(* or a continuation from one await to the next. The awaits that matter    *)
(* are those on the peer connection's operations (the queue ops) and those *)
(* on publish() (the counters negotiating and closing).                    *)
(*                                                                         *)
(* The RTCPeerConnection, the DataChannel and the transport are external;  *)
(* they are modelled from what the code relies on: signalingState, one     *)
(* queue of operations per connection, implicit rollback, the              *)
(* negotiation-needed flag, channel and connection-state events.           *)
(***************************************************************************)
EXTENDS Integers, Sequences, FiniteSets, SequencesExt

CONSTANTS
    Inviter,        \* the session with role "inviter"
    Joiners,        \* the sessions with role "joiner"
    Changes,        \* bound: addLocalTrack/remove calls per peer, [Peers -> Nat]
    Closers,        \* bound: the peers whose user calls close()
    Candidates,     \* bound: ICE candidates gathered per peer
    MaxLost,        \* bound: publish() calls that fail
    LinkMayBreak,   \* the network path may fail
    InOrder,        \* the transport delivers a room's messages in order
    None            \* no peer, no offer, no exchange

Peers == {Inviter} \cup Joiners

ASSUME PeersAssumption == Inviter \notin Joiners /\ None \notin Peers
ASSUME BoundsAssumption ==
    /\ Changes \in [Peers -> Nat]
    /\ Closers \subseteq Peers
    /\ Candidates \in Nat
    /\ MaxLost \in Nat
    /\ LinkMayBreak \in BOOLEAN
    /\ InOrder \in BOOLEAN

VARIABLES
    \* the PeerSession object
    state,          \* currentState
    remote,         \* remotePeerId
    subscribed,     \* signalingUnsub is set
    makingOffer,
    ignoreOffer,
    negotiating,    \* runNegotiation calls that await their publish()
    closing,        \* close() calls that await the publish() of their bye
    \* its RTCPeerConnection and text channel (external)
    pc,             \* "none" before start(), "open", "closed"
    sig,            \* signalingState
    localOffer,     \* the pending local offer
    remoteOffer,    \* the pending remote offer
    ops,            \* the queue of operations, with what awaits each
    wanted,         \* local changes that need an offer/answer exchange
    covered,        \* those the last exchange has covered
    flag,           \* [[NegotiationNeeded]]: the event has fired
    offers,         \* offers created
    agreed,         \* the last completed exchange
    chan,           \* core.text: "none", "open", "closed"
    gathered,       \* ICE candidates gathered
    \* the network (external)
    mail,           \* signaling messages on their way to each peer
    lost,           \* publish() calls that failed
    linked,         \* joiners with a working path to the inviter
    broken,         \* joiners whose path has failed
    \* history
    overlapped      \* peers that have had two runNegotiation calls at once

session == <<state, remote, subscribed, makingOffer, ignoreOffer, negotiating, closing>>
rtc == <<pc, sig, localOffer, remoteOffer, ops, wanted, covered, flag, offers, agreed,
         chan, gathered>>
network == <<mail, lost, linked, broken>>
vars == <<session, rtc, network, overlapped>>

-----------------------------------------------------------------------------
(* Data *)

(* An offer's SDP: who made it, its number, and how many of the maker's local
   changes it covers. An answer's SDP names the offer it answers and its maker. *)
Offer(p, n, c) == [by |-> p, n |-> n, covers |-> c]
OfferSdp(o) == [type |-> "offer", offer |-> o, by |-> o.by]
AnswerSdp(p, o) == [type |-> "answer", offer |-> o, by |-> p]

OfferMsg(p, sdp) == [kind |-> "offer", from |-> p, to |-> None, sdp |-> sdp]
AnswerMsg(p, q, sdp) == [kind |-> "answer", from |-> p, to |-> q, sdp |-> sdp]
IceMsg(p, q) == [kind |-> "ice", from |-> p, to |-> q, sdp |-> None]
ByeMsg(p) == [kind |-> "bye", from |-> p, to |-> None, sdp |-> None]

(* Operations on the peer connection and the code that awaits them. *)
SetLocal(for) == [op |-> "setLocalDescription", for |-> for, sdp |-> None]
SetRemote(for, sdp) == [op |-> "setRemoteDescription", for |-> for, sdp |-> sdp]
AddIce == [op |-> "addIceCandidate", for |-> "ice", sdp |-> None]

(* Definitions named Slip_* are plausible mistakes: each replaces the definition
   it stands before to show that a property notices the difference. *)
Slip_Polite(p) == p = Inviter
Polite(p) == p # Inviter

-----------------------------------------------------------------------------
Init ==
    /\ state = [p \in Peers |-> "idle"]
    /\ remote = [p \in Peers |-> IF p = Inviter THEN None ELSE Inviter]
    /\ subscribed = [p \in Peers |-> FALSE]
    /\ makingOffer = [p \in Peers |-> FALSE]
    /\ ignoreOffer = [p \in Peers |-> FALSE]
    /\ negotiating = [p \in Peers |-> 0]
    /\ closing = [p \in Peers |-> 0]
    /\ pc = [p \in Peers |-> "none"]
    /\ sig = [p \in Peers |-> "stable"]
    /\ localOffer = [p \in Peers |-> None]
    /\ remoteOffer = [p \in Peers |-> None]
    /\ ops = [p \in Peers |-> <<>>]
    /\ wanted = [p \in Peers |-> 0]
    /\ covered = [p \in Peers |-> 0]
    /\ flag = [p \in Peers |-> FALSE]
    /\ offers = [p \in Peers |-> 0]
    /\ agreed = [p \in Peers |-> None]
    /\ chan = [p \in Peers |-> "none"]
    /\ gathered = [p \in Peers |-> 0]
    /\ mail = [p \in Peers |-> <<>>]
    /\ lost = 0
    /\ linked = {}
    /\ broken = {}
    /\ overlapped = {}

(* setState *)
SetState(p, s) == state' = [state EXCEPT ![p] = s]

(* signaling.publish: the message is on its way to every other subscriber of
   the room, or the call fails. The adapters hand a peer its own messages too;
   handleSignalingMessage drops those first thing. *)
Delivered(mb, p, m) == [q \in Peers |-> IF q = p THEN mb[q] ELSE Append(mb[q], m)]

Publish(p, m) ==
    \/ mail' = Delivered(mail, p, m) /\ UNCHANGED lost
    \/ lost < MaxLost /\ lost' = lost + 1 /\ UNCHANGED mail

Enqueue(p, op) == ops' = [ops EXCEPT ![p] = Append(@, op)]

-----------------------------------------------------------------------------
(* start(): the peer connection, the channels and the subscription are made in
   one turn. The inviter's two channels are a change that needs negotiation. *)
Start(p) ==
    /\ state[p] = "idle"
    /\ SetState(p, "connecting")
    /\ pc' = [pc EXCEPT ![p] = "open"]
    /\ subscribed' = [subscribed EXCEPT ![p] = TRUE]
    /\ wanted' = [wanted EXCEPT ![p] = IF p = Inviter THEN 1 ELSE 0]
    /\ UNCHANGED <<remote, makingOffer, ignoreOffer, negotiating, closing, sig,
                   localOffer, remoteOffer, ops, covered, flag, offers, agreed, chan,
                   gathered, network, overlapped>>

(* addLocalTrack, or remove() of a sender: another change to negotiate. *)
ChangeTracks(p) ==
    /\ state[p] \notin {"closed", "failed"}
    /\ pc[p] = "open"
    /\ wanted[p] < Changes[p] + (IF p = Inviter THEN 1 ELSE 0)
    /\ wanted' = [wanted EXCEPT ![p] = @ + 1]
    /\ UNCHANGED <<session, pc, sig, localOffer, remoteOffer, ops, covered, flag,
                   offers, agreed, chan, gathered, network, overlapped>>

(* pc.onnegotiationneeded, then runNegotiation up to its first await. *)
NegotiationNeeded(p) ==
    /\ pc[p] = "open"
    /\ sig[p] = "stable"
    /\ ops[p] = <<>>
    /\ covered[p] < wanted[p]
    /\ ~flag[p]
    /\ flag' = [flag EXCEPT ![p] = TRUE]
    /\ makingOffer' = [makingOffer EXCEPT ![p] = TRUE]
    /\ Enqueue(p, SetLocal("negotiation"))
    /\ overlapped' = IF negotiating[p] > 0 THEN overlapped \cup {p} ELSE overlapped
    /\ UNCHANGED <<state, remote, subscribed, ignoreOffer, negotiating, closing, pc,
                   sig, localOffer, remoteOffer, wanted, covered, offers, agreed, chan,
                   gathered, network>>

-----------------------------------------------------------------------------
(* The operation at the head of the queue completes; its continuation runs in
   the same turn. *)

(* setLocalDescription() with no argument makes an answer when a remote offer is
   pending, an offer otherwise. *)
MakesAnswer(p) == sig[p] = "have-remote-offer"

NewOffer(p) == Offer(p, offers[p] + 1, wanted[p])

CreateOffer(p) ==
    /\ sig' = [sig EXCEPT ![p] = "have-local-offer"]
    /\ localOffer' = [localOffer EXCEPT ![p] = NewOffer(p)]
    /\ offers' = [offers EXCEPT ![p] = @ + 1]
    /\ UNCHANGED <<remoteOffer, agreed, covered, flag>>

(* The answer may or may not cover what this side still wants to negotiate. *)
CreateAnswer(p) ==
    /\ sig' = [sig EXCEPT ![p] = "stable"]
    /\ agreed' = [agreed EXCEPT ![p] = [offer |-> remoteOffer[p], answerer |-> p]]
    /\ remoteOffer' = [remoteOffer EXCEPT ![p] = None]
    /\ \E c \in {covered[p], wanted[p]} : covered' = [covered EXCEPT ![p] = c]
    /\ flag' = [flag EXCEPT ![p] = FALSE]
    /\ UNCHANGED <<localOffer, offers>>

LocalSdp(p) ==
    IF MakesAnswer(p) THEN AnswerSdp(p, remoteOffer[p]) ELSE OfferSdp(NewOffer(p))

LocalDescriptionSet(p) == IF MakesAnswer(p) THEN CreateAnswer(p) ELSE CreateOffer(p)

(* runNegotiation after its first await: the local description is published as
   an offer. *)
OfferReady(p) ==
    /\ ops[p] # <<>>
    /\ Head(ops[p]) = SetLocal("negotiation")
    /\ LocalDescriptionSet(p)
    /\ ops' = [ops EXCEPT ![p] = Tail(@)]
    /\ Publish(p, OfferMsg(p, LocalSdp(p)))
    /\ negotiating' = [negotiating EXCEPT ![p] = @ + 1]
    /\ UNCHANGED <<state, remote, subscribed, makingOffer, ignoreOffer, closing, pc,
                   wanted, chan, gathered, linked, broken, overlapped>>

Slip_OfferPublished(p) ==
    /\ negotiating[p] > 0
    /\ negotiating' = [negotiating EXCEPT ![p] = @ - 1]
    /\ UNCHANGED <<state, remote, subscribed, makingOffer, ignoreOffer, closing, rtc,
                   network, overlapped>>

(* runNegotiation's finally, once publish() has settled either way. *)
OfferPublished(p) ==
    /\ negotiating[p] > 0
    /\ negotiating' = [negotiating EXCEPT ![p] = @ - 1]
    /\ makingOffer' = [makingOffer EXCEPT ![p] = FALSE]
    /\ UNCHANGED <<state, remote, subscribed, ignoreOffer, closing, rtc, network,
                   overlapped>>

(* Case "offer" after its first await: a pending local offer has been rolled
   back, and the answer is asked for. *)
RemoteOfferSet(p) ==
    /\ ops[p] # <<>>
    /\ Head(ops[p]).for = "offer"
    /\ sig' = [sig EXCEPT ![p] = "have-remote-offer"]
    /\ remoteOffer' = [remoteOffer EXCEPT ![p] = Head(ops[p]).sdp.offer]
    /\ localOffer' = [localOffer EXCEPT ![p] = None]
    /\ ops' = [ops EXCEPT ![p] = Append(Tail(@), SetLocal("answer"))]
    /\ UNCHANGED <<session, pc, wanted, covered, flag, offers, agreed, chan, gathered,
                   network, overlapped>>

(* Case "offer" after its second await: the local description is published as an
   answer. Nothing follows the publish. *)
AnswerReady(p) ==
    /\ ops[p] # <<>>
    /\ Head(ops[p]) = SetLocal("answer")
    /\ LocalDescriptionSet(p)
    /\ ops' = [ops EXCEPT ![p] = Tail(@)]
    /\ Publish(p, AnswerMsg(p, remote[p], LocalSdp(p)))
    /\ UNCHANGED <<session, pc, wanted, chan, gathered, linked, broken, overlapped>>

(* Case "answer": accepted with a pending local offer, else rejected and the
   error is at most reported. *)
RemoteAnswerSet(p) ==
    /\ ops[p] # <<>>
    /\ Head(ops[p]).for = "answer"
    /\ Head(ops[p]).op = "setRemoteDescription"
    /\ ops' = [ops EXCEPT ![p] = Tail(@)]
    /\ IF sig[p] = "have-local-offer"
       THEN /\ sig' = [sig EXCEPT ![p] = "stable"]
            /\ agreed' = [agreed EXCEPT ![p] = [offer |-> Head(ops[p]).sdp.offer,
                                                answerer |-> Head(ops[p]).sdp.by]]
            /\ covered' = [covered EXCEPT ![p] = localOffer[p].covers]
            /\ localOffer' = [localOffer EXCEPT ![p] = None]
            /\ flag' = [flag EXCEPT ![p] = FALSE]
       ELSE UNCHANGED <<sig, agreed, covered, localOffer, flag>>
    /\ UNCHANGED <<session, pc, remoteOffer, wanted, offers, chan, gathered, network,
                   overlapped>>

(* Case "ice": addIceCandidate has settled. *)
IceAdded(p) ==
    /\ ops[p] # <<>>
    /\ Head(ops[p]) = AddIce
    /\ ops' = [ops EXCEPT ![p] = Tail(@)]
    /\ UNCHANGED <<session, pc, sig, localOffer, remoteOffer, wanted, covered, flag,
                   offers, agreed, chan, gathered, network, overlapped>>

-----------------------------------------------------------------------------
(* pc.onicecandidate: without a known remote peer the candidate is dropped. *)
GatherIce(p) ==
    /\ pc[p] = "open"
    /\ offers[p] > 0 \/ agreed[p] # None
    /\ gathered[p] < Candidates
    /\ gathered' = [gathered EXCEPT ![p] = @ + 1]
    /\ IF remote[p] = None
       THEN UNCHANGED <<mail, lost>>
       ELSE Publish(p, IceMsg(p, remote[p]))
    /\ UNCHANGED <<session, pc, sig, localOffer, remoteOffer, ops, wanted, covered,
                   flag, offers, agreed, chan, linked, broken, overlapped>>

(* close(), up to the publish of its bye. From idle there is no bye, and nothing
   to release. *)
CloseNow(p, mb) ==
    /\ SetState(p, "closed")
    /\ IF state[p] = "idle"
       THEN mail' = mb /\ UNCHANGED <<closing, lost>>
       ELSE /\ closing' = [closing EXCEPT ![p] = @ + 1]
            /\ \/ mail' = Delivered(mb, p, ByeMsg(p)) /\ UNCHANGED lost
               \/ lost < MaxLost /\ lost' = lost + 1 /\ mail' = mb
    /\ UNCHANGED <<remote, subscribed, makingOffer, ignoreOffer, negotiating>>

Close(p) ==
    /\ p \in Closers
    /\ state[p] # "closed"
    /\ CloseNow(p, mail)
    /\ UNCHANGED <<rtc, linked, broken, overlapped>>

Slip_FinishClose(p) ==
    /\ closing[p] > 0
    /\ closing' = [closing EXCEPT ![p] = @ - 1]
    /\ subscribed' = [subscribed EXCEPT ![p] = FALSE]
    /\ mail' = [mail EXCEPT ![p] = <<>>]
    /\ UNCHANGED <<state, remote, makingOffer, ignoreOffer, negotiating, rtc, lost,
                   linked, broken, overlapped>>

(* close() after its await: the subscription, the channels and the peer
   connection go. Operations still pending on the connection never settle. *)
FinishClose(p) ==
    /\ closing[p] > 0
    /\ closing' = [closing EXCEPT ![p] = @ - 1]
    /\ subscribed' = [subscribed EXCEPT ![p] = FALSE]
    /\ mail' = [mail EXCEPT ![p] = <<>>]
    /\ pc' = [pc EXCEPT ![p] = "closed"]
    /\ ops' = [ops EXCEPT ![p] = <<>>]
    /\ chan' = [chan EXCEPT ![p] = "closed"]
    /\ UNCHANGED <<state, remote, makingOffer, ignoreOffer, negotiating, sig,
                   localOffer, remoteOffer, wanted, covered, flag, offers, agreed,
                   gathered, lost, linked, broken, overlapped>>

-----------------------------------------------------------------------------
(* handleSignalingMessage, up to its first await. *)

Slip_AcceptsAnyone(p, m) ==
    /\ m.kind \in {"answer", "ice"} => m.to = p
    /\ pc[p] = "open"

Slip_AcceptsAddressed(p, m) ==
    /\ remote[p] # None => m.from = remote[p]
    /\ m.to = p
    /\ pc[p] = "open"

Accepts(p, m) ==
    /\ remote[p] # None => m.from = remote[p]
    /\ m.kind \in {"answer", "ice"} => m.to = p
    /\ pc[p] = "open"

Slip_Collision(p) == FALSE
Collision(p) == makingOffer[p] \/ sig[p] \notin {"stable", "have-remote-offer"}

Slip_Lock(p, m) == UNCHANGED remote
Lock(p, m) == remote' = [remote EXCEPT ![p] = IF @ = None THEN m.from ELSE @]

RestOfMail(p, i) == [mail EXCEPT ![p] = RemoveAt(@, i)]

HandleOffer(p, m) ==
    /\ m.kind = "offer"
    /\ LET ignore == ~Polite(p) /\ Collision(p)
       IN  /\ ignoreOffer' = [ignoreOffer EXCEPT ![p] = ignore]
           /\ IF ignore
              THEN UNCHANGED <<remote, ops>>
              ELSE Lock(p, m) /\ Enqueue(p, SetRemote("offer", m.sdp))
    /\ UNCHANGED <<state, subscribed, makingOffer, negotiating, closing, lost>>

HandleAnswer(p, m) ==
    /\ m.kind = "answer"
    /\ Lock(p, m)
    /\ Enqueue(p, SetRemote("answer", m.sdp))
    /\ UNCHANGED <<state, subscribed, makingOffer, ignoreOffer, negotiating, closing,
                   lost>>

HandleIce(p, m) ==
    /\ m.kind = "ice"
    /\ Enqueue(p, AddIce)
    /\ UNCHANGED <<session, lost>>

Slip_HandleBye(p, m, mb) ==
    /\ m.kind = "bye"
    /\ IF state[p] # "connected"
       THEN mail' = mb /\ UNCHANGED <<session, lost>>
       ELSE CloseNow(p, mb)
    /\ UNCHANGED ops

HandleBye(p, m, mb) ==
    /\ m.kind = "bye"
    /\ IF state[p] = "closed"
       THEN mail' = mb /\ UNCHANGED <<session, lost>>
       ELSE CloseNow(p, mb)
    /\ UNCHANGED ops

HandleSignalingMessage(p, i) ==
    LET m == mail[p][i]
        mb == RestOfMail(p, i)
    IN  /\ IF Accepts(p, m)
           THEN \/ HandleOffer(p, m) /\ mail' = mb
                \/ HandleAnswer(p, m) /\ mail' = mb
                \/ HandleIce(p, m) /\ mail' = mb
                \/ HandleBye(p, m, mb)
           ELSE mail' = mb /\ UNCHANGED <<session, ops, lost>>
        /\ UNCHANGED <<pc, sig, localOffer, remoteOffer, wanted, covered, flag, offers,
                       agreed, chan, gathered, linked, broken, overlapped>>

Deliver(p) ==
    /\ subscribed[p]
    /\ \E i \in DOMAIN mail[p] :
          /\ InOrder => i = 1
          /\ HandleSignalingMessage(p, i)

-----------------------------------------------------------------------------
(* The network and the channel (external). *)

(* Two connections that have completed the same exchange, the one that covers
   the inviter's channels, find a path. *)
Connect(j) ==
    /\ j \notin linked \cup broken
    /\ pc[j] = "open" /\ pc[Inviter] = "open"
    /\ agreed[j] # None /\ agreed[j] = agreed[Inviter]
    /\ covered[Inviter] > 0
    /\ linked' = linked \cup {j}
    /\ UNCHANGED <<session, rtc, mail, lost, broken, overlapped>>

Break(j) ==
    /\ LinkMayBreak
    /\ j \notin broken
    /\ broken' = broken \cup {j}
    /\ linked' = linked \ {j}
    /\ UNCHANGED <<session, rtc, mail, lost, overlapped>>

HasPath(p) == IF p = Inviter THEN remote[p] \in linked ELSE p \in linked
PathGone(p) ==
    /\ remote[p] # None
    /\ \/ pc[remote[p]] = "closed"
       \/ (IF p = Inviter THEN remote[p] ELSE p) \in broken

(* channel.onopen *)
ChannelOpen(p) ==
    /\ pc[p] = "open"
    /\ chan[p] = "none"
    /\ HasPath(p)
    /\ chan' = [chan EXCEPT ![p] = "open"]
    /\ SetState(p, "connected")
    /\ UNCHANGED <<remote, subscribed, makingOffer, ignoreOffer, negotiating, closing,
                   pc, sig, localOffer, remoteOffer, ops, wanted, covered, flag, offers,
                   agreed, gathered, network, overlapped>>

(* channel.onclose, after the other end has closed or the path has failed *)
ChannelClose(p) ==
    /\ pc[p] = "open"
    /\ chan[p] = "open"
    /\ PathGone(p)
    /\ chan' = [chan EXCEPT ![p] = "closed"]
    /\ SetState(p, "closed")
    /\ UNCHANGED <<remote, subscribed, makingOffer, ignoreOffer, negotiating, closing,
                   pc, sig, localOffer, remoteOffer, ops, wanted, covered, flag, offers,
                   agreed, gathered, network, overlapped>>

(* pc.onconnectionstatechange with connectionState "failed" *)
ConnectionFailed(p) ==
    /\ pc[p] = "open"
    /\ agreed[p] # None
    /\ PathGone(p)
    /\ state[p] \notin {"closed", "failed"}
    /\ SetState(p, "failed")
    /\ UNCHANGED <<remote, subscribed, makingOffer, ignoreOffer, negotiating, closing,
                   rtc, network, overlapped>>

-----------------------------------------------------------------------------
(* What the event loops, the peer connection and the transport get done. *)
SessionStep(p) ==
    \/ NegotiationNeeded(p)
    \/ OfferReady(p)
    \/ OfferPublished(p)
    \/ RemoteOfferSet(p)
    \/ AnswerReady(p)
    \/ RemoteAnswerSet(p)
    \/ IceAdded(p)
    \/ FinishClose(p)
    \/ Deliver(p)
    \/ ChannelOpen(p)

UserStep(p) == Start(p) \/ ChangeTracks(p) \/ Close(p)

(* What happens to a connection from outside. *)
EnvStep(p) == GatherIce(p) \/ ChannelClose(p) \/ ConnectionFailed(p)

Next ==
    \/ \E p \in Peers : SessionStep(p) \/ UserStep(p) \/ EnvStep(p)
    \/ \E j \in Joiners : Connect(j) \/ Break(j)

Spec == Init /\ [][Next]_vars

(* The event loop runs every callback that is due: queued operations complete,
   publish() settles, messages arrive, a working path opens the channel. Nothing
   obliges a user, or the path to fail. *)
Fairness ==
    /\ \A p \in Peers :
          /\ WF_vars(NegotiationNeeded(p))
          /\ WF_vars(OfferReady(p) \/ RemoteOfferSet(p) \/ AnswerReady(p)
                     \/ RemoteAnswerSet(p) \/ IceAdded(p))
          /\ WF_vars(OfferPublished(p))
          /\ WF_vars(FinishClose(p))
          /\ WF_vars(Deliver(p))
          /\ WF_vars(ChannelOpen(p))
    /\ \A j \in Joiners : WF_vars(Connect(j))

FairSpec == Spec /\ Fairness

-----------------------------------------------------------------------------
(* Types *)

OfferId == [by: Peers, n: Nat, covers: Nat]
Sdp == [type: {"offer", "answer"}, offer: OfferId, by: Peers]
Message ==
    [kind: {"offer"}, from: Peers, to: {None}, sdp: Sdp]
    \cup [kind: {"answer"}, from: Peers, to: Peers, sdp: Sdp]
    \cup [kind: {"ice"}, from: Peers, to: Peers, sdp: {None}]
    \cup [kind: {"bye"}, from: Peers, to: {None}, sdp: {None}]
Operation ==
    [op: {"setLocalDescription"}, for: {"negotiation", "answer"}, sdp: {None}]
    \cup [op: {"setRemoteDescription"}, for: {"offer", "answer"}, sdp: Sdp]
    \cup [op: {"addIceCandidate"}, for: {"ice"}, sdp: {None}]

SessionTypes ==
    /\ state \in [Peers -> {"idle", "connecting", "connected", "closed", "failed"}]
    /\ remote \in [Peers -> Peers \cup {None}]
    /\ subscribed \in [Peers -> BOOLEAN]
    /\ makingOffer \in [Peers -> BOOLEAN]
    /\ ignoreOffer \in [Peers -> BOOLEAN]
    /\ negotiating \in [Peers -> Nat]
    /\ closing \in [Peers -> Nat]

ConnectionTypes ==
    /\ pc \in [Peers -> {"none", "open", "closed"}]
    /\ sig \in [Peers -> {"stable", "have-local-offer", "have-remote-offer"}]
    /\ localOffer \in [Peers -> OfferId \cup {None}]
    /\ remoteOffer \in [Peers -> OfferId \cup {None}]
    /\ ops \in [Peers -> Seq(Operation)]
    /\ agreed \in [Peers -> [offer: OfferId, answerer: Peers] \cup {None}]

CounterTypes ==
    /\ wanted \in [Peers -> Nat]
    /\ covered \in [Peers -> Nat]
    /\ flag \in [Peers -> BOOLEAN]
    /\ offers \in [Peers -> Nat]
    /\ chan \in [Peers -> {"none", "open", "closed"}]
    /\ gathered \in [Peers -> Nat]
    /\ overlapped \subseteq Peers

NetworkTypes ==
    /\ mail \in [Peers -> Seq(Message)]
    /\ lost \in Nat
    /\ linked \subseteq Joiners
    /\ broken \subseteq Joiners

(* Every variable has its type: whatever arrives in whatever order, a session
   never answers an offer it does not have, nor addresses an answer to nobody. *)
TypeOK == SessionTypes /\ ConnectionTypes /\ CounterTypes /\ NetworkTypes

-----------------------------------------------------------------------------
(* Negotiation *)

(* What is published as an offer is an offer and what is published as an answer
   is an answer: setLocalDescription() without an argument picks the type by
   itself, and the kind of the message is fixed by the handler that awaits it. *)
KindMatchesSdp ==
    \A p \in Peers : \A i \in DOMAIN mail[p] :
        mail[p][i].kind \in {"offer", "answer"} => mail[p][i].sdp.type = mail[p][i].kind

(* An answer is only ever applied to the offer it answers. Violated once two
   negotiations of the inviter overlap. *)
NoCrossedAnswer ==
    [][\A p \in Peers :
          localOffer[p] # None /\ agreed'[p] # agreed[p]
              => agreed'[p].offer = localOffer[p]]_vars

(* What does hold: an answer is applied to the offer it answers, unless two
   negotiations of the inviter have overlapped. What follows a rollback of the
   inviter's is an offer of its that a joiner answers although it has been given up,
   and the answer is taken for one to the next (handleSignalingMessage). *)
CrossedOnlyOverlapped ==
    [][\A p \in Peers :
          localOffer[p] # None /\ agreed'[p] # agreed[p]
              => agreed'[p].offer = localOffer[p] \/ Inviter \in overlapped]_vars

NegotiationQueued(p) == \E i \in DOMAIN ops[p] : ops[p][i] = SetLocal("negotiation")

(* makingOffer is never left set: while it holds, a local description is being
   made or its offer is being published. (An inviter stuck with it would ignore
   every offer from then on.) *)
MakingOfferHeld ==
    \A p \in Peers : makingOffer[p] /\ pc[p] = "open" =>
        negotiating[p] > 0 \/ NegotiationQueued(p)

(* Perfect negotiation: only the polite side gives up an offer of its own; the
   inviter's pending offer ends by being answered. Violated like NoCrossedAnswer. *)
ImpoliteNeverRollsBack ==
    [][localOffer[Inviter] # None /\ localOffer'[Inviter] # localOffer[Inviter]
          => sig'[Inviter] = "stable"]_vars

(* What does hold ("impolite peer (inviter) ignores incoming offers during its own
   makingOffer", peer-session.ts:193): the inviter gives up a pending offer for a
   joiner's only after two of its negotiations have overlapped, the second having
   begun while the first still awaits its publish(); the first's finally then
   clears makingOffer while the second makes its offer. *)
RollsBackOnlyOverlapped ==
    [][localOffer[Inviter] # None /\ localOffer'[Inviter] # localOffer[Inviter]
          => sig'[Inviter] = "stable" \/ Inviter \in overlapped]_vars

(* When nothing is left to happen between open connections, no offer is left
   without an answer: every connection is stable and all agree on the last
   exchange. Violated: a joiner's offer that arrives while the inviter still
   applies an answer is taken for a collision and never sent again. *)
Quiet ==
    \A p \in Peers :
        /\ mail[p] = <<>> /\ ops[p] = <<>> /\ negotiating[p] = 0
        /\ covered[p] = wanted[p] \/ flag[p]

NegotiationSettles ==
    (/\ Quiet
     /\ lost = 0
     /\ \A p \in Peers : pc[p] = "open")
    => \A p, q \in Peers : sig[p] = "stable" /\ agreed[p] = agreed[q]

(* Every exchange a session takes part in is with the one remote peer it is
   locked to, however many joiners answer the inviter's broadcast offer; so at
   most one joiner ever reaches "connected". *)
ExchangesStayInPair ==
    /\ \A p \in Peers : agreed[p] # None =>
          LET parties == {agreed[p].offer.by, agreed[p].answerer}
          IN  remote[p] \in parties /\ parties \subseteq {p, remote[p]}
    /\ \A j \in Joiners : state[j] = "connected" => remote[Inviter] = j

-----------------------------------------------------------------------------
(* Lifecycle *)

(* Only a channel that opens while close() still awaits the publish of its bye
   can bring a closed session back; a session that is closed for good, or was
   closed before it started, stays closed. *)
ReopensOnlyWhileClosing ==
    [][\A p \in Peers : state[p] = "closed" /\ state'[p] # "closed" => closing[p] > 0]_vars

(* The session has started and has let go of its subscription again. *)
Released(p) == pc[p] # "none" /\ ~subscribed[p]

Publishes(p) ==
    \E q \in Peers : /\ mail[q] # mail'[q]
                     /\ mail'[q] # <<>>
                     /\ Len(mail'[q]) > Len(mail[q])
                     /\ mail'[q][Len(mail'[q])].from = p
                     /\ mail'[q][Len(mail'[q])].kind # "bye"

(* No continuation of a negotiation survives close(): a session that has been
   released publishes no offer, answer or candidate any more. *)
NothingAfterRelease == [][\A p \in Peers : Released(p) => ~Publishes(p)]_vars

(* close() leaves nothing behind ("MUST stop the peer connection, close the
   DataChannel, and release the signaling subscription", docs/peer-session-spec.md):
   a session that is closed, with no close() under way, has no open connection.
   A further close() would return at once, so nothing else could release it. *)
CloseReleases ==
    \A p \in Peers : state[p] = "closed" /\ closing[p] = 0 => pc[p] # "open"

(* A close() that has begun ends with the connection closed. *)
CloseCompletes == \A p \in Peers : closing[p] > 0 ~> pc[p] = "closed"

(* A session whose remote peer says bye closes too, unless a publish() has failed,
   which may have been the bye: it reports "closed", or is closed already (it may
   then report "connected", see ReopensOnlyWhileClosing). *)
ByeClosesPartner ==
    \A p \in Peers : \A q \in Peers \ {p} :
        closing[p] > 0 /\ remote[q] = p /\ pc[q] = "open"
            ~> state[q] = "closed" \/ pc[q] = "closed" \/ lost > 0

(* The ordinary case: once the inviter and a joiner have started, and unless
   somebody closes, the inviter and the joiner it has locked to both connect. *)
Disrupted == \E p \in Peers : state[p] \in {"closed", "failed"}

FirstConnection ==
    (pc[Inviter] = "open" /\ \E j \in Joiners : pc[j] = "open")
    ~> \/ Disrupted
       \/ /\ state[Inviter] = "connected"
          /\ \E j \in Joiners : remote[Inviter] = j /\ state[j] = "connected"

=============================================================================
