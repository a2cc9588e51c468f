-------------------------- MODULE PeerSessionProofs --------------------------
(* Theorems about PeerSession, for every set of joiners and every bound. *)
EXTENDS PeerSession, SequenceTheorems, TLAPS

(* A pending description has an offer behind it, and a session that works on a
   remote description knows whose it is. *)
Pending ==
    \A p \in Peers :
        /\ sig[p] = "have-local-offer" => localOffer[p] \in OfferId
        /\ sig[p] = "have-remote-offer" => remoteOffer[p] \in OfferId
        /\ \A i \in DOMAIN ops[p] : ops[p][i].for \in {"offer", "answer"} => remote[p] \in Peers

(* How the state of a session goes with that of its connection. *)
Lifecycle ==
    \A p \in Peers :
        /\ state[p] = "idle" => pc[p] = "none"
        /\ pc[p] = "none" => /\ state[p] \in {"idle", "closed"}
                             /\ ~subscribed[p] /\ ops[p] = <<>> /\ closing[p] = 0
                             /\ chan[p] = "none"
        /\ pc[p] = "open" => subscribed[p]
        /\ pc[p] = "closed" => ~subscribed[p] /\ ops[p] = <<>>
        /\ pc[p] = "open" /\ state[p] = "closed" /\ chan[p] = "none" => closing[p] > 0

(* A session that has not started makes no offer. *)
Fresh == \A p \in Peers : pc[p] = "none" => ~makingOffer[p]

(* The inductive invariant. *)
IInv == TypeOK /\ Pending /\ Lifecycle /\ Fresh /\ MakingOfferHeld

-----------------------------------------------------------------------------
(* What RemoveAt returns. *)
LEMMA Removed ==
    ASSUME NEW S, NEW s \in Seq(S), NEW i \in DOMAIN s
    PROVE  /\ RemoveAt(s, i) \in Seq(S)
           /\ Len(RemoveAt(s, i)) = Len(s) - 1
<1>1. i \in 1..Len(s) /\ Len(s) \in Nat
  OBVIOUS
<1>2. SubSeq(s, 1, i - 1) \in Seq(S) /\ Len(SubSeq(s, 1, i - 1)) = i - 1
  BY <1>1
<1>3. SubSeq(s, i + 1, Len(s)) \in Seq(S) /\ Len(SubSeq(s, i + 1, Len(s))) = Len(s) - i
  BY <1>1
<1>4. /\ SubSeq(s, 1, i - 1) \o SubSeq(s, i + 1, Len(s)) \in Seq(S)
      /\ Len(SubSeq(s, 1, i - 1) \o SubSeq(s, i + 1, Len(s))) = (i - 1) + (Len(s) - i)
  BY <1>2, <1>3, ConcatProperties
<1>5. (i - 1) + (Len(s) - i) = Len(s) - 1
  BY <1>1
<1> QED
  BY <1>4, <1>5 DEF RemoveAt

(* The messages a session publishes are well formed. *)
LEMMA MessageTypes ==
    /\ \A p \in Peers : \A sdp \in Sdp : OfferMsg(p, sdp) \in Message
    /\ \A p, q \in Peers : \A sdp \in Sdp : AnswerMsg(p, q, sdp) \in Message
    /\ \A p, q \in Peers : IceMsg(p, q) \in Message
    /\ \A p \in Peers : ByeMsg(p) \in Message
BY DEF Message, OfferMsg, AnswerMsg, IceMsg, ByeMsg

Mailboxes == [Peers -> Seq(Message)]

(* Publishing keeps mailboxes well formed. *)
LEMMA DeliveredType ==
    ASSUME NEW mb \in Mailboxes, NEW p \in Peers, NEW m \in Message
    PROVE  Delivered(mb, p, m) \in Mailboxes
BY DEF Mailboxes, Delivered

(* Queueing an operation keeps the queue well formed. *)
LEMMA OperationTypes ==
    /\ SetLocal("negotiation") \in Operation /\ SetLocal("answer") \in Operation
    /\ \A sdp \in Sdp : SetRemote("offer", sdp) \in Operation
    /\ \A sdp \in Sdp : SetRemote("answer", sdp) \in Operation
    /\ AddIce \in Operation
BY DEF Operation, SetLocal, SetRemote, AddIce

(* The head of a queue of operations, and what is left of it. *)
LEMMA QueueHead ==
    ASSUME TypeOK, NEW p \in Peers, ops[p] # <<>>
    PROVE  /\ Head(ops[p]) \in Operation
           /\ Head(ops[p]) = ops[p][1] /\ 1 \in DOMAIN ops[p]
           /\ Tail(ops[p]) \in Seq(Operation)
           /\ \A i \in DOMAIN Tail(ops[p]) :
                 i + 1 \in DOMAIN ops[p] /\ Tail(ops[p])[i] = ops[p][i + 1]
<1>1. ops[p] \in Seq(Operation)
  BY DEF TypeOK, ConnectionTypes
<1> QED
  BY <1>1

(* The offer a session makes, and the description it publishes. *)
LEMMA SdpTypes ==
    ASSUME TypeOK, Pending, NEW p \in Peers
    PROVE  /\ NewOffer(p) \in OfferId
           /\ LocalSdp(p) \in Sdp
<1>1. offers[p] + 1 \in Nat /\ wanted[p] \in Nat
  BY DEF TypeOK, CounterTypes
<1>2. NewOffer(p) \in OfferId
  BY <1>1 DEF NewOffer, Offer, OfferId
<1>3. CASE MakesAnswer(p)
  <2>1. remoteOffer[p] \in OfferId
    BY <1>3 DEF MakesAnswer, Pending
  <2> QED
    BY <1>2, <1>3, <2>1 DEF LocalSdp, AnswerSdp, Sdp
<1>4. CASE ~MakesAnswer(p)
  <2>1. NewOffer(p).by \in Peers
    BY DEF NewOffer, Offer
  <2> QED
    BY <1>2, <1>4, <2>1 DEF LocalSdp, OfferSdp, Sdp
<1> QED
  BY <1>2, <1>3, <1>4

-----------------------------------------------------------------------------
(* Each action keeps the types and the descriptions behind them. *)
LEMMA Initially == Init => IInv
<1> SUFFICES ASSUME Init PROVE IInv
  OBVIOUS
<1>1. Inviter \in Peers /\ \A p \in Peers : p # Inviter => p \in Joiners
  BY DEF Peers
<1>2. TypeOK
  BY <1>1 DEF Init, TypeOK, SessionTypes, ConnectionTypes, CounterTypes, NetworkTypes
<1>3. Pending
  BY DEF Init, Pending
<1>4. Lifecycle
  BY DEF Init, Lifecycle
<1>5. MakingOfferHeld /\ Fresh
  BY DEF Init, MakingOfferHeld, Fresh
<1> QED
  BY <1>2, <1>3, <1>4, <1>5 DEF IInv

-----------------------------------------------------------------------------
(* The parts several actions share. *)

(* A publish(), which succeeds or fails, leaves mailboxes of well-formed messages. *)
LEMMA PublishType ==
    ASSUME TypeOK, NEW p \in Peers, NEW m \in Message, Publish(p, m)
    PROVE  mail' \in [Peers -> Seq(Message)] /\ lost' \in Nat
<1>1. mail \in Mailboxes /\ lost \in Nat
  BY DEF TypeOK, NetworkTypes, Mailboxes
<1>2. Delivered(mail, p, m) \in Mailboxes
  BY <1>1, DeliveredType
<1> QED
  BY <1>1, <1>2 DEF Publish, Mailboxes

(* Chaining an operation on the connection keeps every queue well formed. *)
LEMMA EnqueueType ==
    ASSUME TypeOK, NEW p \in Peers, NEW op \in Operation, Enqueue(p, op)
    PROVE  ops' \in [Peers -> Seq(Operation)]
<1>1. ops \in [Peers -> Seq(Operation)]
  BY DEF TypeOK, ConnectionTypes
<1>2. Append(ops[p], op) \in Seq(Operation)
  BY <1>1
<1> QED
  BY <1>1, <1>2 DEF Enqueue

(* So does the completion of the operation at the head. *)
LEMMA DequeueType ==
    ASSUME TypeOK, NEW p \in Peers, ops[p] # <<>>, ops' = [ops EXCEPT ![p] = Tail(@)]
    PROVE  ops' \in [Peers -> Seq(Operation)]
<1>1. ops \in [Peers -> Seq(Operation)]
  BY DEF TypeOK, ConnectionTypes
<1> QED
  BY <1>1, QueueHead

(* setLocalDescription() leaves a well-formed connection, whichever of an offer and
   an answer it makes: an answer is made only with a remote offer there. *)
LEMMA LocalDescriptionTypes ==
    ASSUME TypeOK, Pending, NEW p \in Peers, LocalDescriptionSet(p)
    PROVE  /\ sig' \in [Peers -> {"stable", "have-local-offer", "have-remote-offer"}]
           /\ localOffer' \in [Peers -> OfferId \cup {None}]
           /\ remoteOffer' \in [Peers -> OfferId \cup {None}]
           /\ agreed' \in [Peers -> [offer: OfferId, answerer: Peers] \cup {None}]
           /\ covered' \in [Peers -> Nat]
           /\ flag' \in [Peers -> BOOLEAN]
           /\ offers' \in [Peers -> Nat]
<1>1. CASE MakesAnswer(p)
  <2>1. CreateAnswer(p)
    BY <1>1 DEF LocalDescriptionSet
  <2>2. remoteOffer[p] \in OfferId
    BY <1>1 DEF MakesAnswer, Pending
  <2>3. [offer |-> remoteOffer[p], answerer |-> p] \in [offer: OfferId, answerer: Peers]
    BY <2>2
  <2> QED
    BY <2>1, <2>3 DEF CreateAnswer, TypeOK, ConnectionTypes, CounterTypes
<1>2. CASE ~MakesAnswer(p)
  <2>1. CreateOffer(p)
    BY <1>2 DEF LocalDescriptionSet
  <2>2. NewOffer(p) \in OfferId
    BY SdpTypes
  <2> QED
    BY <2>1, <2>2 DEF CreateOffer, TypeOK, ConnectionTypes, CounterTypes
<1> QED
  BY <1>1, <1>2

(* The first half of close() keeps the session and the mailboxes well formed. *)
LEMMA CloseNowType ==
    ASSUME TypeOK, NEW p \in Peers, NEW mb \in Mailboxes, CloseNow(p, mb)
    PROVE  SessionTypes' /\ mail' \in [Peers -> Seq(Message)] /\ lost' \in Nat
<1>1. Delivered(mb, p, ByeMsg(p)) \in Mailboxes
  BY MessageTypes, DeliveredType
<1>2. SessionTypes'
  BY DEF CloseNow, SetState, TypeOK, SessionTypes
<1>3. mail' \in [Peers -> Seq(Message)] /\ lost' \in Nat
  BY <1>1 DEF CloseNow, Mailboxes, TypeOK, NetworkTypes
<1> QED
  BY <1>2, <1>3

(* Handling a message keeps the types. *)
LEMMA HandledTypes ==
    ASSUME TypeOK, NEW p \in Peers, NEW i \in DOMAIN mail[p], HandleSignalingMessage(p, i)
    PROVE  TypeOK'
<1> DEFINE m == mail[p][i]
           mb == RestOfMail(p, i)
<1>1. m \in Message /\ mb \in Mailboxes
  <2>1. mail[p] \in Seq(Message) /\ mail \in [Peers -> Seq(Message)]
    BY DEF TypeOK, NetworkTypes
  <2>2. RemoveAt(mail[p], i) \in Seq(Message)
    BY <2>1, Removed
  <2> QED
    BY <2>1, <2>2 DEF RestOfMail, Mailboxes
<1>2. /\ UNCHANGED <<pc, sig, localOffer, remoteOffer, agreed>>
      /\ UNCHANGED <<wanted, covered, flag, offers, chan, gathered, linked, broken, overlapped>>
  BY DEF HandleSignalingMessage
<1>3. CounterTypes'
  BY <1>2 DEF TypeOK, CounterTypes
<1>4. SUFFICES /\ SessionTypes'
               /\ ops' \in [Peers -> Seq(Operation)]
               /\ mail' \in [Peers -> Seq(Message)] /\ lost' \in Nat
  BY <1>2, <1>3 DEF TypeOK, ConnectionTypes, NetworkTypes
<1>5. ASSUME mail' = mb, lost' = lost
      PROVE  mail' \in [Peers -> Seq(Message)] /\ lost' \in Nat
  BY <1>1, <1>5 DEF Mailboxes, TypeOK, NetworkTypes
<1>6. ASSUME Lock(p, m) PROVE remote' \in [Peers -> Peers \cup {None}]
  <2>1. m.from \in Peers
    BY <1>1 DEF Message
  <2> QED
    BY <1>6, <2>1 DEF Lock, TypeOK, SessionTypes
<1>7. CASE HandleOffer(p, m) /\ mail' = mb
  <2>1. m.sdp \in Sdp
    BY <1>1, <1>7 DEF HandleOffer, Message
  <2>2. SetRemote("offer", m.sdp) \in Operation
    BY <2>1, OperationTypes
  <2>3. ops' \in [Peers -> Seq(Operation)]
    <3>1. CASE Enqueue(p, SetRemote("offer", m.sdp))
      BY <2>2, <3>1, EnqueueType
    <3>2. CASE ops' = ops
      BY <3>2 DEF TypeOK, ConnectionTypes
    <3> QED
      BY <1>7, <3>1, <3>2 DEF HandleOffer
  <2>4. remote' \in [Peers -> Peers \cup {None}]
    <3>1. CASE Lock(p, m)
      BY <1>6, <3>1
    <3>2. CASE remote' = remote
      BY <3>2 DEF TypeOK, SessionTypes
    <3> QED
      BY <1>7, <3>1, <3>2 DEF HandleOffer
  <2>5. SessionTypes'
    BY <1>7, <2>4 DEF HandleOffer, TypeOK, SessionTypes, Collision, Polite
  <2> QED
    BY <1>5, <1>7, <2>3, <2>5 DEF HandleOffer
<1>8. CASE HandleAnswer(p, m) /\ mail' = mb
  <2>1. m.sdp \in Sdp
    BY <1>1, <1>8 DEF HandleAnswer, Message
  <2>2. SetRemote("answer", m.sdp) \in Operation
    BY <2>1, OperationTypes
  <2>3. ops' \in [Peers -> Seq(Operation)]
    BY <1>8, <2>2, EnqueueType DEF HandleAnswer
  <2>4. SessionTypes'
    BY <1>6, <1>8 DEF HandleAnswer, TypeOK, SessionTypes
  <2> QED
    BY <1>5, <1>8, <2>3, <2>4 DEF HandleAnswer
<1>9. CASE HandleIce(p, m) /\ mail' = mb
  <2>1. ops' \in [Peers -> Seq(Operation)]
    BY <1>9, OperationTypes, EnqueueType DEF HandleIce
  <2>2. SessionTypes'
    BY <1>9 DEF HandleIce, TypeOK, SessionTypes, session
  <2> QED
    BY <1>5, <1>9, <2>1, <2>2 DEF HandleIce
<1>10. CASE HandleBye(p, m, mb)
  <2>1. ops' \in [Peers -> Seq(Operation)]
    BY <1>10 DEF HandleBye, TypeOK, ConnectionTypes
  <2>2. CASE CloseNow(p, mb)
    BY <1>1, <2>1, <2>2, CloseNowType
  <2>3. CASE mail' = mb /\ UNCHANGED <<session, lost>>
    <3>1. SessionTypes'
      BY <2>3 DEF TypeOK, SessionTypes, session
    <3> QED
      BY <1>5, <2>1, <2>3, <3>1
  <2> QED
    BY <1>10, <2>2, <2>3 DEF HandleBye
<1>11. CASE mail' = mb /\ UNCHANGED <<session, ops, lost>>
  <2>1. SessionTypes' /\ ops' \in [Peers -> Seq(Operation)]
    BY <1>11 DEF TypeOK, SessionTypes, ConnectionTypes, session
  <2> QED
    BY <1>5, <1>11, <2>1
<1> QED
  BY <1>7, <1>8, <1>9, <1>10, <1>11 DEF HandleSignalingMessage

(* Every step keeps the types, given that pending descriptions are there. *)
LEMMA TypeStep ==
    ASSUME TypeOK, Pending, [Next]_vars
    PROVE  TypeOK'
<1> USE DEF TypeOK, session, rtc, network
<1>1. ASSUME NEW p \in Peers, Start(p) PROVE TypeOK'
  <2>1. SessionTypes'
    BY <1>1 DEF Start, SessionTypes, SetState
  <2>2. ConnectionTypes'
    BY <1>1 DEF Start, ConnectionTypes
  <2>3. CounterTypes'
    BY <1>1 DEF Start, CounterTypes
  <2>4. NetworkTypes'
    BY <1>1 DEF Start, NetworkTypes
  <2> QED
    BY <2>1, <2>2, <2>3, <2>4
<1>2. ASSUME NEW p \in Peers, ChangeTracks(p) PROVE TypeOK'
  <2>1. SessionTypes'
    BY <1>2 DEF ChangeTracks, SessionTypes, SetState
  <2>2. ConnectionTypes'
    BY <1>2 DEF ChangeTracks, ConnectionTypes
  <2>3. CounterTypes'
    BY <1>2 DEF ChangeTracks, CounterTypes
  <2>4. NetworkTypes'
    BY <1>2 DEF ChangeTracks, NetworkTypes
  <2> QED
    BY <2>1, <2>2, <2>3, <2>4
<1>3. ASSUME NEW p \in Peers, NegotiationNeeded(p) PROVE TypeOK'
  <2>1. SessionTypes'
    BY <1>3 DEF NegotiationNeeded, SessionTypes, SetState
  <2>2. ConnectionTypes'
    BY <1>3, OperationTypes, EnqueueType DEF NegotiationNeeded, ConnectionTypes
  <2>3. CounterTypes'
    BY <1>3 DEF NegotiationNeeded, CounterTypes
  <2>4. NetworkTypes'
    BY <1>3 DEF NegotiationNeeded, NetworkTypes
  <2> QED
    BY <2>1, <2>2, <2>3, <2>4
<1>4. ASSUME NEW p \in Peers, OfferReady(p) PROVE TypeOK'
  <2>1. SessionTypes'
    BY <1>4 DEF OfferReady, SessionTypes, SetState
  <2>2. ConnectionTypes'
    BY <1>4, LocalDescriptionTypes, DequeueType DEF OfferReady, ConnectionTypes
  <2>3. CounterTypes'
    BY <1>4, LocalDescriptionTypes DEF OfferReady, CounterTypes
  <2>4. NetworkTypes'
    <3>1. OfferMsg(p, LocalSdp(p)) \in Message
      BY SdpTypes, MessageTypes
    <3> QED
      BY <1>4, <3>1, PublishType DEF OfferReady, NetworkTypes
  <2> QED
    BY <2>1, <2>2, <2>3, <2>4
<1>5. ASSUME NEW p \in Peers, OfferPublished(p) PROVE TypeOK'
  <2>1. SessionTypes'
    BY <1>5 DEF OfferPublished, SessionTypes, SetState
  <2>2. ConnectionTypes'
    BY <1>5 DEF OfferPublished, ConnectionTypes
  <2>3. CounterTypes'
    BY <1>5 DEF OfferPublished, CounterTypes
  <2>4. NetworkTypes'
    BY <1>5 DEF OfferPublished, NetworkTypes
  <2> QED
    BY <2>1, <2>2, <2>3, <2>4
<1>6. ASSUME NEW p \in Peers, RemoteOfferSet(p) PROVE TypeOK'
  <2>1. SessionTypes'
    BY <1>6 DEF RemoteOfferSet, SessionTypes, SetState
  <2>2. ConnectionTypes'
    <3>1. Head(ops[p]).sdp.offer \in OfferId
      BY <1>6, QueueHead DEF RemoteOfferSet, Operation, Sdp
    <3>2. Append(Tail(ops[p]), SetLocal("answer")) \in Seq(Operation)
      BY <1>6, QueueHead, OperationTypes DEF RemoteOfferSet
    <3> QED
      BY <1>6, <3>1, <3>2 DEF RemoteOfferSet, ConnectionTypes
  <2>3. CounterTypes'
    BY <1>6 DEF RemoteOfferSet, CounterTypes
  <2>4. NetworkTypes'
    BY <1>6 DEF RemoteOfferSet, NetworkTypes
  <2> QED
    BY <2>1, <2>2, <2>3, <2>4
<1>7. ASSUME NEW p \in Peers, AnswerReady(p) PROVE TypeOK'
  <2>1. SessionTypes'
    BY <1>7 DEF AnswerReady, SessionTypes, SetState
  <2>2. ConnectionTypes'
    BY <1>7, LocalDescriptionTypes, DequeueType DEF AnswerReady, ConnectionTypes
  <2>3. CounterTypes'
    BY <1>7, LocalDescriptionTypes DEF AnswerReady, CounterTypes
  <2>4. NetworkTypes'
    <3>1. remote[p] \in Peers
      <4>1. Head(ops[p]).for = "answer"
        BY <1>7 DEF AnswerReady, SetLocal
      <4> QED
        BY <1>7, <4>1, QueueHead DEF AnswerReady, Pending
    <3>2. AnswerMsg(p, remote[p], LocalSdp(p)) \in Message
      BY <3>1, SdpTypes, MessageTypes
    <3> QED
      BY <1>7, <3>2, PublishType DEF AnswerReady, NetworkTypes
  <2> QED
    BY <2>1, <2>2, <2>3, <2>4
<1>8. ASSUME NEW p \in Peers, RemoteAnswerSet(p) PROVE TypeOK'
  <2>1. SessionTypes'
    BY <1>8 DEF RemoteAnswerSet, SessionTypes, SetState
  <2>2. ConnectionTypes'
    <3>1. Head(ops[p]).sdp \in Sdp
      BY <1>8, QueueHead DEF RemoteAnswerSet, Operation
    <3>2. [offer |-> Head(ops[p]).sdp.offer, answerer |-> Head(ops[p]).sdp.by]
              \in [offer: OfferId, answerer: Peers]
      BY <3>1 DEF Sdp
    <3>3. ops' \in [Peers -> Seq(Operation)]
      BY <1>8, DequeueType DEF RemoteAnswerSet
    <3>4. CASE sig[p] = "have-local-offer"
      <4>1. agreed' \in [Peers -> [offer: OfferId, answerer: Peers] \cup {None}]
        BY <1>8, <3>2, <3>4 DEF RemoteAnswerSet, ConnectionTypes
      <4> QED
        BY <1>8, <3>3, <3>4, <4>1 DEF RemoteAnswerSet, ConnectionTypes
    <3>5. CASE sig[p] # "have-local-offer"
      BY <1>8, <3>3, <3>5 DEF RemoteAnswerSet, ConnectionTypes
    <3> QED
      BY <3>4, <3>5
  <2>3. CounterTypes'
    <3>1. sig[p] = "have-local-offer" => localOffer[p].covers \in Nat
      BY DEF Pending, OfferId
    <3> QED
      BY <1>8, <3>1 DEF RemoteAnswerSet, CounterTypes
  <2>4. NetworkTypes'
    BY <1>8 DEF RemoteAnswerSet, NetworkTypes
  <2> QED
    BY <2>1, <2>2, <2>3, <2>4
<1>9. ASSUME NEW p \in Peers, IceAdded(p) PROVE TypeOK'
  <2>1. SessionTypes'
    BY <1>9 DEF IceAdded, SessionTypes, SetState
  <2>2. ConnectionTypes'
    BY <1>9 DEF IceAdded, ConnectionTypes
  <2>3. CounterTypes'
    BY <1>9 DEF IceAdded, CounterTypes
  <2>4. NetworkTypes'
    BY <1>9 DEF IceAdded, NetworkTypes
  <2> QED
    BY <2>1, <2>2, <2>3, <2>4
<1>10. ASSUME NEW p \in Peers, GatherIce(p) PROVE TypeOK'
  <2>1. SessionTypes'
    BY <1>10 DEF GatherIce, SessionTypes, SetState
  <2>2. ConnectionTypes'
    BY <1>10 DEF GatherIce, ConnectionTypes
  <2>3. CounterTypes'
    BY <1>10 DEF GatherIce, CounterTypes
  <2>4. NetworkTypes'
    <3>1. CASE remote[p] = None
      BY <1>10, <3>1 DEF GatherIce, NetworkTypes
    <3>2. CASE remote[p] # None
      <4>1. IceMsg(p, remote[p]) \in Message
        BY <3>2, MessageTypes DEF SessionTypes
      <4> QED
        BY <1>10, <3>2, <4>1, PublishType DEF GatherIce, NetworkTypes
    <3> QED
      BY <3>1, <3>2
  <2> QED
    BY <2>1, <2>2, <2>3, <2>4
<1>11. ASSUME NEW p \in Peers, Close(p) PROVE TypeOK'
  <2>1. SessionTypes'
    BY <1>11, CloseNowType DEF Close, Mailboxes, NetworkTypes
  <2>2. ConnectionTypes'
    BY <1>11 DEF Close, ConnectionTypes
  <2>3. CounterTypes'
    BY <1>11 DEF Close, CounterTypes
  <2>4. NetworkTypes'
    BY <1>11, CloseNowType DEF Close, Mailboxes, NetworkTypes
  <2> QED
    BY <2>1, <2>2, <2>3, <2>4
<1>12. ASSUME NEW p \in Peers, FinishClose(p) PROVE TypeOK'
  <2>1. SessionTypes'
    BY <1>12 DEF FinishClose, SessionTypes, SetState
  <2>2. ConnectionTypes'
    BY <1>12 DEF FinishClose, ConnectionTypes
  <2>3. CounterTypes'
    BY <1>12 DEF FinishClose, CounterTypes
  <2>4. NetworkTypes'
    BY <1>12 DEF FinishClose, NetworkTypes
  <2> QED
    BY <2>1, <2>2, <2>3, <2>4
<1>13. ASSUME NEW p \in Peers, Deliver(p) PROVE TypeOK'
  BY <1>13, HandledTypes DEF Deliver
<1>14. ASSUME NEW p \in Peers, ChannelOpen(p) PROVE TypeOK'
  <2>1. SessionTypes'
    BY <1>14 DEF ChannelOpen, SessionTypes, SetState
  <2>2. ConnectionTypes'
    BY <1>14 DEF ChannelOpen, ConnectionTypes
  <2>3. CounterTypes'
    BY <1>14 DEF ChannelOpen, CounterTypes
  <2>4. NetworkTypes'
    BY <1>14 DEF ChannelOpen, NetworkTypes
  <2> QED
    BY <2>1, <2>2, <2>3, <2>4
<1>15. ASSUME NEW p \in Peers, ChannelClose(p) PROVE TypeOK'
  <2>1. SessionTypes'
    BY <1>15 DEF ChannelClose, SessionTypes, SetState
  <2>2. ConnectionTypes'
    BY <1>15 DEF ChannelClose, ConnectionTypes
  <2>3. CounterTypes'
    BY <1>15 DEF ChannelClose, CounterTypes
  <2>4. NetworkTypes'
    BY <1>15 DEF ChannelClose, NetworkTypes
  <2> QED
    BY <2>1, <2>2, <2>3, <2>4
<1>16. ASSUME NEW p \in Peers, ConnectionFailed(p) PROVE TypeOK'
  <2>1. SessionTypes'
    BY <1>16 DEF ConnectionFailed, SessionTypes, SetState
  <2>2. ConnectionTypes'
    BY <1>16 DEF ConnectionFailed, ConnectionTypes
  <2>3. CounterTypes'
    BY <1>16 DEF ConnectionFailed, CounterTypes
  <2>4. NetworkTypes'
    BY <1>16 DEF ConnectionFailed, NetworkTypes
  <2> QED
    BY <2>1, <2>2, <2>3, <2>4
<1>17. ASSUME NEW j \in Joiners, Connect(j) \/ Break(j) PROVE TypeOK'
  BY <1>17, ZenonT(30) DEF Connect, Break, SessionTypes, ConnectionTypes, CounterTypes, NetworkTypes
<1>18. ASSUME UNCHANGED vars PROVE TypeOK'
  BY <1>18 DEF vars, SessionTypes, ConnectionTypes, CounterTypes, NetworkTypes
<1> QED
  BY <1>1, <1>2, <1>3, <1>4, <1>5, <1>6, <1>7, <1>8, <1>9, <1>10, <1>11, <1>12, <1>13, <1>14, <1>15, <1>16, <1>17, <1>18
     DEF Next, SessionStep, UserStep, EnvStep

(* Every step keeps the session's state in line with its connection's. *)
LEMMA LifecycleStep ==
    ASSUME IInv, [Next]_vars
    PROVE  Lifecycle'
<1> USE DEF session, rtc, network, Lifecycle, IInv, TypeOK, SessionTypes, ConnectionTypes, CounterTypes
<1>1. ASSUME NEW p \in Peers, Start(p) PROVE Lifecycle'
  BY <1>1 DEF Start, SetState
<1>2. ASSUME NEW p \in Peers, ChangeTracks(p) PROVE Lifecycle'
  BY <1>2 DEF ChangeTracks
<1>3. ASSUME NEW p \in Peers, NegotiationNeeded(p) PROVE Lifecycle'
  BY <1>3 DEF NegotiationNeeded, Enqueue
<1>4. ASSUME NEW p \in Peers, OfferReady(p) PROVE Lifecycle'
  BY <1>4 DEF OfferReady
<1>5. ASSUME NEW p \in Peers, OfferPublished(p) PROVE Lifecycle'
  BY <1>5 DEF OfferPublished
<1>6. ASSUME NEW p \in Peers, RemoteOfferSet(p) PROVE Lifecycle'
  BY <1>6 DEF RemoteOfferSet
<1>7. ASSUME NEW p \in Peers, AnswerReady(p) PROVE Lifecycle'
  BY <1>7 DEF AnswerReady
<1>8. ASSUME NEW p \in Peers, RemoteAnswerSet(p) PROVE Lifecycle'
  BY <1>8 DEF RemoteAnswerSet
<1>9. ASSUME NEW p \in Peers, IceAdded(p) PROVE Lifecycle'
  BY <1>9 DEF IceAdded
<1>10. ASSUME NEW p \in Peers, GatherIce(p) PROVE Lifecycle'
  BY <1>10 DEF GatherIce
<1>11. ASSUME NEW p \in Peers, Close(p) PROVE Lifecycle'
  BY <1>11 DEF Close, CloseNow, SetState
<1>12. ASSUME NEW p \in Peers, FinishClose(p) PROVE Lifecycle'
  BY <1>12 DEF FinishClose
<1>13. ASSUME NEW p \in Peers, Deliver(p) PROVE Lifecycle'
  <2>1. PICK i \in DOMAIN mail[p] : HandleSignalingMessage(p, i)
    BY <1>13 DEF Deliver
  <2>2. pc[p] = "open" /\ state[p] # "idle"
    BY <1>13 DEF Deliver
  <2>3. UNCHANGED <<subscribed, pc, chan>>
    BY <2>1 DEF HandleSignalingMessage, HandleOffer, HandleAnswer, HandleIce, HandleBye,
                CloseNow
  <2>4. \A q \in Peers : q # p => ops'[q] = ops[q]
    BY <2>1 DEF HandleSignalingMessage, HandleOffer, HandleAnswer, HandleIce, HandleBye,
                Enqueue
  <2>5. \/ UNCHANGED <<state, closing>>
        \/ /\ state' = [state EXCEPT ![p] = "closed"]
           /\ closing' = [closing EXCEPT ![p] = @ + 1]
    BY <2>1, <2>2 DEF HandleSignalingMessage, HandleOffer, HandleAnswer, HandleIce,
                      HandleBye, CloseNow, SetState
  <2> QED
    BY <2>2, <2>3, <2>4, <2>5
<1>14. ASSUME NEW p \in Peers, ChannelOpen(p) PROVE Lifecycle'
  BY <1>14 DEF ChannelOpen, SetState
<1>15. ASSUME NEW p \in Peers, ChannelClose(p) PROVE Lifecycle'
  BY <1>15 DEF ChannelClose, SetState
<1>16. ASSUME NEW p \in Peers, ConnectionFailed(p) PROVE Lifecycle'
  BY <1>16 DEF ConnectionFailed, SetState
<1>17. ASSUME NEW j \in Joiners, Connect(j) \/ Break(j) PROVE Lifecycle'
  BY <1>17 DEF Connect, Break
<1>18. ASSUME UNCHANGED vars PROVE Lifecycle'
  BY <1>18 DEF vars
<1> QED
  BY <1>1, <1>2, <1>3, <1>4, <1>5, <1>6, <1>7, <1>8, <1>9, <1>10, <1>11, <1>12, <1>13, <1>14, <1>15, <1>16, <1>17, <1>18
     DEF Next, SessionStep, UserStep, EnvStep

(* What handling a message does to the queue of operations: it is left alone, or
   one operation joins it, a remote description only once the peer is known. *)
LEMMA HandledOps ==
    ASSUME IInv, NEW p \in Peers, NEW i \in DOMAIN mail[p], HandleSignalingMessage(p, i)
    PROVE  /\ \E op \in Operation :
                 /\ ops' = ops \/ Enqueue(p, op)
                 /\ op.for \in {"offer", "answer"} /\ ops' # ops => remote'[p] \in Peers
           /\ remote' = remote \/ Lock(p, mail[p][i])
           /\ mail[p][i].from \in Peers
           /\ UNCHANGED <<sig, localOffer, remoteOffer, makingOffer, negotiating, pc>>
<1> DEFINE m == mail[p][i]
<1>1. m \in Message
  BY DEF IInv, TypeOK, NetworkTypes
<1>2. m.from \in Peers
  BY <1>1 DEF Message
<1>3. Lock(p, m) => remote'[p] \in Peers
  BY <1>2 DEF Lock, IInv, TypeOK, SessionTypes
<1>4. UNCHANGED <<sig, localOffer, remoteOffer, makingOffer, negotiating, pc>>
  BY DEF HandleSignalingMessage, HandleOffer, HandleAnswer, HandleIce, HandleBye, CloseNow,
         session
<1>5. remote' = remote \/ Lock(p, m)
  BY DEF HandleSignalingMessage, HandleOffer, HandleAnswer, HandleIce, HandleBye, CloseNow,
         session
<1>6. \/ ops' = ops
      \/ m.kind = "offer" /\ Lock(p, m) /\ Enqueue(p, SetRemote("offer", m.sdp))
      \/ m.kind = "answer" /\ Lock(p, m) /\ Enqueue(p, SetRemote("answer", m.sdp))
      \/ Enqueue(p, AddIce)
  BY DEF HandleSignalingMessage, HandleOffer, HandleAnswer, HandleIce, HandleBye
<1>7. CASE ops' = ops
  BY <1>2, <1>4, <1>5, <1>7, OperationTypes
<1>8. CASE m.kind = "offer" /\ Lock(p, m) /\ Enqueue(p, SetRemote("offer", m.sdp))
  <2>1. SetRemote("offer", m.sdp) \in Operation
    BY <1>1, <1>8, OperationTypes DEF Message
  <2> QED
    BY <1>2, <1>3, <1>4, <1>8, <2>1
<1>9. CASE m.kind = "answer" /\ Lock(p, m) /\ Enqueue(p, SetRemote("answer", m.sdp))
  <2>1. SetRemote("answer", m.sdp) \in Operation
    BY <1>1, <1>9, OperationTypes DEF Message
  <2> QED
    BY <1>2, <1>3, <1>4, <1>9, <2>1
<1>10. CASE Enqueue(p, AddIce)
  <2>1. AddIce.for \notin {"offer", "answer"}
    BY DEF AddIce
  <2> QED
    BY <1>2, <1>4, <1>5, <1>10, <2>1, OperationTypes
<1> QED
  BY <1>6, <1>7, <1>8, <1>9, <1>10

(* What a queue holds after an operation has joined it, and after its head has
   left it. *)
LEMMA Enqueued ==
    ASSUME TypeOK, NEW p \in Peers, NEW op \in Operation, Enqueue(p, op)
    PROVE  /\ \A q \in Peers : q # p => ops'[q] = ops[q]
           /\ \A i \in DOMAIN ops'[p] :
                 ops'[p][i] = op \/ (i \in DOMAIN ops[p] /\ ops'[p][i] = ops[p][i])
           /\ \A i \in DOMAIN ops[p] : i \in DOMAIN ops'[p] /\ ops'[p][i] = ops[p][i]
           /\ \E i \in DOMAIN ops'[p] : ops'[p][i] = op
<1>1. ops[p] \in Seq(Operation) /\ ops \in [Peers -> Seq(Operation)]
  BY DEF TypeOK, ConnectionTypes
<1>2. ops'[p] = Append(ops[p], op) /\ \A q \in Peers : q # p => ops'[q] = ops[q]
  BY <1>1 DEF Enqueue
<1>3. Len(ops[p]) + 1 \in DOMAIN ops'[p] /\ ops'[p][Len(ops[p]) + 1] = op
  BY <1>1, <1>2
<1> QED
  BY <1>1, <1>2, <1>3

(* Taking the head of one queue leaves the other queues alone, and in its own
   everything but the head. *)
LEMMA Dequeued ==
    ASSUME TypeOK, NEW p \in Peers, ops[p] # <<>>, ops' = [ops EXCEPT ![p] = Tail(@)]
    PROVE  /\ \A q \in Peers : q # p => ops'[q] = ops[q]
           /\ \A i \in DOMAIN ops'[p] : \E j \in DOMAIN ops[p] : ops'[p][i] = ops[p][j]
           /\ \A j \in DOMAIN ops[p] :
                 ops[p][j] # Head(ops[p]) => \E i \in DOMAIN ops'[p] : ops'[p][i] = ops[p][j]
<1>1. ops[p] \in Seq(Operation) /\ ops \in [Peers -> Seq(Operation)]
  BY DEF TypeOK, ConnectionTypes
<1>2. ops'[p] = Tail(ops[p]) /\ \A q \in Peers : q # p => ops'[q] = ops[q]
  BY <1>1
<1>3. ASSUME NEW j \in DOMAIN ops[p], ops[p][j] # Head(ops[p])
      PROVE  \E i \in DOMAIN ops'[p] : ops'[p][i] = ops[p][j]
  <2>1. j \in 2..Len(ops[p]) /\ j - 1 \in 1..(Len(ops[p]) - 1)
    BY <1>1, <1>3
  <2>2. j - 1 \in DOMAIN ops'[p] /\ ops'[p][j - 1] = ops[p][j]
    BY <1>1, <1>2, <2>1
  <2> QED
    BY <2>2
<1>4. \A i \in DOMAIN ops'[p] : i + 1 \in DOMAIN ops[p] /\ ops'[p][i] = ops[p][i + 1]
  BY <1>2, QueueHead
<1> QED
  BY <1>2, <1>3, <1>4

(* A negotiation stays queued until it reaches the head of the queue. *)
LEMMA StillQueued ==
    ASSUME TypeOK, NEW p \in Peers,
           \/ \E op \in Operation : Enqueue(p, op)
           \/ /\ ops[p] # <<>> /\ Head(ops[p]) # SetLocal("negotiation")
              /\ ops' = [ops EXCEPT ![p] = Tail(@)],
           NEW q \in Peers, NegotiationQueued(q)
    PROVE  NegotiationQueued(q)'
<1>1. PICK i \in DOMAIN ops[q] : ops[q][i] = SetLocal("negotiation")
  BY DEF NegotiationQueued
<1>2. CASE \E op \in Operation : Enqueue(p, op)
  <2>1. \A r \in Peers : \A k \in DOMAIN ops[r] : k \in DOMAIN ops'[r] /\ ops'[r][k] = ops[r][k]
    BY <1>2, Enqueued
  <2> QED
    BY <1>1, <2>1 DEF NegotiationQueued
<1>3. CASE /\ ops[p] # <<>> /\ Head(ops[p]) # SetLocal("negotiation")
           /\ ops' = [ops EXCEPT ![p] = Tail(@)]
  <2>1. \E k \in DOMAIN ops'[q] : ops'[q][k] = SetLocal("negotiation")
    <3>1. CASE q = p
      <4>1. ops[p][i] # Head(ops[p])
        BY <1>1, <1>3, <3>1
      <4>2. \E k \in DOMAIN ops'[p] : ops'[p][k] = ops[p][i]
        BY <1>1, <1>3, <3>1, <4>1, Dequeued
      <4> QED
        BY <1>1, <3>1, <4>2
    <3>2. CASE q # p
      <4>1. ops'[q] = ops[q]
        BY <1>3, <3>2, Dequeued
      <4> QED
        BY <1>1, <4>1
    <3> QED
      BY <3>1, <3>2
  <2> QED
    BY <2>1 DEF NegotiationQueued
<1> QED
  BY <1>2, <1>3

(* The same, when the continuation of the operation at the head queues another. *)
LEMMA RequeuedNegotiation ==
    ASSUME TypeOK, NEW p \in Peers, ops[p] # <<>>, Head(ops[p]) # SetLocal("negotiation"),
           ops' = [ops EXCEPT ![p] = Append(Tail(@), SetLocal("answer"))]
    PROVE  \A q \in Peers : NegotiationQueued(q) => NegotiationQueued(q)'
<1>1. ops \in [Peers -> Seq(Operation)] /\ Tail(ops[p]) \in Seq(Operation)
  BY QueueHead DEF TypeOK, ConnectionTypes
<1>2. ASSUME NEW i \in DOMAIN ops[p], ops[p][i] = SetLocal("negotiation")
      PROVE  NegotiationQueued(p)'
  <2>1. i \in 2..Len(ops[p]) /\ i - 1 \in 1..Len(Tail(ops[p]))
    BY <1>1, <1>2, QueueHead
  <2>2. Tail(ops[p])[i - 1] = SetLocal("negotiation")
    BY <1>1, <1>2, <2>1
  <2>3. ops'[p] = Append(Tail(ops[p]), SetLocal("answer"))
    BY <1>1
  <2>4. i - 1 \in DOMAIN ops'[p] /\ ops'[p][i - 1] = SetLocal("negotiation")
    BY <1>1, <2>1, <2>2, <2>3, OperationTypes
  <2> QED
    BY <2>4 DEF NegotiationQueued
<1> QED
  BY <1>1, <1>2 DEF NegotiationQueued

(* Every step leaves a description behind each pending state, and a remote peer
   behind each remote description at work. *)
LEMMA PendingStep ==
    ASSUME IInv, [Next]_vars
    PROVE  Pending'
<1> USE DEF session, rtc, network, Pending, IInv, TypeOK, SessionTypes, ConnectionTypes
<1>1. ASSUME NEW p \in Peers, Start(p) PROVE Pending'
  BY <1>1 DEF Start
<1>2. ASSUME NEW p \in Peers, ChangeTracks(p) PROVE Pending'
  BY <1>2 DEF ChangeTracks
<1>3. ASSUME NEW p \in Peers, NegotiationNeeded(p) PROVE Pending'
  <2>1. SetLocal("negotiation").for = "negotiation"
    BY DEF SetLocal
  <2>2. ASSUME NEW q \in Peers, NEW k \in DOMAIN ops'[q],
               ops'[q][k].for \in {"offer", "answer"}
        PROVE  k \in DOMAIN ops[q] /\ ops'[q][k] = ops[q][k]
    <3>1. Enqueue(p, SetLocal("negotiation")) /\ SetLocal("negotiation") \in Operation
      BY <1>3, OperationTypes DEF NegotiationNeeded
    <3>2. CASE q = p
      <4>1. ops'[p][k] # SetLocal("negotiation")
        BY <2>1, <2>2, <3>2
      <4> QED
        BY <3>1, <3>2, <4>1, Enqueued
    <3>3. CASE q # p
      BY <3>1, <3>3, Enqueued
    <3> QED
      BY <3>2, <3>3
  <2> QED
    BY <1>3, <2>2 DEF NegotiationNeeded
<1>4. ASSUME NEW p \in Peers, OfferReady(p) PROVE Pending'
  <2>1. CASE MakesAnswer(p)
    <3>1. sig' = [sig EXCEPT ![p] = "stable"] /\ \A q \in Peers : q # p => remoteOffer'[q] = remoteOffer[q]
      BY <1>4, <2>1 DEF OfferReady, LocalDescriptionSet, CreateAnswer
    <3>2. UNCHANGED <<localOffer, remote>>
      BY <1>4, <2>1 DEF OfferReady, LocalDescriptionSet, CreateAnswer
    <3> QED
      BY <1>4, <3>1, <3>2, Dequeued DEF OfferReady
  <2>2. CASE ~MakesAnswer(p)
    <3>1. /\ sig' = [sig EXCEPT ![p] = "have-local-offer"]
          /\ localOffer' = [localOffer EXCEPT ![p] = NewOffer(p)]
          /\ UNCHANGED <<remoteOffer, remote>>
      BY <1>4, <2>2 DEF OfferReady, LocalDescriptionSet, CreateOffer
    <3>2. NewOffer(p) \in OfferId
      BY SdpTypes
    <3> QED
      BY <1>4, <3>1, <3>2, Dequeued DEF OfferReady
  <2> QED
    BY <2>1, <2>2
<1>5. ASSUME NEW p \in Peers, OfferPublished(p) PROVE Pending'
  BY <1>5 DEF OfferPublished
<1>6. ASSUME NEW p \in Peers, RemoteOfferSet(p) PROVE Pending'
  <2>1. Head(ops[p]).sdp.offer \in OfferId
    BY <1>6, QueueHead DEF RemoteOfferSet, Operation, Sdp
  <2>2. remote[p] \in Peers
    BY <1>6, QueueHead DEF RemoteOfferSet
  <2> QED
    BY <1>6, <2>1, <2>2 DEF RemoteOfferSet
<1>7. ASSUME NEW p \in Peers, AnswerReady(p) PROVE Pending'
  <2>1. CASE MakesAnswer(p)
    <3>1. sig' = [sig EXCEPT ![p] = "stable"] /\ \A q \in Peers : q # p => remoteOffer'[q] = remoteOffer[q]
      BY <1>7, <2>1 DEF AnswerReady, LocalDescriptionSet, CreateAnswer
    <3>2. UNCHANGED <<localOffer, remote>>
      BY <1>7, <2>1 DEF AnswerReady, LocalDescriptionSet, CreateAnswer
    <3> QED
      BY <1>7, <3>1, <3>2, Dequeued DEF AnswerReady
  <2>2. CASE ~MakesAnswer(p)
    <3>1. /\ sig' = [sig EXCEPT ![p] = "have-local-offer"]
          /\ localOffer' = [localOffer EXCEPT ![p] = NewOffer(p)]
          /\ UNCHANGED <<remoteOffer, remote>>
      BY <1>7, <2>2 DEF AnswerReady, LocalDescriptionSet, CreateOffer
    <3>2. NewOffer(p) \in OfferId
      BY SdpTypes
    <3> QED
      BY <1>7, <3>1, <3>2, Dequeued DEF AnswerReady
  <2> QED
    BY <2>1, <2>2
<1>8. ASSUME NEW p \in Peers, RemoteAnswerSet(p) PROVE Pending'
  BY <1>8 DEF RemoteAnswerSet
<1>9. ASSUME NEW p \in Peers, IceAdded(p) PROVE Pending'
  BY <1>9 DEF IceAdded
<1>10. ASSUME NEW p \in Peers, GatherIce(p) PROVE Pending'
  BY <1>10 DEF GatherIce
<1>11. ASSUME NEW p \in Peers, Close(p) PROVE Pending'
  BY <1>11 DEF Close, CloseNow
<1>12. ASSUME NEW p \in Peers, FinishClose(p) PROVE Pending'
  BY <1>12 DEF FinishClose
<1>13. ASSUME NEW p \in Peers, Deliver(p) PROVE Pending'
  <2>1. PICK i \in DOMAIN mail[p] : HandleSignalingMessage(p, i)
    BY <1>13 DEF Deliver
  <2>2. PICK op \in Operation :
           /\ ops' = ops \/ Enqueue(p, op)
           /\ op.for \in {"offer", "answer"} /\ ops' # ops => remote'[p] \in Peers
    BY <2>1, HandledOps
  <2>3. \A q \in Peers : remote[q] \in Peers => remote'[q] \in Peers
    <3>1. remote \in [Peers -> Peers \cup {None}]
      BY DEF IInv, TypeOK, SessionTypes
    <3>2. mail[p][i].from \in Peers
      BY <2>1, HandledOps
    <3>3. remote' = remote \/ Lock(p, mail[p][i])
      BY <2>1, HandledOps
    <3> QED
      BY <3>1, <3>2, <3>3, PeersAssumption DEF Lock
  <2>4. UNCHANGED <<sig, localOffer, remoteOffer>>
    BY <2>1, HandledOps
  <2>5. CASE ops' = ops
    BY <2>3, <2>4, <2>5
  <2>6. CASE ops' # ops /\ Enqueue(p, op)
    <3>1. ASSUME NEW q \in Peers, NEW k \in DOMAIN ops'[q],
                 ops'[q][k].for \in {"offer", "answer"}
          PROVE  remote'[q] \in Peers
      <4>1. CASE k \in DOMAIN ops[q] /\ ops'[q][k] = ops[q][k]
        BY <2>3, <3>1, <4>1
      <4>2. CASE q = p /\ ops'[q][k] = op
        BY <2>2, <2>6, <3>1, <4>2
      <4> QED
        BY <2>6, <3>1, <4>1, <4>2, Enqueued
    <3> QED
      BY <2>4, <3>1
  <2> QED
    BY <2>2, <2>5, <2>6
<1>14. ASSUME NEW p \in Peers, ChannelOpen(p) PROVE Pending'
  BY <1>14 DEF ChannelOpen
<1>15. ASSUME NEW p \in Peers, ChannelClose(p) PROVE Pending'
  BY <1>15 DEF ChannelClose
<1>16. ASSUME NEW p \in Peers, ConnectionFailed(p) PROVE Pending'
  BY <1>16 DEF ConnectionFailed
<1>17. ASSUME NEW j \in Joiners, Connect(j) \/ Break(j) PROVE Pending'
  BY <1>17 DEF Connect, Break
<1>18. ASSUME UNCHANGED vars PROVE Pending'
  BY <1>18 DEF vars
<1> QED
  BY <1>1, <1>2, <1>3, <1>4, <1>5, <1>6, <1>7, <1>8, <1>9, <1>10, <1>11, <1>12, <1>13, <1>14, <1>15, <1>16, <1>17, <1>18
     DEF Next, SessionStep, UserStep, EnvStep

(* Every step leaves a runNegotiation behind each makingOffer. *)
LEMMA MakingOfferStep ==
    ASSUME IInv, [Next]_vars
    PROVE  MakingOfferHeld'
<1> USE DEF session, rtc, network, MakingOfferHeld
<1>0. /\ TypeOK /\ MakingOfferHeld
      /\ negotiating \in [Peers -> Nat] /\ makingOffer \in [Peers -> BOOLEAN]
      /\ pc \in [Peers -> {"none", "open", "closed"}]
  BY DEF IInv, TypeOK, SessionTypes, ConnectionTypes
<1>1. ASSUME NEW p \in Peers, Start(p) PROVE MakingOfferHeld'
  <2>1. ~makingOffer[p]
    BY <1>1 DEF Start, IInv, Fresh, Lifecycle
  <2> QED
    BY <1>0, <1>1, <2>1 DEF Start, NegotiationQueued
<1>2. ASSUME NEW p \in Peers, NegotiationNeeded(p) PROVE MakingOfferHeld'
  <2>1. NegotiationQueued(p)'
    BY <1>0, <1>2, Enqueued, OperationTypes DEF NegotiationNeeded, NegotiationQueued
  <2>2. \A q \in Peers : NegotiationQueued(q) => NegotiationQueued(q)'
    BY <1>0, <1>2, StillQueued, OperationTypes DEF NegotiationNeeded
  <2> QED
    BY <1>0, <1>2, <2>1, <2>2 DEF NegotiationNeeded
<1>3. ASSUME NEW p \in Peers, OfferReady(p) PROVE MakingOfferHeld'
  <2>1. \A q \in Peers \ {p} : NegotiationQueued(q) => NegotiationQueued(q)'
    BY <1>0, <1>3, Dequeued DEF OfferReady, NegotiationQueued
  <2>2. UNCHANGED <<makingOffer, pc>> /\ negotiating' = [negotiating EXCEPT ![p] = @ + 1]
    BY <1>3 DEF OfferReady
  <2> QED
    BY <1>0, <2>1, <2>2
<1>4. ASSUME NEW p \in Peers, OfferPublished(p) PROVE MakingOfferHeld'
  BY <1>0, <1>4 DEF OfferPublished, NegotiationQueued
<1>5. ASSUME NEW p \in Peers,
             \/ RemoteOfferSet(p) \/ AnswerReady(p) \/ RemoteAnswerSet(p) \/ IceAdded(p)
      PROVE  MakingOfferHeld'
  <2>1. UNCHANGED <<makingOffer, negotiating, pc>>
    BY <1>5 DEF RemoteOfferSet, AnswerReady, RemoteAnswerSet, IceAdded
  <2>2. ops[p] # <<>> /\ Head(ops[p]) # SetLocal("negotiation")
    BY <1>5 DEF RemoteOfferSet, AnswerReady, RemoteAnswerSet, IceAdded, SetLocal, AddIce
  <2>3. \A q \in Peers : NegotiationQueued(q) => NegotiationQueued(q)'
    <3>1. CASE RemoteOfferSet(p)
      BY <1>0, <2>2, <3>1, RequeuedNegotiation DEF RemoteOfferSet
    <3>2. CASE ops' = [ops EXCEPT ![p] = Tail(@)]
      BY <1>0, <2>2, <3>2, StillQueued
    <3> QED
      BY <1>5, <3>1, <3>2 DEF AnswerReady, RemoteAnswerSet, IceAdded
  <2> QED
    BY <1>0, <2>1, <2>3
<1>6. ASSUME NEW p \in Peers, Deliver(p) PROVE MakingOfferHeld'
  <2>1. PICK i \in DOMAIN mail[p] : HandleSignalingMessage(p, i)
    BY <1>6 DEF Deliver
  <2>2. PICK op \in Operation : ops' = ops \/ Enqueue(p, op)
    BY <2>1, HandledOps
  <2>3. UNCHANGED <<makingOffer, negotiating, pc>>
    BY <2>1, HandledOps
  <2>4. \A q \in Peers : NegotiationQueued(q) => NegotiationQueued(q)'
    <3>1. CASE ops' = ops
      BY <3>1 DEF NegotiationQueued
    <3>2. CASE Enqueue(p, op)
      BY <1>0, <3>2, StillQueued
    <3> QED
      BY <2>2, <3>1, <3>2
  <2> QED
    BY <1>0, <2>3, <2>4
<1>7. ASSUME NEW p \in Peers, FinishClose(p) PROVE MakingOfferHeld'
  BY <1>0, <1>7 DEF FinishClose, NegotiationQueued
<1>8. ASSUME NEW p \in Peers,
             \/ ChangeTracks(p) \/ GatherIce(p) \/ Close(p)
             \/ ChannelOpen(p) \/ ChannelClose(p) \/ ConnectionFailed(p)
      PROVE  MakingOfferHeld'
  <2>1. UNCHANGED <<makingOffer, negotiating, pc, ops>>
    BY <1>8 DEF ChangeTracks, GatherIce, Close, CloseNow, ChannelOpen, ChannelClose,
                ConnectionFailed
  <2> QED
    BY <1>0, <2>1 DEF NegotiationQueued
<1>9. ASSUME (\E j \in Joiners : Connect(j) \/ Break(j)) \/ UNCHANGED vars
      PROVE  MakingOfferHeld'
  BY <1>0, <1>9 DEF Connect, Break, vars, NegotiationQueued
<1> QED
  BY <1>1, <1>2, <1>3, <1>4, <1>5, <1>6, <1>7, <1>8, <1>9
     DEF Next, SessionStep, UserStep, EnvStep

(* No step has a session make an offer before it starts. *)
LEMMA FreshStep ==
    ASSUME IInv, [Next]_vars
    PROVE  Fresh'
<1> USE DEF session, rtc, network, Fresh, IInv, TypeOK, SessionTypes, ConnectionTypes
<1>1. ASSUME NEW p \in Peers, Deliver(p) PROVE Fresh'
  BY <1>1, HandledOps DEF Deliver
<1>2. ASSUME NEW p \in Peers, Start(p) \/ NegotiationNeeded(p) \/ OfferPublished(p) \/ FinishClose(p)
      PROVE  Fresh'
  BY <1>2, ZenonT(30) DEF Start, NegotiationNeeded, OfferPublished, FinishClose
<1>3. ASSUME UNCHANGED <<pc, makingOffer>> PROVE Fresh'
  BY <1>3
<1> QED
  BY <1>1, <1>2, <1>3
     DEF Next, SessionStep, UserStep, EnvStep, vars, Connect, Break, ChangeTracks, OfferReady,
         RemoteOfferSet, AnswerReady, RemoteAnswerSet, IceAdded, GatherIce, Close, CloseNow,
         ChannelOpen, ChannelClose, ConnectionFailed

-----------------------------------------------------------------------------
(* The theorems. *)

(* The invariant is inductive. *)
LEMMA Inductive == IInv /\ [Next]_vars => IInv'
BY TypeStep, PendingStep, LifecycleStep, FreshStep, MakingOfferStep DEF IInv

(* The inductive invariant holds in every reachable state of a room, whatever
   its joiners, its messages and their order. *)
THEOREM InvariantHolds == Spec => []IInv
<1>1. IInv /\ [Next]_vars => IInv'
  BY Inductive
<1> QED
  BY Initially, <1>1, PTL DEF Spec

(* Types: no answer is made without an offer, or addressed to nobody
   (handleSignalingMessage, case "offer"). *)
THEOREM TypesHold == Spec => []TypeOK
<1>1. IInv => TypeOK
  BY DEF IInv
<1> QED
  BY InvariantHolds, <1>1, PTL

(* makingOffer always has a runNegotiation behind it that will clear it, however
   the calls overlap (runNegotiation's finally). *)
THEOREM MakingOfferIsHeld == Spec => []MakingOfferHeld
<1>1. IInv => MakingOfferHeld
  BY DEF IInv
<1> QED
  BY InvariantHolds, <1>1, PTL

(* A session that is closed for good stays closed: only channel.onopen, and only
   while close() waits for its bye, brings one back. *)
THEOREM ClosedStaysClosed == Spec => ReopensOnlyWhileClosing
<1> DEFINE Held == \A p \in Peers : state[p] = "closed" /\ state'[p] # "closed" => closing[p] > 0
<1>1. IInv /\ [Next]_vars => Held
  <2> SUFFICES ASSUME IInv, [Next]_vars,
                      NEW q \in Peers, state[q] = "closed", state'[q] # "closed"
               PROVE  closing[q] > 0
    OBVIOUS
  <2> USE DEF IInv, TypeOK, SessionTypes, Lifecycle, SetState
  <2>1. ASSUME NEW p \in Peers, Start(p) PROVE closing[q] > 0
    BY <2>1 DEF Start
  <2>2. ASSUME NEW p \in Peers, ChannelOpen(p) PROVE closing[q] > 0
    BY <2>2 DEF ChannelOpen
  <2>3. ASSUME NEW p \in Peers, ConnectionFailed(p) PROVE closing[q] > 0
    BY <2>3 DEF ConnectionFailed
  <2>4. CASE \E p \in Peers : state' = [state EXCEPT ![p] = "closed"] \/ UNCHANGED state
    BY <2>4
  <2>5. ASSUME NEW p \in Peers, Deliver(p)
        PROVE  state' = [state EXCEPT ![p] = "closed"] \/ UNCHANGED state
    BY <2>5 DEF Deliver, HandleSignalingMessage, HandleOffer, HandleAnswer, HandleIce,
                HandleBye, CloseNow, session
  <2> QED
    BY <2>1, <2>2, <2>3, <2>4, <2>5
       DEF Next, SessionStep, UserStep, EnvStep, vars, session, Connect, Break, ChangeTracks,
           NegotiationNeeded, OfferReady, OfferPublished, RemoteOfferSet, AnswerReady,
           RemoteAnswerSet, IceAdded, GatherIce, Close, CloseNow, FinishClose, ChannelClose
<1>2. [][Held]_vars <=> ReopensOnlyWhileClosing
  BY DEF ReopensOnlyWhileClosing, Held
<1> QED
  BY InvariantHolds, <1>1, <1>2, PTL DEF Spec

(* What a step adds to a mailbox is the message of the session that acts. *)
LEMMA LastMessage ==
    ASSUME NEW mb \in Mailboxes, NEW p \in Peers, NEW m \in Message,
           mail' = Delivered(mb, p, m), NEW q \in Peers, Len(mail'[q]) > Len(mb[q])
    PROVE  mail'[q][Len(mail'[q])] = m
<1>1. mb[q] \in Seq(Message)
  BY DEF Mailboxes
<1>2. mail'[q] = IF q = p THEN mb[q] ELSE Append(mb[q], m)
  BY DEF Delivered
<1>3. mail'[q] = Append(mb[q], m)
  BY <1>1, <1>2
<1> QED
  BY <1>1, <1>3

(* A session that close() has released publishes nothing but byes, whatever
   continuation of a negotiation was pending. *)
THEOREM ReleasedIsSilent == Spec => NothingAfterRelease
<1> DEFINE Silent == \A p \in Peers : Released(p) => ~Publishes(p)
<1>1. IInv /\ [Next]_vars => Silent
  <2> SUFFICES ASSUME IInv, [Next]_vars, NEW r \in Peers, Released(r), Publishes(r)
               PROVE  FALSE
    OBVIOUS
  <2>1. TypeOK /\ Pending /\ mail \in Mailboxes /\ \A q \in Peers : mail[q] \in Seq(Message)
    BY DEF IInv, TypeOK, NetworkTypes, Mailboxes
  <2>2. pc[r] # "open" /\ ops[r] = <<>>
    BY DEF Released, IInv, Lifecycle, TypeOK, ConnectionTypes
  <2>3. PICK q \in Peers : /\ Len(mail'[q]) > Len(mail[q]) /\ mail'[q] # <<>>
                           /\ mail'[q] # mail[q]
                           /\ mail'[q][Len(mail'[q])].from = r
                           /\ mail'[q][Len(mail'[q])].kind # "bye"
    BY DEF Publishes
  <2>4. ASSUME NEW p \in Peers, NEW m \in Message, Publish(p, m), m.from = p, p # r
        PROVE  FALSE
    BY <2>1, <2>3, <2>4, LastMessage DEF Publish
  <2>5. ASSUME NEW p \in Peers, OfferReady(p) PROVE FALSE
    <3>1. OfferMsg(p, LocalSdp(p)) \in Message /\ OfferMsg(p, LocalSdp(p)).from = p
      BY <2>1, SdpTypes, MessageTypes DEF OfferMsg
    <3> QED
      BY <2>2, <2>4, <2>5, <3>1 DEF OfferReady
  <2>6. ASSUME NEW p \in Peers, AnswerReady(p) PROVE FALSE
    <3>1. remote[p] \in Peers
      <4>1. Head(ops[p]).for = "answer"
        BY <2>6 DEF AnswerReady, SetLocal
      <4> QED
        BY <2>1, <2>6, <4>1, QueueHead DEF AnswerReady, Pending
    <3>2. /\ AnswerMsg(p, remote[p], LocalSdp(p)) \in Message
          /\ AnswerMsg(p, remote[p], LocalSdp(p)).from = p
      BY <2>1, <3>1, SdpTypes, MessageTypes DEF AnswerMsg
    <3> QED
      BY <2>2, <2>4, <2>6, <3>2 DEF AnswerReady
  <2>7. ASSUME NEW p \in Peers, GatherIce(p) PROVE FALSE
    <3>1. CASE remote[p] = None
      BY <2>3, <2>7, <3>1 DEF GatherIce
    <3>2. CASE remote[p] # None
      <4>1. IceMsg(p, remote[p]) \in Message /\ IceMsg(p, remote[p]).from = p
        BY <2>1, <3>2, MessageTypes DEF TypeOK, SessionTypes, IceMsg
      <4> QED
        BY <2>2, <2>4, <2>7, <3>2, <4>1 DEF GatherIce
    <3> QED
      BY <3>1, <3>2
  <2>8. ASSUME NEW p \in Peers, NEW mb \in Mailboxes, CloseNow(p, mb),
               \A k \in Peers : Len(mb[k]) <= Len(mail[k])
        PROVE  FALSE
    <3>1. ByeMsg(p) \in Message /\ ByeMsg(p).kind = "bye"
      BY MessageTypes DEF ByeMsg
    <3>2. mb[q] \in Seq(Message)
      BY DEF Mailboxes
    <3>3. CASE mail' = mb
      BY <2>1, <2>3, <2>8, <3>2, <3>3
    <3>4. CASE mail' = Delivered(mb, p, ByeMsg(p))
      <4>1. mail'[q] \in Seq(Message)
        BY <3>1, <3>4, DeliveredType DEF Mailboxes
      <4>2. Len(mail'[q]) > Len(mb[q])
        BY <2>1, <2>3, <2>8, <3>2, <4>1
      <4> QED
        BY <2>3, <3>1, <3>4, <4>2, LastMessage
    <3> QED
      BY <2>8, <3>3, <3>4 DEF CloseNow
  <2>9. ASSUME NEW p \in Peers, Close(p) PROVE FALSE
    BY <2>1, <2>8, <2>9 DEF Close
  <2>10. ASSUME NEW p \in Peers, FinishClose(p) PROVE FALSE
    BY <2>1, <2>3, <2>10 DEF FinishClose, Mailboxes
  <2>11. ASSUME NEW p \in Peers, Deliver(p) PROVE FALSE
    <3>1. PICK i \in DOMAIN mail[p] : HandleSignalingMessage(p, i)
      BY <2>11 DEF Deliver
    <3> DEFINE mb == RestOfMail(p, i)
    <3>2. RemoveAt(mail[p], i) \in Seq(Message) /\ Len(RemoveAt(mail[p], i)) = Len(mail[p]) - 1
      BY <2>1, Removed
    <3>3. mb \in Mailboxes /\ \A k \in Peers : Len(mb[k]) <= Len(mail[k])
      BY <2>1, <3>2 DEF RestOfMail, Mailboxes
    <3>4. mail' = mb \/ CloseNow(p, mb)
      BY <3>1 DEF HandleSignalingMessage, HandleBye
    <3>5. mail' # mb
      BY <2>1, <2>3, <3>3 DEF Mailboxes
    <3> QED
      BY <2>8, <3>3, <3>4, <3>5
  <2>12. mail' # mail
    BY <2>3
  <2> QED
    BY <2>5, <2>6, <2>7, <2>9, <2>10, <2>11, <2>12
       DEF Next, SessionStep, UserStep, EnvStep, vars, network, session, Start, ChangeTracks,
           NegotiationNeeded, OfferPublished, RemoteOfferSet, RemoteAnswerSet, IceAdded,
           ChannelOpen, ChannelClose, ConnectionFailed, Connect, Break
<1>2. [][Silent]_vars <=> NothingAfterRelease
  BY DEF NothingAfterRelease, Silent
<1> QED
  BY InvariantHolds, <1>1, <1>2, PTL DEF Spec

-----------------------------------------------------------------------------
(***************************************************************************)
(* A session deals with one remote peer, however many joiners answer the   *)
(* inviter's broadcast offer and in whatever order their messages come.    *)
(*                                                                         *)
(* The argument follows a description from its maker: it is published      *)
(* under the maker's name, goes into the queue of a session locked to that *)
(* name, and is answered to that name. An offer is an offer only because   *)
(* runNegotiation is always the first in the queue of a connection that    *)
(* has no remote offer.                                                    *)
(***************************************************************************)

(* A message says who made its description; an answer is about an offer of  *)
(* its maker's or of the peer it is addressed to.                           *)
Truthful(p, m) ==
    /\ m.from # p
    /\ m.kind = "offer" => m.sdp.offer.by = m.from
    /\ m.kind = "answer" => m.sdp.by = m.from /\ m.sdp.offer.by \in {m.from, m.to}

AllTruthful(mb) == \A p \in Peers : \A i \in DOMAIN mb[p] : Truthful(p, mb[p][i])
MailTruthful == AllTruthful(mail)

(* What a session applies is from the peer it is locked to.                 *)
FromRemote(p, r, op) ==
    op.op = "setRemoteDescription" =>
        IF op.for = "offer" THEN op.sdp.offer.by = r
        ELSE op.sdp.by = r /\ op.sdp.offer.by \in {p, r}

OpsFromRemote == \A p \in Peers : \A i \in DOMAIN ops[p] : FromRemote(p, remote[p], ops[p][i])

(* setLocalDescription() of runNegotiation makes an offer.                  *)
NegotiatesFirst ==
    \A p \in Peers : \A i \in DOMAIN ops[p] :
        ops[p][i] = SetLocal("negotiation") => i = 1 /\ ~MakesAnswer(p)

AnswersRemote == \A p \in Peers : MakesAnswer(p) => remoteOffer[p].by = remote[p] /\ remote[p] \in Peers

Locked ==
    /\ \A j \in Joiners : remote[j] = Inviter
    /\ remote[Inviter] \in Joiners \cup {None}

InPair(p, e) ==
    /\ remote[p] \in Peers
    /\ remote[p] \in {e.offer.by, e.answerer}
    /\ {e.offer.by, e.answerer} \subseteq {p, remote[p]}
AgreedInPair == \A p \in Peers : agreed[p] # None => InPair(p, agreed[p])

OnePath ==
    /\ \A j \in linked : remote[Inviter] = j
    /\ \A j \in Joiners : state[j] = "connected" => remote[Inviter] = j

Pairing ==
    MailTruthful /\ OpsFromRemote /\ NegotiatesFirst /\ AnswersRemote /\ Locked
    /\ AgreedInPair /\ OnePath

PInv == IInv /\ Pairing

LEMMA PairingInit == Init => Pairing
<1> SUFFICES ASSUME Init PROVE Pairing
  OBVIOUS
<1>1. Inviter \in Peers /\ Inviter \notin Joiners /\ Joiners \subseteq Peers
  BY PeersAssumption DEF Peers
<1>2. MailTruthful /\ OpsFromRemote /\ NegotiatesFirst /\ AnswersRemote /\ AgreedInPair
  BY DEF Init, MailTruthful, AllTruthful, OpsFromRemote, NegotiatesFirst, AnswersRemote, MakesAnswer, AgreedInPair
<1>3. Locked /\ OnePath
  BY <1>1 DEF Init, Locked, OnePath
<1> QED
  BY <1>2, <1>3 DEF Pairing

-----------------------------------------------------------------------------
(* The lock: once a session has a remote peer it keeps it.                  *)
LEMMA LockKept ==
    ASSUME PInv, [Next]_vars
    PROVE  Locked' /\ \A q \in Peers : remote[q] # None => remote'[q] = remote[q]
<1> USE DEF PInv, Pairing
<1>0. remote \in [Peers -> Peers \cup {None}] /\ Inviter \in Peers /\ Joiners \subseteq Peers
  BY DEF IInv, TypeOK, SessionTypes, Peers
<1>1. CASE remote' = remote
  BY <1>1 DEF Locked
<1>2. ASSUME NEW p \in Peers, Deliver(p)
      PROVE  Locked' /\ \A q \in Peers : remote[q] # None => remote'[q] = remote[q]
  <2>1. PICK i \in DOMAIN mail[p] : HandleSignalingMessage(p, i)
    BY <1>2 DEF Deliver
  <2>2. mail[p][i].from \in Peers /\ (remote' = remote \/ Lock(p, mail[p][i]))
    BY <2>1, HandledOps
  <2>3. mail[p][i].from # p
    BY DEF MailTruthful, AllTruthful, Truthful
  <2>4. CASE Lock(p, mail[p][i])
    <3>1. remote' = [remote EXCEPT ![p] = IF @ = None THEN mail[p][i].from ELSE @]
      BY <2>4 DEF Lock
    <3>2. \A q \in Peers : remote[q] # None => remote'[q] = remote[q]
      BY <1>0, <3>1
    <3>3. \A j \in Joiners : remote'[j] = Inviter
      BY <1>0, <3>2, PeersAssumption DEF Locked
    <3>4. remote'[Inviter] \in Joiners \cup {None}
      BY <1>0, <2>2, <2>3, <3>1 DEF Locked, Peers
    <3> QED
      BY <3>2, <3>3, <3>4 DEF Locked
  <2> QED
    BY <1>1, <2>2, <2>4
<1>3. ASSUME NEW p \in Peers, SessionStep(p) \/ UserStep(p) \/ EnvStep(p), ~Deliver(p)
      PROVE  remote' = remote
  BY <1>3 DEF SessionStep, UserStep, EnvStep, NegotiationNeeded, OfferReady, OfferPublished, RemoteOfferSet,
     AnswerReady, RemoteAnswerSet, IceAdded, FinishClose, ChannelOpen, Start, ChangeTracks, Close, CloseNow,
     GatherIce, ChannelClose, ConnectionFailed, session
<1>4. ASSUME NEW j \in Joiners, Connect(j) \/ Break(j) PROVE remote' = remote
  BY <1>4 DEF Connect, Break, session
<1>5. CASE UNCHANGED vars
  BY <1>1, <1>5 DEF vars, session
<1> QED
  BY <1>1, <1>2, <1>3, <1>4, <1>5 DEF Next

-----------------------------------------------------------------------------
(* What is published.                                                       *)

(* What RemoveAt leaves was there.                                          *)
LEMMA RemovedElements ==
    ASSUME NEW S, NEW s \in Seq(S), NEW i \in DOMAIN s
    PROVE  \A k \in DOMAIN RemoveAt(s, i) : \E j \in DOMAIN s : RemoveAt(s, i)[k] = s[j]
<1>1. i \in 1..Len(s) /\ Len(s) \in Nat
  OBVIOUS
<1> DEFINE a == SubSeq(s, 1, i - 1)
           b == SubSeq(s, i + 1, Len(s))
<1>2. a \in Seq(S) /\ Len(a) = i - 1 /\ \A k \in 1 .. i - 1 : a[k] = s[k]
  BY <1>1
<1>3. b \in Seq(S) /\ Len(b) = Len(s) - i /\ \A k \in 1 .. Len(s) - i : b[k] = s[k + i]
  BY <1>1
<1> HIDE DEF a, b
<1>4. /\ Len(a \o b) = (i - 1) + (Len(s) - i) /\ a \o b \in Seq(S)
      /\ \A k \in 1 .. Len(a \o b) : (a \o b)[k] = IF k <= Len(a) THEN a[k] ELSE b[k - Len(a)]
  <2>1. Len(a \o b) = Len(a) + Len(b) /\ a \o b \in Seq(S)
    BY <1>2, <1>3, ConcatProperties
  <2>2. \A k \in 1 .. Len(a) + Len(b) : (a \o b)[k] = IF k <= Len(a) THEN a[k] ELSE b[k - Len(a)]
    BY <1>2, <1>3, ConcatProperties
  <2> QED
    BY <1>2, <1>3, <2>1, <2>2
<1>5. ASSUME NEW k \in DOMAIN (a \o b) PROVE \E j \in DOMAIN s : (a \o b)[k] = s[j]
  <2>1. k \in 1 .. Len(a \o b)
    BY <1>4, <1>5
  <2>2. CASE k <= i - 1
    <3>1. k \in DOMAIN s /\ (a \o b)[k] = s[k]
      BY <1>1, <1>2, <1>4, <2>1, <2>2
    <3> QED
      BY <3>1
  <2>3. CASE ~(k <= i - 1)
    <3>1. k - (i - 1) \in 1 .. Len(s) - i
      BY <1>1, <1>4, <2>1, <2>3
    <3>2. (a \o b)[k] = b[k - (i - 1)]
      BY <1>2, <1>4, <2>1, <2>3
    <3>3. (k - (i - 1)) + i \in DOMAIN s /\ (a \o b)[k] = s[(k - (i - 1)) + i]
      BY <1>1, <1>3, <3>1, <3>2, SMTT(30)
    <3> QED
      BY <3>3
  <2> QED
    BY <2>2, <2>3
<1> QED
  BY <1>5 DEF RemoveAt, a, b

LEMMA DeliveredTruthful ==
    ASSUME NEW mb \in Mailboxes, AllTruthful(mb), NEW p \in Peers, NEW m \in Message,
           \A q \in Peers : q # p => Truthful(q, m)
    PROVE  AllTruthful(Delivered(mb, p, m))
<1> SUFFICES ASSUME NEW q \in Peers, NEW i \in DOMAIN Delivered(mb, p, m)[q]
             PROVE  Truthful(q, Delivered(mb, p, m)[q][i])
  BY DEF AllTruthful
<1>1. mb[q] \in Seq(Message)
  BY DEF Mailboxes
<1>2. CASE q = p
  BY <1>2 DEF Delivered, AllTruthful
<1>3. CASE q # p
  <2>1. Delivered(mb, p, m)[q] = Append(mb[q], m)
    BY <1>3 DEF Delivered
  <2>2. Append(mb[q], m)[i] = m \/ (i \in DOMAIN mb[q] /\ Append(mb[q], m)[i] = mb[q][i])
    BY <1>1, <2>1
  <2> QED
    BY <1>3, <2>1, <2>2 DEF AllTruthful
<1> QED
  BY <1>2, <1>3

LEMMA PublishTruthful ==
    ASSUME TypeOK, MailTruthful, NEW p \in Peers, NEW m \in Message, Publish(p, m),
           \A q \in Peers : q # p => Truthful(q, m)
    PROVE  MailTruthful'
<1>1. mail \in Mailboxes
  BY DEF TypeOK, NetworkTypes, Mailboxes
<1>2. AllTruthful(Delivered(mail, p, m))
  BY <1>1, DeliveredTruthful DEF MailTruthful
<1>3. AllTruthful(mail')
  BY <1>2 DEF Publish, MailTruthful
<1> QED
  BY <1>3 DEF MailTruthful, AllTruthful, Truthful

(* A bye says nothing but who goes.                                         *)
LEMMA CloseTruthful ==
    ASSUME NEW mb \in Mailboxes, AllTruthful(mb), NEW p \in Peers, CloseNow(p, mb)
    PROVE  MailTruthful'
<1>1. ByeMsg(p) \in Message /\ \A q \in Peers : q # p => Truthful(q, ByeMsg(p))
  BY MessageTypes DEF ByeMsg, Truthful
<1>2. AllTruthful(Delivered(mb, p, ByeMsg(p)))
  BY <1>1, DeliveredTruthful
<1>3. AllTruthful(mail')
  BY <1>2 DEF CloseNow
<1> QED
  BY <1>3 DEF MailTruthful, AllTruthful, Truthful

(* An offer is of its sender's own making; so is an answer, to an offer of  *)
(* the remote peer's, unless it is an offer that takes its place.           *)
LEMMA LocalSdpTruthful ==
    ASSUME PInv, NEW p \in Peers
    PROVE  /\ LocalSdp(p).by = p \/ ~MakesAnswer(p)
           /\ MakesAnswer(p) => LocalSdp(p).offer.by = remote[p]
           /\ ~MakesAnswer(p) => LocalSdp(p).by = p /\ LocalSdp(p).offer.by = p
BY DEF PInv, Pairing, AnswersRemote, LocalSdp, AnswerSdp, OfferSdp, NewOffer, Offer

LEMMA MailStep ==
    ASSUME PInv, [Next]_vars
    PROVE  MailTruthful'
<1> USE DEF PInv, Pairing, IInv
<1>0. mail \in Mailboxes
  BY DEF TypeOK, NetworkTypes, Mailboxes
<1>1. CASE mail' = mail
  BY <1>1 DEF MailTruthful, AllTruthful, Truthful
<1>2. ASSUME NEW p \in Peers, OfferReady(p) PROVE MailTruthful'
  <2>1. ~MakesAnswer(p)
    BY <1>2, QueueHead DEF OfferReady, NegotiatesFirst
  <2>2. LocalSdp(p) \in Sdp /\ LocalSdp(p).offer.by = p
    BY <2>1, SdpTypes, LocalSdpTruthful
  <2> DEFINE m == OfferMsg(p, LocalSdp(p))
  <2>3. m \in Message /\ m.from = p /\ m.kind = "offer" /\ m.sdp = LocalSdp(p)
    BY <2>2, MessageTypes DEF OfferMsg
  <2>4. Publish(p, m)
    BY <1>2 DEF OfferReady
  <2> HIDE DEF m
  <2> QED
    BY <2>2, <2>3, <2>4, PublishTruthful DEF Truthful
<1>3. ASSUME NEW p \in Peers, AnswerReady(p) PROVE MailTruthful'
  <2>1. LocalSdp(p) \in Sdp /\ LocalSdp(p).by = p /\ LocalSdp(p).offer.by \in {p, remote[p]}
    BY SdpTypes, LocalSdpTruthful
  <2>2. remote[p] \in Peers
    BY <1>3, QueueHead DEF AnswerReady, Pending, SetLocal
  <2> DEFINE m == AnswerMsg(p, remote[p], LocalSdp(p))
  <2>3. m \in Message /\ m.from = p /\ m.kind = "answer" /\ m.sdp = LocalSdp(p) /\ m.to = remote[p]
    BY <2>1, <2>2, MessageTypes DEF AnswerMsg
  <2>4. Publish(p, m)
    BY <1>3 DEF AnswerReady
  <2> HIDE DEF m
  <2> QED
    BY <2>1, <2>3, <2>4, PublishTruthful DEF Truthful
<1>4. ASSUME NEW p \in Peers, GatherIce(p) PROVE MailTruthful'
  <2>1. CASE remote[p] # None
    <3>1. remote[p] \in Peers
      BY <2>1 DEF TypeOK, SessionTypes
    <3> DEFINE m == IceMsg(p, remote[p])
    <3>2. m \in Message /\ m.from = p /\ m.kind = "ice"
      BY <3>1, MessageTypes DEF IceMsg
    <3>3. Publish(p, m)
      BY <1>4, <2>1 DEF GatherIce
    <3> HIDE DEF m
    <3> QED
      BY <3>2, <3>3, PublishTruthful DEF Truthful
  <2> QED
    BY <1>1, <1>4, <2>1 DEF GatherIce
<1>5. ASSUME NEW p \in Peers, Close(p) PROVE MailTruthful'
  BY <1>0, <1>5, CloseTruthful DEF Close, MailTruthful
<1>6. ASSUME NEW p \in Peers, FinishClose(p) PROVE MailTruthful'
  BY <1>0, <1>6 DEF FinishClose, MailTruthful, AllTruthful, Truthful, Mailboxes
<1>7. ASSUME NEW p \in Peers, Deliver(p) PROVE MailTruthful'
  <2>1. PICK i \in DOMAIN mail[p] : HandleSignalingMessage(p, i)
    BY <1>7 DEF Deliver
  <2> DEFINE mb == RestOfMail(p, i)
  <2>2. mail[p] \in Seq(Message)
    BY <1>0 DEF Mailboxes
  <2>3. RemoveAt(mail[p], i) \in Seq(Message)
    BY <2>2, Removed
  <2>4. mb \in Mailboxes
    BY <1>0, <2>3 DEF RestOfMail, Mailboxes
  <2>5. \A q \in Peers : \A k \in DOMAIN mb[q] : \E j \in DOMAIN mail[q] : mb[q][k] = mail[q][j]
    BY <1>0, <2>2, RemovedElements DEF RestOfMail, Mailboxes
  <2>6. AllTruthful(mb)
    BY <2>5 DEF MailTruthful, AllTruthful
  <2>7. mail' = mb \/ CloseNow(p, mb)
    BY <2>1 DEF HandleSignalingMessage, HandleBye
  <2> HIDE DEF mb
  <2>8. CASE mail' = mb
    BY <2>6, <2>8 DEF MailTruthful, AllTruthful, Truthful
  <2> QED
    BY <2>4, <2>6, <2>7, <2>8, CloseTruthful
<1>8. ASSUME NEW p \in Peers, SessionStep(p) \/ UserStep(p) \/ EnvStep(p),
             ~(OfferReady(p) \/ AnswerReady(p) \/ GatherIce(p) \/ Close(p) \/ FinishClose(p) \/ Deliver(p))
      PROVE  mail' = mail
  BY <1>8 DEF SessionStep, UserStep, EnvStep, NegotiationNeeded, OfferPublished, RemoteOfferSet,
     RemoteAnswerSet, IceAdded, ChannelOpen, Start, ChangeTracks, ChannelClose, ConnectionFailed, network
<1>9. ASSUME NEW j \in Joiners, Connect(j) \/ Break(j) PROVE mail' = mail
  BY <1>9 DEF Connect, Break
<1>10. CASE UNCHANGED vars
  BY <1>1, <1>10 DEF vars, network
<1> QED
  BY <1>1, <1>2, <1>3, <1>4, <1>5, <1>6, <1>7, <1>8, <1>9, <1>10 DEF Next

-----------------------------------------------------------------------------
(* What is queued.                                                          *)

Dequeues(p) ==
    /\ ops[p] # <<>>
    /\ \/ ops' = [ops EXCEPT ![p] = Tail(@)]
       \/ ops' = [ops EXCEPT ![p] = Append(Tail(@), SetLocal("answer"))]

(* An operation that is there after the head has left was there before, or  *)
(* is the request for an answer.                                            *)
LEMMA DequeuedElements ==
    ASSUME TypeOK, NEW p \in Peers, Dequeues(p)
    PROVE  /\ \A q \in Peers : q # p => ops'[q] = ops[q]
           /\ \A i \in DOMAIN ops'[p] : \/ ops'[p][i] = SetLocal("answer")
                                        \/ i + 1 \in DOMAIN ops[p] /\ ops'[p][i] = ops[p][i + 1]
<1>1. /\ ops \in [Peers -> Seq(Operation)] /\ Tail(ops[p]) \in Seq(Operation)
      /\ \A i \in DOMAIN Tail(ops[p]) : i + 1 \in DOMAIN ops[p] /\ Tail(ops[p])[i] = ops[p][i + 1]
  BY QueueHead DEF TypeOK, ConnectionTypes, Dequeues
<1>2. \A q \in Peers : q # p => ops'[q] = ops[q]
  BY <1>1 DEF Dequeues
<1>3. CASE ops'[p] = Tail(ops[p])
  BY <1>1, <1>2, <1>3
<1>4. CASE ops'[p] = Append(Tail(ops[p]), SetLocal("answer"))
  <2> DEFINE rest == Tail(ops[p])
  <2>1. \A i \in DOMAIN Append(rest, SetLocal("answer")) :
           \/ Append(rest, SetLocal("answer"))[i] = SetLocal("answer")
           \/ i \in DOMAIN rest /\ Append(rest, SetLocal("answer"))[i] = rest[i]
    BY <1>1, OperationTypes
  <2> QED
    BY <1>1, <1>2, <1>4, <2>1
<1> QED
  BY <1>1, <1>3, <1>4 DEF Dequeues

(* Which steps touch a queue, and how.                                      *)
LEMMA OpsChanges ==
    ASSUME PInv, [Next]_vars
    PROVE  \/ UNCHANGED <<ops, sig>>
           \/ \E p \in Peers : ops' = [ops EXCEPT ![p] = <<>>] /\ UNCHANGED sig
           \/ \E p \in Peers : NegotiationNeeded(p)
           \/ \E p \in Peers : Deliver(p)
           \/ \E p \in Peers : Dequeues(p) /\ \A q \in Peers : q # p => sig'[q] = sig[q]
<1> USE DEF rtc, session, network
<1>0. sig \in [Peers -> {"stable", "have-local-offer", "have-remote-offer"}]
  BY DEF PInv, IInv, TypeOK, ConnectionTypes
<1>1. ASSUME NEW p \in Peers, OfferReady(p) \/ AnswerReady(p)
      PROVE  Dequeues(p) /\ \A q \in Peers : q # p => sig'[q] = sig[q]
  BY <1>0, <1>1 DEF OfferReady, AnswerReady, Dequeues, LocalDescriptionSet, CreateOffer, CreateAnswer
<1>2. ASSUME NEW p \in Peers, RemoteOfferSet(p)
      PROVE  Dequeues(p) /\ \A q \in Peers : q # p => sig'[q] = sig[q]
  BY <1>0, <1>2 DEF RemoteOfferSet, Dequeues
<1>3. ASSUME NEW p \in Peers, RemoteAnswerSet(p) \/ IceAdded(p)
      PROVE  Dequeues(p) /\ \A q \in Peers : q # p => sig'[q] = sig[q]
  BY <1>0, <1>3 DEF RemoteAnswerSet, IceAdded, Dequeues
<1>4. ASSUME NEW p \in Peers, FinishClose(p) PROVE ops' = [ops EXCEPT ![p] = <<>>] /\ UNCHANGED sig
  BY <1>4 DEF FinishClose
<1>5. ASSUME NEW p \in Peers,
             \/ OfferPublished(p) \/ ChannelOpen(p) \/ UserStep(p) \/ EnvStep(p)
      PROVE  UNCHANGED <<ops, sig>>
  BY <1>5 DEF OfferPublished, ChannelOpen, UserStep, EnvStep, Start, ChangeTracks, Close, GatherIce,
     ChannelClose, ConnectionFailed
<1>6. ASSUME NEW j \in Joiners, Connect(j) \/ Break(j) PROVE UNCHANGED <<ops, sig>>
  BY <1>6 DEF Connect, Break
<1>7. CASE UNCHANGED vars
  BY <1>7 DEF vars
<1> QED
  BY <1>1, <1>2, <1>3, <1>4, <1>5, <1>6, <1>7 DEF Next, SessionStep

(* A message that is accepted is from the remote peer, at the latest now.   *)
LEMMA HandledFrom ==
    ASSUME PInv, NEW p \in Peers, Deliver(p)
    PROVE  /\ UNCHANGED sig
           /\ \/ ops' = ops
              \/ Enqueue(p, AddIce)
              \/ \E sdp \in Sdp : Enqueue(p, SetRemote("offer", sdp)) /\ sdp.offer.by = remote'[p]
              \/ \E sdp \in Sdp : /\ Enqueue(p, SetRemote("answer", sdp))
                                  /\ sdp.by = remote'[p] /\ sdp.offer.by \in {p, remote'[p]}
<1> USE DEF PInv, Pairing
<1>1. PICK i \in DOMAIN mail[p] : HandleSignalingMessage(p, i)
  BY DEF Deliver
<1> DEFINE m == mail[p][i]
<1>2. m \in Message /\ Truthful(p, m) /\ UNCHANGED sig
  BY <1>1, HandledOps DEF IInv, TypeOK, NetworkTypes, MailTruthful, AllTruthful
<1>3. remote \in [Peers -> Peers \cup {None}]
  BY DEF IInv, TypeOK, SessionTypes
<1>4. \/ ops' = ops
      \/ Accepts(p, m) /\ m.kind = "offer" /\ Lock(p, m) /\ Enqueue(p, SetRemote("offer", m.sdp))
      \/ Accepts(p, m) /\ m.kind = "answer" /\ Lock(p, m) /\ Enqueue(p, SetRemote("answer", m.sdp))
      \/ Enqueue(p, AddIce)
  BY <1>1 DEF HandleSignalingMessage, HandleOffer, HandleAnswer, HandleIce, HandleBye
<1>5. ASSUME Accepts(p, m), Lock(p, m) PROVE remote'[p] = m.from
  BY <1>3, <1>5 DEF Accepts, Lock
<1>6. m.kind \in {"offer", "answer"} => m.sdp \in Sdp
  BY <1>2 DEF Message
<1>7. CASE Accepts(p, m) /\ m.kind = "offer" /\ Lock(p, m) /\ Enqueue(p, SetRemote("offer", m.sdp))
  BY <1>2, <1>5, <1>6, <1>7 DEF Truthful
<1>8. CASE Accepts(p, m) /\ m.kind = "answer" /\ Lock(p, m) /\ Enqueue(p, SetRemote("answer", m.sdp))
  <2>1. m.to = p
    BY <1>8 DEF Accepts
  <2> QED
    BY <1>2, <1>5, <1>6, <1>8, <2>1 DEF Truthful
<1> QED
  BY <1>2, <1>4, <1>7, <1>8

LEMMA OpsStep ==
    ASSUME PInv, [Next]_vars
    PROVE  OpsFromRemote'
<1> USE DEF PInv, Pairing, IInv
<1>1. ASSUME NEW q \in Peers, NEW i \in DOMAIN ops[q]
      PROVE  FromRemote(q, remote'[q], ops[q][i])
  <2> DEFINE op == ops[q][i]
  <2>1. op \in Operation
    BY DEF TypeOK, ConnectionTypes
  <2>2. CASE op.op = "setRemoteDescription"
    <3>1. op.for \in {"offer", "answer"}
      BY <2>1, <2>2 DEF Operation
    <3>2. remote[q] \in Peers
      BY <3>1 DEF Pending
    <3>3. remote'[q] = remote[q]
      BY <3>2, LockKept, PeersAssumption
    <3> QED
      BY <3>3 DEF OpsFromRemote
  <2> QED
    BY <2>2 DEF FromRemote
<1>2. SUFFICES ASSUME NEW q \in Peers, NEW i \in DOMAIN ops'[q]
               PROVE  FromRemote(q, remote'[q], ops'[q][i])
  BY DEF OpsFromRemote
<1>3. CASE ops' = ops
  BY <1>1, <1>3
<1>4. ASSUME NEW p \in Peers, ops' = [ops EXCEPT ![p] = <<>>]
      PROVE  FromRemote(q, remote'[q], ops'[q][i])
  BY <1>1, <1>4 DEF TypeOK, ConnectionTypes
<1>5. ASSUME NEW p \in Peers, NEW op \in Operation, Enqueue(p, op), FromRemote(p, remote'[p], op)
      PROVE  FromRemote(q, remote'[q], ops'[q][i])
  BY <1>1, <1>5, Enqueued
<1>6. ASSUME NEW p \in Peers, NegotiationNeeded(p) PROVE FromRemote(q, remote'[q], ops'[q][i])
  <2>1. Enqueue(p, SetLocal("negotiation")) /\ FromRemote(p, remote'[p], SetLocal("negotiation"))
    BY <1>6 DEF NegotiationNeeded, FromRemote, SetLocal
  <2> QED
    BY <1>5, <2>1, OperationTypes
<1>7. ASSUME NEW p \in Peers, Deliver(p) PROVE FromRemote(q, remote'[q], ops'[q][i])
  <2>1. CASE Enqueue(p, AddIce)
    <3>1. FromRemote(p, remote'[p], AddIce)
      BY DEF FromRemote, AddIce
    <3> QED
      BY <1>5, <2>1, <3>1, OperationTypes
  <2>2. ASSUME NEW sdp \in Sdp, Enqueue(p, SetRemote("offer", sdp)), sdp.offer.by = remote'[p]
        PROVE  FromRemote(q, remote'[q], ops'[q][i])
    <3>1. FromRemote(p, remote'[p], SetRemote("offer", sdp))
      BY <2>2 DEF FromRemote, SetRemote
    <3> QED
      BY <1>5, <2>2, <3>1, OperationTypes
  <2>3. ASSUME NEW sdp \in Sdp, Enqueue(p, SetRemote("answer", sdp)),
               sdp.by = remote'[p], sdp.offer.by \in {p, remote'[p]}
        PROVE  FromRemote(q, remote'[q], ops'[q][i])
    <3>1. FromRemote(p, remote'[p], SetRemote("answer", sdp))
      BY <2>3 DEF FromRemote, SetRemote
    <3> QED
      BY <1>5, <2>3, <3>1, OperationTypes
  <2> QED
    BY <1>3, <1>7, <2>1, <2>2, <2>3, HandledFrom
<1>8. ASSUME NEW p \in Peers, Dequeues(p) PROVE FromRemote(q, remote'[q], ops'[q][i])
  <2>1. FromRemote(p, remote'[p], SetLocal("answer"))
    BY DEF FromRemote, SetLocal
  <2> QED
    BY <1>1, <1>8, <2>1, DequeuedElements
<1> QED
  BY <1>3, <1>4, <1>6, <1>7, <1>8, OpsChanges

LEMMA NegotiationStep ==
    ASSUME PInv, [Next]_vars
    PROVE  NegotiatesFirst'
<1> USE DEF PInv, Pairing, IInv
<1> DEFINE negotiation == SetLocal("negotiation")
<1>0. ops \in [Peers -> Seq(Operation)]
  BY DEF TypeOK, ConnectionTypes
<1>1. SUFFICES ASSUME NEW q \in Peers, NEW i \in DOMAIN ops'[q], ops'[q][i] = negotiation
               PROVE  i = 1 /\ sig'[q] # "have-remote-offer"
  BY DEF NegotiatesFirst, MakesAnswer
<1>2. ASSUME i \in DOMAIN ops[q], ops[q][i] = negotiation, sig'[q] = sig[q]
      PROVE  i = 1 /\ sig'[q] # "have-remote-offer"
  BY <1>2 DEF NegotiatesFirst, MakesAnswer
<1>3. CASE UNCHANGED <<ops, sig>>
  BY <1>1, <1>2, <1>3
<1>4. ASSUME NEW p \in Peers, ops' = [ops EXCEPT ![p] = <<>>], UNCHANGED sig
      PROVE  i = 1 /\ sig'[q] # "have-remote-offer"
  <2>1. q # p
    BY <1>0, <1>1, <1>4
  <2>2. ops'[q] = ops[q]
    BY <1>0, <1>4, <2>1
  <2> QED
    BY <1>1, <1>2, <1>4, <2>2
<1>5. ASSUME NEW p \in Peers, NegotiationNeeded(p)
      PROVE  i = 1 /\ sig'[q] # "have-remote-offer"
  <2>1. Enqueue(p, negotiation) /\ sig[p] = "stable" /\ ops[p] = <<>> /\ UNCHANGED sig
    BY <1>5 DEF NegotiationNeeded
  <2>2. CASE q = p
    <3>1. ops'[p] = Append(<<>>, negotiation)
      BY <1>0, <2>1 DEF Enqueue
    <3>2. ops'[p] = <<negotiation>>
      BY <3>1
    <3> HIDE DEF negotiation
    <3> QED
      BY <1>1, <2>1, <2>2, <3>2
  <2>3. CASE q # p
    <3>1. ops'[q] = ops[q]
      BY <1>0, <2>1, <2>3 DEF Enqueue
    <3> QED
      BY <1>1, <1>2, <2>1, <3>1
  <2> QED
    BY <2>2, <2>3
<1>6. ASSUME NEW p \in Peers, Deliver(p)
      PROVE  i = 1 /\ sig'[q] # "have-remote-offer"
  <2>1. UNCHANGED sig
    BY <1>6, HandledFrom
  <2>2. \/ ops' = ops
        \/ \E op \in Operation : Enqueue(p, op) /\ op # negotiation
    <3>1. AddIce # negotiation /\ \A sdp \in Sdp : \A f \in {"offer", "answer"} : SetRemote(f, sdp) # negotiation
      BY DEF AddIce, SetRemote, SetLocal
    <3> HIDE DEF negotiation
    <3> QED
      BY <1>6, <3>1, HandledFrom, OperationTypes
  <2>3. i \in DOMAIN ops[q] /\ ops[q][i] = negotiation
    <3>1. ASSUME NEW op \in Operation, Enqueue(p, op), op # negotiation
          PROVE  i \in DOMAIN ops[q] /\ ops[q][i] = negotiation
      BY <1>1, <3>1, Enqueued
    <3> QED
      BY <1>1, <2>2, <3>1
  <2> QED
    BY <1>2, <2>1, <2>3
<1>7. ASSUME NEW p \in Peers, Dequeues(p), \A r \in Peers : r # p => sig'[r] = sig[r]
      PROVE  i = 1 /\ sig'[q] # "have-remote-offer"
  <2>1. CASE q = p
    <3>1. SetLocal("answer") # negotiation
      BY DEF SetLocal
    <3>2. i + 1 \in DOMAIN ops[p] /\ ops[p][i + 1] = negotiation
      BY <1>1, <1>7, <2>1, <3>1, DequeuedElements
    <3>3. i + 1 = 1
      BY <3>2 DEF NegotiatesFirst
    <3>4. ops'[p] \in Seq(Operation)
      <4>1. Tail(ops[p]) \in Seq(Operation)
        BY <1>7, QueueHead DEF Dequeues
      <4>2. Append(Tail(ops[p]), SetLocal("answer")) \in Seq(Operation)
        BY <4>1, OperationTypes
      <4> QED
        BY <1>0, <1>7, <4>1, <4>2 DEF Dequeues
    <3> QED
      BY <1>1, <2>1, <3>3, <3>4
  <2>2. CASE q # p
    <3>1. ops'[q] = ops[q]
      BY <1>7, <2>2, DequeuedElements
    <3> QED
      BY <1>1, <1>2, <1>7, <2>2, <3>1
  <2> QED
    BY <2>1, <2>2
<1> QED
  BY <1>3, <1>4, <1>5, <1>6, <1>7, OpsChanges

-----------------------------------------------------------------------------
(* What is agreed.                                                          *)

(* The head of the queue, if it is a remote description.                    *)
LEMMA HeadFromRemote ==
    ASSUME PInv, NEW p \in Peers, ops[p] # <<>>, Head(ops[p]).op = "setRemoteDescription"
    PROVE  /\ FromRemote(p, remote[p], Head(ops[p]))
           /\ remote[p] \in Peers
BY QueueHead DEF PInv, IInv, Pairing, Pending, OpsFromRemote, Operation

(* Who touches descriptions, and what it makes of them.                     *)
LEMMA DescriptionChanges ==
    ASSUME PInv, [Next]_vars
    PROVE  \/ UNCHANGED <<sig, remoteOffer, agreed>>
           \/ \E p \in Peers : LocalDescriptionSet(p)
           \/ \E p \in Peers : RemoteOfferSet(p)
           \/ \E p \in Peers : RemoteAnswerSet(p)
<1> USE DEF rtc, session, network
<1>1. ASSUME NEW p \in Peers, OfferReady(p) \/ AnswerReady(p) PROVE LocalDescriptionSet(p)
  BY <1>1 DEF OfferReady, AnswerReady
<1>2. ASSUME NEW p \in Peers, Deliver(p) PROVE UNCHANGED <<sig, remoteOffer, agreed>>
  BY <1>2 DEF Deliver, HandleSignalingMessage
<1>3. ASSUME NEW p \in Peers,
             \/ NegotiationNeeded(p) \/ OfferPublished(p) \/ IceAdded(p) \/ FinishClose(p) \/ ChannelOpen(p)
             \/ UserStep(p) \/ EnvStep(p)
      PROVE  UNCHANGED <<sig, remoteOffer, agreed>>
  BY <1>3 DEF NegotiationNeeded, OfferPublished, IceAdded, FinishClose, ChannelOpen, UserStep, EnvStep,
     Start, ChangeTracks, Close, GatherIce, ChannelClose, ConnectionFailed
<1>4. ASSUME NEW j \in Joiners, Connect(j) \/ Break(j) PROVE UNCHANGED <<sig, remoteOffer, agreed>>
  BY <1>4 DEF Connect, Break
<1>5. CASE UNCHANGED vars
  BY <1>5 DEF vars
<1> QED
  BY <1>1, <1>2, <1>3, <1>4, <1>5 DEF Next, SessionStep

LEMMA DescriptionStep ==
    ASSUME PInv, [Next]_vars
    PROVE  AnswersRemote' /\ AgreedInPair'
<1> USE DEF PInv, Pairing, IInv, InPair
<1>0. /\ sig \in [Peers -> {"stable", "have-local-offer", "have-remote-offer"}]
      /\ remoteOffer \in [Peers -> OfferId \cup {None}]
      /\ agreed \in [Peers -> [offer: OfferId, answerer: Peers] \cup {None}]
  BY DEF TypeOK, ConnectionTypes
<1>1. \A q \in Peers : remote[q] \in Peers => remote'[q] = remote[q]
  BY LockKept, PeersAssumption
<1>2. ASSUME NEW q \in Peers, sig'[q] = sig[q], remoteOffer'[q] = remoteOffer[q]
      PROVE  sig'[q] = "have-remote-offer" => remoteOffer'[q].by = remote'[q] /\ remote'[q] \in Peers
  BY <1>1, <1>2 DEF AnswersRemote, MakesAnswer
<1>3. ASSUME NEW q \in Peers, agreed'[q] = agreed[q]
      PROVE  agreed'[q] # None => InPair(q, agreed[q])'
  BY <1>1, <1>3 DEF AgreedInPair
<1>4. SUFFICES ASSUME NEW q \in Peers
               PROVE  /\ sig'[q] = "have-remote-offer" => remoteOffer'[q].by = remote'[q] /\ remote'[q] \in Peers
                      /\ agreed'[q] # None => InPair(q, agreed[q])'
  BY DEF AnswersRemote, AgreedInPair, MakesAnswer
<1>5. CASE UNCHANGED <<sig, remoteOffer, agreed>>
  BY <1>2, <1>3, <1>5
<1>6. ASSUME NEW p \in Peers, LocalDescriptionSet(p)
      PROVE  /\ sig'[q] = "have-remote-offer" => remoteOffer'[q].by = remote'[q] /\ remote'[q] \in Peers
             /\ agreed'[q] # None => InPair(q, agreed[q])'
  <2>1. CASE MakesAnswer(p)
    <3>1. /\ sig' = [sig EXCEPT ![p] = "stable"]
          /\ agreed' = [agreed EXCEPT ![p] = [offer |-> remoteOffer[p], answerer |-> p]]
          /\ remoteOffer' = [remoteOffer EXCEPT ![p] = None]
      BY <1>6, <2>1 DEF LocalDescriptionSet, CreateAnswer
    <3>2. remoteOffer[p].by = remote[p] /\ remote[p] \in Peers
      BY <2>1 DEF AnswersRemote
    <3>3. CASE q = p
      <4>1. sig'[p] = "stable" /\ agreed'[p].offer = remoteOffer[p] /\ agreed'[p].answerer = p
        BY <1>0, <3>1
      <4> QED
        BY <1>1, <3>2, <3>3, <4>1
    <3>4. CASE q # p
      BY <1>0, <1>2, <1>3, <3>1, <3>4
    <3> QED
      BY <3>3, <3>4
  <2>2. CASE ~MakesAnswer(p)
    <3>1. /\ sig' = [sig EXCEPT ![p] = "have-local-offer"]
          /\ UNCHANGED <<agreed, remoteOffer>>
      BY <1>6, <2>2 DEF LocalDescriptionSet, CreateOffer
    <3>2. CASE q = p
      BY <1>0, <1>3, <3>1, <3>2
    <3>3. CASE q # p
      BY <1>0, <1>2, <1>3, <3>1, <3>3
    <3> QED
      BY <3>2, <3>3
  <2> QED
    BY <2>1, <2>2
<1>7. ASSUME NEW p \in Peers, RemoteOfferSet(p)
      PROVE  /\ sig'[q] = "have-remote-offer" => remoteOffer'[q].by = remote'[q] /\ remote'[q] \in Peers
             /\ agreed'[q] # None => InPair(q, agreed[q])'
  <2>1. /\ sig' = [sig EXCEPT ![p] = "have-remote-offer"] /\ agreed' = agreed
        /\ remoteOffer' = [remoteOffer EXCEPT ![p] = Head(ops[p]).sdp.offer]
        /\ ops[p] # <<>> /\ Head(ops[p]).for = "offer"
    BY <1>7 DEF RemoteOfferSet
  <2>2. Head(ops[p]).op = "setRemoteDescription"
    BY <2>1, QueueHead DEF Operation
  <2>3. Head(ops[p]).sdp.offer.by = remote[p] /\ remote[p] \in Peers
    BY <2>1, <2>2, HeadFromRemote DEF FromRemote
  <2>4. CASE q = p
    <3>1. remoteOffer'[p].by = remote[p]
      BY <1>0, <2>1, <2>3
    <3> QED
      BY <1>1, <1>3, <2>1, <2>3, <2>4, <3>1
  <2>5. CASE q # p
    BY <1>0, <1>2, <1>3, <2>1, <2>5
  <2> QED
    BY <2>4, <2>5
<1>8. ASSUME NEW p \in Peers, RemoteAnswerSet(p)
      PROVE  /\ sig'[q] = "have-remote-offer" => remoteOffer'[q].by = remote'[q] /\ remote'[q] \in Peers
             /\ agreed'[q] # None => InPair(q, agreed[q])'
  <2>1. /\ ops[p] # <<>> /\ Head(ops[p]).for = "answer" /\ Head(ops[p]).op = "setRemoteDescription"
        /\ remoteOffer' = remoteOffer
    BY <1>8 DEF RemoteAnswerSet
  <2>2. CASE sig[p] = "have-local-offer"
    <3>1. /\ sig' = [sig EXCEPT ![p] = "stable"]
          /\ agreed' = [agreed EXCEPT ![p] = [offer |-> Head(ops[p]).sdp.offer, answerer |-> Head(ops[p]).sdp.by]]
      BY <1>8, <2>2 DEF RemoteAnswerSet
    <3>2. /\ Head(ops[p]).sdp.by = remote[p] /\ Head(ops[p]).sdp.offer.by \in {p, remote[p]}
          /\ remote[p] \in Peers
      BY <2>1, HeadFromRemote DEF FromRemote
    <3>3. CASE q = p
      <4>1. /\ sig'[p] = "stable" /\ agreed'[p].offer = Head(ops[p]).sdp.offer
            /\ agreed'[p].answerer = Head(ops[p]).sdp.by
        BY <1>0, <3>1
      <4> QED
        BY <1>1, <3>2, <3>3, <4>1
    <3>4. CASE q # p
      BY <1>0, <1>2, <1>3, <2>1, <3>1, <3>4
    <3> QED
      BY <3>3, <3>4
  <2>3. CASE sig[p] # "have-local-offer"
    <3>1. UNCHANGED <<sig, agreed>>
      BY <1>8, <2>3 DEF RemoteAnswerSet
    <3> QED
      BY <1>5, <2>1, <3>1
  <2> QED
    BY <2>2, <2>3
<1> QED
  BY <1>5, <1>6, <1>7, <1>8, DescriptionChanges

(* A path is between connections that agree; so it leads to the peer that   *)
(* the inviter is locked to.                                                *)
LEMMA PathStep ==
    ASSUME PInv, [Next]_vars
    PROVE  OnePath'
<1> USE DEF PInv, Pairing, IInv, rtc, session, network
<1>0. /\ Inviter \in Peers /\ Joiners \subseteq Peers /\ None \notin Peers /\ Inviter \notin Joiners
      /\ linked \subseteq Joiners /\ state \in [Peers -> {"idle", "connecting", "connected", "closed", "failed"}]
  BY PeersAssumption DEF Peers, TypeOK, NetworkTypes, SessionTypes
<1>1. \A j \in Joiners : remote[Inviter] = j => remote'[Inviter] = j
  BY <1>0, LockKept
<1>2. ASSUME linked' \subseteq linked, \A j \in Joiners : state'[j] = "connected" => state[j] = "connected"
      PROVE  OnePath'
  BY <1>0, <1>1, <1>2 DEF OnePath
<1>3. ASSUME NEW p \in Peers, ChannelOpen(p) PROVE OnePath'
  <2>1. linked' = linked /\ state' = [state EXCEPT ![p] = "connected"] /\ HasPath(p)
    BY <1>3 DEF ChannelOpen, SetState
  <2>2. p \in Joiners => remote[Inviter] = p
    BY <1>0, <2>1 DEF HasPath, OnePath
  <2>3. \A j \in Joiners : state'[j] = "connected" => remote[Inviter] = j
    BY <1>0, <2>1, <2>2 DEF OnePath
  <2> QED
    BY <1>0, <1>1, <2>1, <2>3 DEF OnePath
<1>4. ASSUME NEW j \in Joiners, Connect(j) PROVE OnePath'
  <2>1. linked' = linked \cup {j} /\ state' = state /\ agreed[j] # None /\ agreed[j] = agreed[Inviter]
    BY <1>4 DEF Connect
  <2>2. InPair(j, agreed[j]) /\ InPair(Inviter, agreed[j]) /\ remote[j] = Inviter
    BY <1>0, <2>1 DEF AgreedInPair, Locked
  <2>3. remote[Inviter] \in {j, Inviter} /\ remote[Inviter] \in Joiners
    BY <1>0, <2>2 DEF InPair, Locked
  <2>4. remote[Inviter] = j
    BY <1>0, <2>3
  <2> QED
    BY <1>0, <1>1, <2>1, <2>4 DEF OnePath
<1>5. ASSUME NEW j \in Joiners, Break(j) PROVE OnePath'
  BY <1>2, <1>5 DEF Break
<1>6. ASSUME NEW p \in Peers, SessionStep(p) \/ UserStep(p) \/ EnvStep(p), ~ChannelOpen(p)
      PROVE  OnePath'
  <2>1. linked' = linked
    <3>1. ASSUME Deliver(p) PROVE linked' = linked
      BY <3>1 DEF Deliver, HandleSignalingMessage
    <3> QED
      BY <1>6, <3>1 DEF SessionStep, UserStep, EnvStep, NegotiationNeeded, OfferReady, OfferPublished,
         RemoteOfferSet, AnswerReady, RemoteAnswerSet, IceAdded, FinishClose, Start, ChangeTracks, Close,
         GatherIce, ChannelClose, ConnectionFailed
  <2>2. \A q \in Peers : state'[q] = "connected" => state[q] = "connected"
    <3>1. ASSUME NEW s, SetState(p, s), s # "connected"
          PROVE  \A q \in Peers : state'[q] = "connected" => state[q] = "connected"
      BY <1>0, <3>1 DEF SetState
    <3>2. ASSUME NEW mb, CloseNow(p, mb) PROVE SetState(p, "closed")
      BY <3>2 DEF CloseNow
    <3>3. ASSUME Deliver(p) PROVE state' = state \/ SetState(p, "closed")
      <4>1. PICK i \in DOMAIN mail[p] : HandleSignalingMessage(p, i)
        BY <3>3 DEF Deliver
      <4> QED
        BY <3>2, <4>1 DEF HandleSignalingMessage, HandleOffer, HandleAnswer, HandleIce, HandleBye
    <3>4. ASSUME UserStep(p) \/ EnvStep(p)
          PROVE  state' = state \/ \E s \in {"connecting", "closed", "failed"} : SetState(p, s)
      BY <3>2, <3>4 DEF UserStep, EnvStep, Start, ChangeTracks, Close, GatherIce, ChannelClose, ConnectionFailed
    <3>5. ASSUME SessionStep(p), ~Deliver(p) PROVE state' = state
      BY <1>6, <3>5 DEF SessionStep, NegotiationNeeded, OfferReady, OfferPublished,
         RemoteOfferSet, AnswerReady, RemoteAnswerSet, IceAdded, FinishClose
    <3> QED
      BY <1>6, <3>1, <3>3, <3>4, <3>5
  <2> QED
    BY <1>0, <1>2, <2>1, <2>2
<1>7. CASE UNCHANGED vars
  BY <1>2, <1>7 DEF vars
<1> QED
  BY <1>3, <1>4, <1>5, <1>6, <1>7 DEF Next

-----------------------------------------------------------------------------
(* handleSignalingMessage (packages/core/src/peer-session.ts) locks to the  *)
(* first peer it accepts a description from: no exchange has a third party, *)
(* and of all the joiners that answer one alone is ever "connected", for    *)
(* any number of joiners, track changes and failures, in any order of       *)
(* messages.                                                                *)
THEOREM ExchangesStay == Spec => []ExchangesStayInPair
<1>1. Init => PInv
  BY Initially, PairingInit DEF PInv
<1>2. PInv /\ [Next]_vars => PInv'
  <2>1. PInv /\ [Next]_vars => IInv'
    BY Inductive DEF PInv
  <2> QED
    BY <2>1, MailStep, OpsStep, NegotiationStep, LockKept, DescriptionStep, PathStep DEF PInv, Pairing
<1>3. PInv => ExchangesStayInPair
  BY DEF PInv, Pairing, AgreedInPair, InPair, OnePath, ExchangesStayInPair
<1> QED
  BY <1>1, <1>2, <1>3, PTL DEF Spec
=============================================================================
