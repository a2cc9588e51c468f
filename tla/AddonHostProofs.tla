--------------------------- MODULE AddonHostProofs ---------------------------
(* Theorems about AddonHost, for every set of kinds, captures, remote tracks and
   requests, and for every bound. *)
EXTENDS AddonHost, FiniteSetTheorems, TLAPS

(* Nothing is on its way to or from a host that is closed. *)
ClosedIsQuiet == state = "closed" => toHost = <<>> /\ toAddon = <<>>

(* Where init is: not posted before the handshake, then on its way, then read;
   and every delivery comes after it. *)
InitOnce ==
    /\ \A i, j \in DOMAIN toAddon : toAddon[i] = InitMsg /\ toAddon[j] = InitMsg => i = j
    /\ context => \A i \in DOMAIN toAddon : toAddon[i] # InitMsg
    /\ \A i \in DOMAIN toAddon : toAddon[i] = DeliverMsg =>
          context \/ \E j \in DOMAIN toAddon : toAddon[j] = InitMsg /\ j < i
    /\ state = "mounted" => ~context /\ \A i \in DOMAIN toAddon : toAddon[i] # InitMsg
    /\ state \in {"initialized", "active"} =>
          context \/ \E i \in DOMAIN toAddon : toAddon[i] = InitMsg

(* A capture gives one track to one kind, and a capture under way is of a track that
   nobody has yet. A track is live because the host sends it, or sent it once and has
   overwritten its sender. *)
Capture(t, k) == [track |-> t, kind |-> k]

OwnTracks ==
    /\ \A c, d \in captured : c.track = d.track => c = d
    /\ \A k \in Kinds : senders[k] # None =>
          /\ senders[k] \in live \ overwritten
          /\ Capture(senders[k], k) \in captured
    /\ \A t \in live \ overwritten : \E k \in Kinds : senders[k] = t
    /\ \A t \in live \cup overwritten : \E c \in captured : c.track = t
    /\ \A c \in capturing : c \in captured /\ c.track \notin live \cup overwritten

(* A detacher is for an attached track of its own kind. *)
OwnDetachers ==
    \A k \in Kinds : detachers[k] # None =>
        /\ detachers[k] \in sink
        /\ Kind[detachers[k]] = k
        /\ remoteTracks[detachers[k]] = "attached"

(* The last word on its way to the add-on about a kind, or what it has read last
   when there is none, is what the host holds. *)
About(m, k) == m = Added(k) \/ m = Removed(k)

LastWord ==
    state # "closed" => \A k \in Kinds :
        /\ \A i \in DOMAIN toAddon :
              About(toAddon[i], k) /\ (\A j \in DOMAIN toAddon : j > i => ~About(toAddon[j], k))
                  => (toAddon[i] = Added(k) <=> senders[k] # None)
        /\ (\A i \in DOMAIN toAddon : ~About(toAddon[i], k))
              => (k \in sending <=> senders[k] # None)

(* An open request is in one place only: on its way, at the backend, or answered
   with the answer on its way. *)
Request(rid) == Message("storage", None, rid)

Holds(q, x) == \E i \in DOMAIN q : q[i] = x
Once(q, x) == \A i, j \in DOMAIN q : q[i] = x /\ q[j] = x => i = j

Place(rid) ==
    /\ Once(toHost, Request(rid))
    /\ Once(toAddon, Result(rid))
    /\ ~Holds(toAddon, Request(rid))
    /\ Holds(toHost, Request(rid)) =>
          rid \in pending /\ rid \notin storing /\ ~Holds(toAddon, Result(rid))
    /\ rid \in storing => rid \in pending /\ ~Holds(toAddon, Result(rid))
    /\ Holds(toAddon, Result(rid)) => rid \in pending
    /\ rid \in pending => rid \in asked

OnePlace == \A rid \in Requests : Place(rid)

(* The inductive invariant. *)
IInv ==
    /\ TypeOK
    /\ ClosedIsQuiet
    /\ InitOnce
    /\ OwnTracks
    /\ OwnDetachers
    /\ LastWord
    /\ OnePlace

-----------------------------------------------------------------------------
(* Messages and queues. *)

(* The messages the two sides post are window messages. *)
LEMMA MessageTypes ==
    /\ InitMsg \in WindowMessage /\ DeliverMsg \in WindowMessage
    /\ \A k \in Kinds : Added(k) \in WindowMessage /\ Removed(k) \in WindowMessage
    /\ \A rid \in Requests : Result(rid) \in WindowMessage /\ Request(rid) \in WindowMessage
    /\ \A m \in Commands : m \in WindowMessage /\ \A rid \in Requests : m # Request(rid)
<1>1. /\ InitMsg \in WindowMessage /\ DeliverMsg \in WindowMessage
      /\ \A k \in Kinds : Added(k) \in WindowMessage /\ Removed(k) \in WindowMessage
      /\ \A rid \in Requests : Result(rid) \in WindowMessage /\ Request(rid) \in WindowMessage
  BY DEF WindowMessage, Message, InitMsg, DeliverMsg, Added, Removed, Result, Request
<1>2. ASSUME NEW m \in Commands
      PROVE  m \in WindowMessage /\ \A rid \in Requests : m # Request(rid)
  <2>1. CASE m = Message("ready", None, None)
    BY <2>1 DEF WindowMessage, Message, Request
  <2>2. ASSUME NEW op \in {"media.send.start", "media.send.stop", "media.receive.subscribe",
                           "media.receive.unsubscribe"}, NEW k \in Kinds,
               m = Message(op, k, None)
        PROVE  m \in WindowMessage /\ \A rid \in Requests : m # Request(rid)
    <3>1. m = [op |-> op, kind |-> k, rid |-> None]
      BY <2>2 DEF Message
    <3>2. m.op # "storage"
      BY <3>1
    <3> QED
      BY <3>1, <3>2 DEF WindowMessage, Message, Request
  <2> QED
    BY <2>1, <2>2 DEF Commands
<1> QED
  BY <1>1, <1>2

(* What a message's op says about its other fields. *)
LEMMA Fields ==
    ASSUME NEW m \in WindowMessage
    PROVE  /\ m.op = "storage" => m.rid \in Requests /\ m = Request(m.rid)
           /\ m.op \in {"media.send.start", "media.send.stop", "media.receive.subscribe",
                        "media.receive.unsubscribe", "media.track added",
                        "media.track removed"} => m.kind \in Kinds
           /\ m.op = "media.track added" => m = Added(m.kind)
           /\ m.op = "media.track removed" => m = Removed(m.kind)
           /\ m.op = "init" <=> m = InitMsg
           /\ \A rid \in Requests : m.rid = rid /\ m.op # "storage" => m = Result(rid)
<1> DEFINE media == {"media.send.start", "media.send.stop", "media.receive.subscribe",
                     "media.receive.unsubscribe", "media.track added", "media.track removed"}
<1>1. m = [op |-> m.op, kind |-> m.kind, rid |-> m.rid]
  BY DEF WindowMessage
<1>2. \/ m.op \in {"ready", "init", "deliver"} /\ m.kind = None /\ m.rid = None
      \/ m.op \in media /\ m.kind \in Kinds /\ m.rid = None
      \/ m.op \in {"storage", "storage.result"} /\ m.kind = None /\ m.rid \in Requests
  BY DEF WindowMessage
<1>3. m.op = "storage" => m.rid \in Requests /\ m = Request(m.rid)
  BY <1>1, <1>2 DEF Message, Request
<1>4. m.op \in media => m.kind \in Kinds
  BY <1>2
<1>5. m.op = "media.track added" => m = Added(m.kind)
  BY <1>1, <1>2 DEF Message, Added
<1>6. m.op = "media.track removed" => m = Removed(m.kind)
  BY <1>1, <1>2 DEF Message, Removed
<1>7. m.op = "init" => m = InitMsg
  BY <1>1, <1>2 DEF Message, InitMsg
<1>8. m = InitMsg => m.op = "init"
  BY DEF Message, InitMsg
<1>9. ASSUME NEW rid \in Requests, m.rid = rid, m.op # "storage"
      PROVE  m = Result(rid)
  <2>1. m.op = "storage.result" /\ m.kind = None
    BY <1>2, <1>9, NoneAssumption
  <2> QED
    BY <1>1, <1>9, <2>1 DEF Message, Result
<1> QED
  BY <1>3, <1>4, <1>5, <1>6, <1>7, <1>8, <1>9

(* The host takes the message at the head of its queue. *)
Takes(m) ==
    /\ toHost # <<>>
    /\ m = Head(toHost)
    /\ toHost' = Tail(toHost)
    /\ UNCHANGED <<loaded, addon>>

(* The head of a queue is one of its messages, and the rest are those behind it. *)
LEMMA QueueHead ==
    ASSUME NEW q \in Seq(WindowMessage), q # <<>>
    PROVE  /\ Head(q) \in WindowMessage /\ Head(q) = q[1] /\ 1 \in DOMAIN q
           /\ Tail(q) \in Seq(WindowMessage)
           /\ DOMAIN Tail(q) = 1..(Len(q) - 1) /\ DOMAIN q = 1..Len(q)
           /\ \A i \in DOMAIN Tail(q) : i + 1 \in DOMAIN q /\ Tail(q)[i] = q[i + 1]
           /\ Len(q) \in Nat \ {0}
<1>1. Len(q) \in Nat \ {0} /\ DOMAIN q = 1..Len(q)
  OBVIOUS
<1>2. Tail(q) \in Seq(WindowMessage) /\ Len(Tail(q)) = Len(q) - 1
  OBVIOUS
<1>3. DOMAIN Tail(q) = 1..(Len(q) - 1)
  BY <1>2
<1>4. \A i \in 1..(Len(q) - 1) : i + 1 \in 1..Len(q) /\ Tail(q)[i] = q[i + 1]
  BY <1>1
<1> QED
  BY <1>1, <1>2, <1>3, <1>4

(* postToIframe of one message, by an open host, puts it behind the others. *)
LEMMA PostOne ==
    ASSUME toAddon \in Seq(WindowMessage), state # "closed", NEW m \in WindowMessage,
           PostToIframe(<<m>>)
    PROVE  /\ toAddon' \in Seq(WindowMessage)
           /\ DOMAIN toAddon' = DOMAIN toAddon \cup {Len(toAddon) + 1}
           /\ \A i \in DOMAIN toAddon : /\ toAddon'[i] = toAddon[i]
                                        /\ i \in Nat /\ i < Len(toAddon) + 1
           /\ toAddon'[Len(toAddon) + 1] = m
           /\ Len(toAddon) \in Nat
<1>1. toAddon' = Append(toAddon, m)
  BY DEF PostToIframe
<1>2. DOMAIN toAddon = 1..Len(toAddon) /\ Len(toAddon) \in Nat
  OBVIOUS
<1>3. Append(toAddon, m) \in Seq(WindowMessage) /\ Len(Append(toAddon, m)) = Len(toAddon) + 1
  OBVIOUS
<1>4. DOMAIN Append(toAddon, m) = 1..(Len(toAddon) + 1)
  BY <1>3
<1> QED
  BY <1>1, <1>2, <1>3, <1>4

(* postToIframe of nothing, or by a closed host, changes nothing. *)
LEMMA PostNone ==
    ASSUME toAddon \in Seq(WindowMessage), NEW ms,
           ms = <<>> \/ state = "closed", PostToIframe(ms)
    PROVE  toAddon' = toAddon
BY DEF PostToIframe

(* Whatever is posted, the queue stays one of window messages. *)
LEMMA PostType ==
    ASSUME toAddon \in Seq(WindowMessage), NEW ms \in Seq(WindowMessage), PostToIframe(ms)
    PROVE  toAddon' \in Seq(WindowMessage)
BY DEF PostToIframe

-----------------------------------------------------------------------------
(* Types *)

(* Every step keeps the types. *)
LEMMA TypeStep ==
    ASSUME TypeOK, [Next]_vars
    PROVE  TypeOK'
<1> USE DEF host, devices, addon
<1>0. /\ toHost \in Seq(WindowMessage) /\ toAddon \in Seq(WindowMessage)
      /\ <<>> \in Seq(WindowMessage)
      /\ \A m \in WindowMessage : <<m>> \in Seq(WindowMessage)
  BY DEF TypeOK
<1>1. ASSUME OnIframeLoad PROVE TypeOK'
  <2>1. toAddon' \in Seq(WindowMessage)
    BY <1>0, <1>1, MessageTypes, PostType DEF OnIframeLoad
  <2> QED
    BY <1>1, <2>1 DEF OnIframeLoad, TypeOK
<1>2. ASSUME NEW m, Takes(m)
      PROVE  m \in WindowMessage /\ toHost' \in Seq(WindowMessage)
  BY <1>0, <1>2, QueueHead DEF Takes
<1>3. ASSUME NEW m, Takes(m), HandleReady(m) PROVE TypeOK'
  <2>1. toAddon' \in Seq(WindowMessage)
    BY <1>0, <1>3, MessageTypes, PostType DEF HandleReady, EnsureInitPosted
  <2> QED
    BY <1>2, <1>3, <2>1 DEF HandleReady, Takes, TypeOK
<1>4. ASSUME NEW m, Takes(m), HandleStorage(m) PROVE TypeOK'
  <2>1. m.rid \in Requests
    BY <1>2, <1>4, Fields DEF HandleStorage
  <2>2. toAddon' \in Seq(WindowMessage)
    BY <1>0, <1>4, <2>1, MessageTypes, PostType DEF HandleStorage
  <2> QED
    BY <1>2, <1>4, <2>1, <2>2 DEF HandleStorage, Takes, TypeOK
<1>5. ASSUME NEW m, Takes(m), HandleSendStart(m) PROVE TypeOK'
  <2>1. m.kind \in Kinds
    BY <1>2, <1>5, Fields DEF HandleSendStart
  <2>2. toAddon' \in Seq(WindowMessage)
    BY <1>0, <1>5, <2>1, MessageTypes, PostType DEF HandleSendStart
  <2>3. capturing' \subseteq [track: Captures, kind: Kinds] /\ captured' \subseteq [track: Captures, kind: Kinds]
    BY <1>5, <2>1 DEF HandleSendStart, StartCapture, TypeOK
  <2> QED
    BY <1>2, <1>5, <2>2, <2>3 DEF HandleSendStart, Takes, TypeOK
<1>6. ASSUME NEW m, Takes(m), HandleSendStop(m) PROVE TypeOK'
  <2>1. m.kind \in Kinds
    BY <1>2, <1>6, Fields DEF HandleSendStop
  <2>2. toAddon' \in Seq(WindowMessage)
    BY <1>0, <1>6, <2>1, MessageTypes, PostType DEF HandleSendStop
  <2> QED
    BY <1>2, <1>6, <2>1, <2>2 DEF HandleSendStop, Takes, TypeOK
<1>7. ASSUME NEW m, Takes(m), HandleReceiveSubscribe(m) \/ HandleReceiveUnsubscribe(m)
      PROVE  TypeOK'
  BY <1>2, <1>7, Fields DEF HandleReceiveSubscribe, HandleReceiveUnsubscribe, Takes, TypeOK
<1>8. ASSUME Deliver PROVE TypeOK'
  <2>1. toAddon' \in Seq(WindowMessage)
    BY <1>0, <1>8, MessageTypes, PostType DEF Deliver
  <2> QED
    BY <1>8, <2>1 DEF Deliver, TypeOK
<1>9. ASSUME NEW rid \in Requests, StorageDone(rid) PROVE TypeOK'
  <2>1. toAddon' \in Seq(WindowMessage)
    BY <1>0, <1>9, MessageTypes, PostType DEF StorageDone
  <2> QED
    BY <1>9, <2>1 DEF StorageDone, TypeOK
<1>10. ASSUME NEW rid \in Requests, RpcStorage(rid) PROVE TypeOK'
  <2>1. Message("storage", None, rid) \in WindowMessage
    BY MessageTypes DEF Request
  <2> QED
    BY <1>10, <2>1 DEF RpcStorage, TypeOK
<1>11. ASSUME NEW c \in capturing, CaptureSucceeds(c) PROVE TypeOK'
  <2>1. c.track \in Captures /\ c.kind \in Kinds
    BY DEF TypeOK
  <2>2. toAddon' \in Seq(WindowMessage)
    BY <1>0, <1>11, <2>1, MessageTypes, PostType DEF CaptureSucceeds
  <2> QED
    BY <1>11, <2>1, <2>2 DEF CaptureSucceeds, TypeOK
<1>12. ASSUME NEW c \in capturing, CaptureFails(c) PROVE TypeOK'
  BY <1>12 DEF CaptureFails, TypeOK
<1>13. ASSUME NEW t \in RemoteTracks, HandleRemoteTrack(t) \/ RemoteTrackEnds(t) PROVE TypeOK'
  <2>1. /\ UNCHANGED <<state, senders, wants, capturing, storing, live, captured, overwritten,
                        linked, texts, toHost, toAddon, loaded, addon>>
        /\ Kind[t] \in Kinds
    BY <1>13, KindAssumption DEF HandleRemoteTrack, RemoteTrackEnds
  <2>2. /\ sink' \subseteq RemoteTracks
        /\ remoteTracks' \in [RemoteTracks -> {"new", "ignored", "attached", "ended"}]
        /\ detachers' \in [Kinds -> RemoteTracks \cup {None}]
    BY <1>13, <2>1 DEF HandleRemoteTrack, RemoteTrackEnds, TypeOK
  <2> QED
    BY <2>1, <2>2 DEF TypeOK
<1>14. ASSUME Close PROVE TypeOK'
  BY <1>0, <1>14 DEF Close, TypeOK
<1>15. ASSUME SessionCloses PROVE TypeOK'
  BY <1>15 DEF SessionCloses, TypeOK
<1>16. ASSUME NEW m \in Commands, Post(m) PROVE TypeOK'
  BY <1>16, MessageTypes DEF Post, TypeOK
<1>17. ASSUME OnMessage PROVE TypeOK'
  <2> DEFINE m == Head(toAddon)
  <2>1. m \in WindowMessage /\ toAddon' \in Seq(WindowMessage)
    BY <1>0, <1>17, QueueHead DEF OnMessage
  <2>2. m.op \in {"media.track added", "media.track removed"} => m.kind \in Kinds
    BY <2>1, Fields
  <2>3. sending' \subseteq Kinds
    BY <1>17, <2>2 DEF OnMessage, TypeOK
  <2> QED
    BY <1>17, <2>1, <2>3 DEF OnMessage, TypeOK
<1>18. ASSUME UNCHANGED vars PROVE TypeOK'
  BY <1>18 DEF vars, TypeOK
<1> QED
  BY <1>1, <1>3, <1>4, <1>5, <1>6, <1>7, <1>8, <1>9, <1>10, <1>11, <1>12, <1>13, <1>14,
     <1>15, <1>16, <1>17, <1>18 DEF Next, HandleWindowMessage, Takes

-----------------------------------------------------------------------------
(* Media *)

(* A closed host stays closed, and with it nothing is on its way any more. *)
LEMMA QuietStep ==
    ASSUME TypeOK, ClosedIsQuiet, [Next]_vars
    PROVE  ClosedIsQuiet'
<1> USE DEF host, devices, addon, ClosedIsQuiet
<1>0. toAddon \in Seq(WindowMessage)
  BY DEF TypeOK
<1>1. ASSUME OnIframeLoad PROVE ClosedIsQuiet'
  BY <1>1 DEF OnIframeLoad
<1>2. ASSUME HandleWindowMessage PROVE ClosedIsQuiet'
  BY <1>2 DEF HandleWindowMessage, HandleReady, HandleStorage, HandleSendStart,
     HandleSendStop, HandleReceiveSubscribe, HandleReceiveUnsubscribe
<1>3. ASSUME Deliver PROVE ClosedIsQuiet'
  BY <1>3 DEF Deliver
<1>4. ASSUME NEW rid \in Requests, StorageDone(rid) \/ RpcStorage(rid) PROVE ClosedIsQuiet'
  BY <1>0, <1>4, PostNone DEF StorageDone, RpcStorage
<1>5. ASSUME NEW c \in capturing, CaptureSucceeds(c) \/ CaptureFails(c) PROVE ClosedIsQuiet'
  BY <1>0, <1>5, PostNone DEF CaptureSucceeds, CaptureFails
<1>6. ASSUME NEW t \in RemoteTracks, HandleRemoteTrack(t) \/ RemoteTrackEnds(t)
      PROVE  ClosedIsQuiet'
  BY <1>6 DEF HandleRemoteTrack, RemoteTrackEnds
<1>7. ASSUME Close \/ SessionCloses PROVE ClosedIsQuiet'
  BY <1>7 DEF Close, SessionCloses
<1>8. ASSUME NEW m \in Commands, Post(m) PROVE ClosedIsQuiet'
  BY <1>8 DEF Post
<1>9. ASSUME OnMessage PROVE ClosedIsQuiet'
  BY <1>9 DEF OnMessage
<1>10. ASSUME UNCHANGED vars PROVE ClosedIsQuiet'
  BY <1>10 DEF vars
<1> QED
  BY <1>1, <1>2, <1>3, <1>4, <1>5, <1>6, <1>7, <1>8, <1>9, <1>10 DEF Next

(* Two kinds never send one track. *)
LEMMA SendersDiffer ==
    ASSUME OwnTracks
    PROVE  \A j, k \in Kinds : senders[j] # None /\ senders[j] = senders[k] => j = k
<1> SUFFICES ASSUME NEW j \in Kinds, NEW k \in Kinds, senders[j] # None,
                    senders[j] = senders[k]
             PROVE  j = k
  OBVIOUS
<1>1. /\ Capture(senders[j], j) \in captured /\ Capture(senders[k], k) \in captured
      /\ Capture(senders[j], j).track = Capture(senders[k], k).track
  BY DEF OwnTracks, Capture
<1>2. Capture(senders[j], j) = Capture(senders[k], k)
  BY <1>1 DEF OwnTracks
<1>3. Capture(senders[j], j).kind = Capture(senders[k], k).kind
  BY <1>2
<1> QED
  BY <1>3 DEF Capture

(* Every step leaves the tracks that the host lists as sent live, and those that are
   live accounted for. *)
LEMMA OwnTracksStep ==
    ASSUME TypeOK, OwnTracks, [Next]_vars
    PROVE  OwnTracks'
<1> USE DEF host, devices, addon
<1>0. /\ senders \in [Kinds -> Captures \cup {None}] /\ None \notin Captures
      /\ capturing \subseteq [track: Captures, kind: Kinds]
  BY NoneAssumption DEF TypeOK
<1>1. ASSUME NEW m, Takes(m), HandleSendStart(m) PROVE OwnTracks'
  <2>1. CASE UNCHANGED <<capturing, captured>>
    BY <1>1, <2>1 DEF HandleSendStart, OwnTracks
  <2>2. ASSUME NEW t \in Captures \ {c.track : c \in captured},
               captured' = captured \cup {Capture(t, m.kind)},
               capturing' = capturing \cup {Capture(t, m.kind)}
        PROVE  OwnTracks'
    <3>1. t \notin live \cup overwritten /\ \A c \in captured : c.track # t
      BY <2>2 DEF OwnTracks
    <3>2. Capture(t, m.kind).track = t
      BY DEF Capture
    <3>3. senders' = senders /\ live' = live /\ overwritten' = overwritten
      BY <1>1 DEF HandleSendStart
    <3>4. \A c, d \in captured' : c.track = d.track => c = d
      BY <2>2, <3>1, <3>2 DEF OwnTracks
    <3> HIDE DEF Capture
    <3> QED
      BY <2>2, <3>1, <3>2, <3>3, <3>4 DEF OwnTracks
  <2> QED
    BY <1>1, <2>1, <2>2 DEF HandleSendStart, StartCapture, Capture
<1>2. ASSUME NEW m, Takes(m), HandleSendStop(m) PROVE OwnTracks'
  <2>1. toHost \in Seq(WindowMessage)
    BY DEF TypeOK
  <2>2. m.kind \in Kinds
    BY <1>2, <2>1, QueueHead, Fields DEF Takes, HandleSendStop
  <2>3. \A j, k \in Kinds : senders[j] # None /\ senders[j] = senders[k] => j = k
    BY SendersDiffer
  <2>4. /\ live' = live \ {senders[m.kind]}
        /\ senders' = [senders EXCEPT ![m.kind] = None]
        /\ UNCHANGED <<capturing, captured, overwritten>>
    BY <1>2 DEF HandleSendStop
  <2>5. \A k \in Kinds : senders'[k] # None => k # m.kind /\ senders'[k] = senders[k]
    BY <1>0, <2>2, <2>4
  <2>6. \A k \in Kinds : senders'[k] # None =>
            /\ senders'[k] \in live' \ overwritten'
            /\ Capture(senders'[k], k) \in captured'
    BY <2>2, <2>3, <2>4, <2>5 DEF OwnTracks
  <2>7. \A t \in live' \ overwritten' : \E k \in Kinds : senders'[k] = t
    BY <1>0, <2>2, <2>4 DEF OwnTracks
  <2> QED
    BY <2>4, <2>6, <2>7 DEF OwnTracks
<1>3. ASSUME NEW c \in capturing, CaptureSucceeds(c) PROVE OwnTracks'
  <2>1. /\ c.track \in Captures /\ c.kind \in Kinds /\ c = Capture(c.track, c.kind)
        /\ c \in captured /\ c.track \notin live \cup overwritten
    BY <1>0 DEF OwnTracks, Capture
  <2>2. \A d \in capturing' : d \in capturing /\ d # c /\ d.track # c.track
    BY <1>3 DEF CaptureSucceeds, OwnTracks
  <2>3. CASE linked
    <3> DEFINE o == senders[c.kind]
    <3>1. /\ live' = live \cup {c.track}
          /\ senders' = [senders EXCEPT ![c.kind] = c.track]
          /\ overwritten' = overwritten \cup ({o} \ {None})
          /\ capturing' = capturing \ {c} /\ captured' = captured
      BY <1>3, <2>3 DEF CaptureSucceeds
    <3>2. o # None => o \in live
      BY <2>1 DEF OwnTracks
    <3>3. \A k \in Kinds : k # c.kind => senders'[k] = senders[k]
      BY <1>0, <2>1, <3>1
    <3>4. senders'[c.kind] = c.track
      BY <1>0, <2>1, <3>1
    <3>5. \A k \in Kinds : k # c.kind /\ senders[k] # None => senders[k] # o
      BY <2>1, SendersDiffer
    <3> HIDE DEF o
    <3>6. ASSUME NEW k \in Kinds, senders'[k] # None
          PROVE  /\ senders'[k] \in live' \ overwritten'
                 /\ Capture(senders'[k], k) \in captured'
      <4>1. CASE k = c.kind
        BY <2>1, <3>1, <3>2, <3>4, <4>1
      <4>2. CASE k # c.kind
        BY <3>1, <3>3, <3>5, <3>6, <4>2 DEF OwnTracks
      <4> QED
        BY <4>1, <4>2
    <3>7. ASSUME NEW t \in live' \ overwritten'
          PROVE  \E k \in Kinds : senders'[k] = t
      <4>1. CASE t = c.track
        BY <2>1, <3>4, <4>1
      <4>2. CASE t # c.track
        <5>1. t \in live \ overwritten
          BY <3>1, <4>2
        <5>2. PICK k \in Kinds : senders[k] = t
          BY <5>1 DEF OwnTracks
        <5>3. t # None
          BY <1>0, <5>1 DEF TypeOK
        <5>4. k # c.kind
          BY <3>1, <5>2, <5>3 DEF o
        <5> QED
          BY <3>3, <5>2, <5>4
      <4> QED
        BY <4>1, <4>2
    <3>8. \A t \in live' \cup overwritten' : \E d \in captured' : d.track = t
      BY <2>1, <3>1, <3>2 DEF OwnTracks
    <3>9. \A d \in capturing' : d \in captured' /\ d.track \notin live' \cup overwritten'
      BY <2>2, <3>1, <3>2 DEF OwnTracks
    <3> QED
      BY <3>1, <3>6, <3>7, <3>8, <3>9 DEF OwnTracks
  <2>4. CASE ~linked
    BY <1>0, <1>3, <2>2, <2>4 DEF CaptureSucceeds, OwnTracks
  <2> QED
    BY <2>3, <2>4
<1>4. ASSUME NEW c \in capturing, CaptureFails(c) PROVE OwnTracks'
  BY <1>4 DEF CaptureFails, OwnTracks
<1>5. ASSUME Close PROVE OwnTracks'
  <2>1. /\ live' = live \ Range(senders) /\ senders' = [k \in Kinds |-> None]
        /\ UNCHANGED <<capturing, captured, overwritten>>
    BY <1>5 DEF Close
  <2>2. live' \ overwritten' = {}
    BY <1>0, <2>1 DEF OwnTracks, Range
  <2> QED
    BY <2>1, <2>2 DEF OwnTracks
<1>6. CASE UNCHANGED <<senders, capturing, live, captured, overwritten>>
  BY <1>6 DEF OwnTracks
<1> QED
  <2>1. ASSUME NEW m, Takes(m), \/ HandleReady(m) \/ HandleStorage(m)
                                \/ HandleReceiveSubscribe(m) \/ HandleReceiveUnsubscribe(m)
        PROVE  OwnTracks'
    BY <1>6, <2>1 DEF HandleReady, HandleStorage, HandleReceiveSubscribe,
       HandleReceiveUnsubscribe
  <2>2. ASSUME HandleWindowMessage PROVE OwnTracks'
    BY <1>1, <1>2, <2>1, <2>2 DEF HandleWindowMessage, Takes
  <2>3. ASSUME \/ OnIframeLoad \/ Deliver \/ SessionCloses \/ OnMessage
               \/ \E m \in Commands : Post(m)
               \/ \E rid \in Requests : StorageDone(rid) \/ RpcStorage(rid)
               \/ \E t \in RemoteTracks : HandleRemoteTrack(t) \/ RemoteTrackEnds(t)
        PROVE  OwnTracks'
    BY <1>6, <2>3 DEF OnIframeLoad, Deliver, SessionCloses, OnMessage, Post, StorageDone,
       RpcStorage, HandleRemoteTrack, RemoteTrackEnds
  <2> QED
    BY <1>3, <1>4, <1>5, <1>6, <2>2, <2>3 DEF Next, vars

(* Every step leaves each detacher with an attached track of its kind. *)
LEMMA OwnDetachersStep ==
    ASSUME TypeOK, OwnDetachers, [Next]_vars
    PROVE  OwnDetachers'
<1> USE DEF host, devices, addon
<1>0. detachers \in [Kinds -> RemoteTracks \cup {None}] /\ None \notin RemoteTracks
      /\ remoteTracks \in [RemoteTracks -> {"new", "ignored", "attached", "ended"}]
  BY NoneAssumption DEF TypeOK
<1>1. ASSUME NEW m, Takes(m), HandleReceiveUnsubscribe(m) PROVE OwnDetachers'
  <2>1. toHost \in Seq(WindowMessage)
    BY DEF TypeOK
  <2>2. m.kind \in Kinds
    BY <1>1, <2>1, QueueHead, Fields DEF Takes, HandleReceiveUnsubscribe
  <2> QED
    BY <1>0, <1>1, <2>2 DEF HandleReceiveUnsubscribe, OwnDetachers
<1>2. ASSUME NEW t \in RemoteTracks, HandleRemoteTrack(t) PROVE OwnDetachers'
  <2>1. Kind[t] \in Kinds
    BY KindAssumption
  <2>2. remoteTracks[t] = "new" /\ \A k \in Kinds : detachers[k] # t
    BY <1>0, <1>2 DEF HandleRemoteTrack, OwnDetachers
  <2>3. CASE state # "closed" /\ wants[Kind[t]]
    BY <1>0, <1>2, <2>1, <2>2, <2>3 DEF HandleRemoteTrack, OwnDetachers
  <2>4. CASE ~(state # "closed" /\ wants[Kind[t]])
    BY <1>0, <1>2, <2>2, <2>4 DEF HandleRemoteTrack, OwnDetachers
  <2> QED
    BY <2>3, <2>4
<1>3. ASSUME NEW t \in RemoteTracks, RemoteTrackEnds(t) PROVE OwnDetachers'
  <2>1. Kind[t] \in Kinds
    BY KindAssumption
  <2> QED
    BY <1>0, <1>3, <2>1 DEF RemoteTrackEnds, OwnDetachers
<1>4. ASSUME Close PROVE OwnDetachers'
  BY <1>4 DEF Close, OwnDetachers
<1>5. CASE UNCHANGED <<detachers, sink, remoteTracks>>
  BY <1>5 DEF OwnDetachers
<1> QED
  <2>1. ASSUME NEW m, Takes(m), \/ HandleReady(m) \/ HandleStorage(m) \/ HandleSendStart(m)
                                \/ HandleSendStop(m) \/ HandleReceiveSubscribe(m)
        PROVE  OwnDetachers'
    BY <1>5, <2>1 DEF HandleReady, HandleStorage, HandleSendStart, HandleSendStop,
       HandleReceiveSubscribe
  <2>2. ASSUME HandleWindowMessage PROVE OwnDetachers'
    BY <1>1, <2>1, <2>2 DEF HandleWindowMessage, Takes
  <2>3. ASSUME \/ OnIframeLoad \/ Deliver \/ SessionCloses \/ OnMessage
               \/ \E m \in Commands : Post(m)
               \/ \E rid \in Requests : StorageDone(rid) \/ RpcStorage(rid)
               \/ \E c \in capturing : CaptureSucceeds(c) \/ CaptureFails(c)
        PROVE  OwnDetachers'
    BY <1>5, <2>3 DEF OnIframeLoad, Deliver, SessionCloses, OnMessage, Post, StorageDone,
       RpcStorage, CaptureSucceeds, CaptureFails
  <2> QED
    BY <1>2, <1>3, <1>4, <1>5, <2>2, <2>3 DEF Next, vars

-----------------------------------------------------------------------------
(* The handshake *)

(* Posting init once, from "mounted", keeps InitOnce. *)
LEMMA InitPosted ==
    ASSUME TypeOK, InitOnce, state = "mounted", PostToIframe(<<InitMsg>>),
           state' \in {"initialized", "active"}, context' = context
    PROVE  InitOnce'
<1> DEFINE n == Len(toAddon) + 1
<1>1. /\ DOMAIN toAddon' = DOMAIN toAddon \cup {n}
      /\ \A i \in DOMAIN toAddon : toAddon'[i] = toAddon[i] /\ i \in Nat /\ i < n
      /\ toAddon'[n] = InitMsg
  BY MessageTypes, PostOne DEF TypeOK
<1>2. ~context /\ \A i \in DOMAIN toAddon : toAddon[i] # InitMsg
  BY DEF InitOnce
<1>3. \A i \in DOMAIN toAddon : toAddon[i] # DeliverMsg
  BY <1>2 DEF InitOnce
<1>4. InitMsg # DeliverMsg
  BY DEF InitMsg, DeliverMsg, Message
<1>5. \A i \in DOMAIN toAddon' : (toAddon'[i] = InitMsg <=> i = n) /\ toAddon'[i] # DeliverMsg
  BY <1>1, <1>2, <1>3, <1>4
<1> HIDE DEF n
<1> QED
  BY <1>1, <1>2, <1>5 DEF InitOnce

(* Posting anything else keeps it too; a delivery, once the host is active. *)
LEMMA OtherPosted ==
    ASSUME TypeOK, InitOnce, state # "closed", NEW m \in WindowMessage, m # InitMsg,
           m = DeliverMsg => state = "active", PostToIframe(<<m>>),
           UNCHANGED <<state, context>>
    PROVE  InitOnce'
<1> DEFINE n == Len(toAddon) + 1
<1>1. /\ DOMAIN toAddon' = DOMAIN toAddon \cup {n}
      /\ \A i \in DOMAIN toAddon : toAddon'[i] = toAddon[i] /\ i \in Nat /\ i < n
      /\ toAddon'[n] = m
  BY PostOne DEF TypeOK
<1> HIDE DEF n
<1>2. \A i \in DOMAIN toAddon' : toAddon'[i] = InitMsg =>
         i \in DOMAIN toAddon /\ toAddon[i] = InitMsg
  BY <1>1
<1>3. \A i \in DOMAIN toAddon' : toAddon'[i] = DeliverMsg =>
         context \/ \E j \in DOMAIN toAddon' : toAddon'[j] = InitMsg /\ j < i
  <2> SUFFICES ASSUME NEW i \in DOMAIN toAddon', toAddon'[i] = DeliverMsg
               PROVE  context \/ \E j \in DOMAIN toAddon' : toAddon'[j] = InitMsg /\ j < i
    OBVIOUS
  <2>1. CASE i \in DOMAIN toAddon
    BY <1>1, <2>1 DEF InitOnce
  <2>2. CASE i = n
    BY <1>1, <2>2 DEF InitOnce
  <2> QED
    BY <1>1, <2>1, <2>2
<1> QED
  BY <1>1, <1>2, <1>3 DEF InitOnce

(* Every step keeps init first and only. *)
LEMMA InitOnceStep ==
    ASSUME TypeOK, ClosedIsQuiet, InitOnce, [Next]_vars
    PROVE  InitOnce'
<1> USE DEF host, devices, addon
<1>0. toHost \in Seq(WindowMessage) /\ toAddon \in Seq(WindowMessage)
  BY DEF TypeOK
<1>1. CASE UNCHANGED <<state, context, toAddon>>
  BY <1>1 DEF InitOnce
<1>2. ASSUME NEW m \in WindowMessage, m # InitMsg, m # DeliverMsg, state # "closed",
             PostToIframe(<<m>>), UNCHANGED <<state, context>>
      PROVE  InitOnce'
  BY <1>2, OtherPosted
<1>3. /\ \A k \in Kinds : Added(k) # InitMsg /\ Added(k) # DeliverMsg
      /\ \A k \in Kinds : Removed(k) # InitMsg /\ Removed(k) # DeliverMsg
      /\ \A rid \in Requests : Result(rid) # InitMsg /\ Result(rid) # DeliverMsg
  BY DEF Added, Removed, Result, InitMsg, DeliverMsg, Message
<1>4. ASSUME NEW ms, ms = <<>> \/ state = "closed", PostToIframe(ms),
             UNCHANGED <<state, context>>
      PROVE  InitOnce'
  BY <1>0, <1>1, <1>4, PostNone
<1>5. ASSUME NEW m, Takes(m) PROVE m \in WindowMessage /\ state # "closed"
  BY <1>0, <1>5, QueueHead DEF Takes, ClosedIsQuiet
<1>6. ASSUME OnIframeLoad PROVE InitOnce'
  <2>1. CASE state = "mounted"
    BY <1>6, <2>1, InitPosted DEF OnIframeLoad
  <2> QED
    BY <1>1, <1>6, <2>1 DEF OnIframeLoad
<1>7. ASSUME NEW m, Takes(m), HandleReady(m) PROVE InitOnce'
  <2>1. CASE state = "mounted"
    BY <1>7, <2>1, InitPosted DEF HandleReady, EnsureInitPosted, Takes
  <2>2. CASE state # "mounted"
    <3>1. toAddon' = toAddon
      BY <1>0, <1>7, <2>2, PostNone DEF HandleReady, EnsureInitPosted
    <3>2. state \in {"initialized", "active"} /\ state' = "active" /\ context' = context
      BY <1>5, <1>7, <2>2 DEF HandleReady, Takes, TypeOK
    <3> QED
      BY <3>1, <3>2 DEF InitOnce
  <2> QED
    BY <2>1, <2>2
<1>8. ASSUME NEW m, Takes(m), HandleStorage(m) PROVE InitOnce'
  <2>1. m.rid \in Requests
    BY <1>5, <1>8, Fields DEF HandleStorage
  <2> QED
    BY <1>1, <1>2, <1>3, <1>5, <1>8, <2>1, MessageTypes DEF HandleStorage, Takes
<1>9. ASSUME NEW m, Takes(m), HandleSendStart(m) PROVE InitOnce'
  <2>1. m.kind \in Kinds
    BY <1>5, <1>9, Fields DEF HandleSendStart
  <2>2. UNCHANGED <<state, context>>
    BY <1>9 DEF HandleSendStart, Takes
  <2>3. \/ UNCHANGED toAddon
        \/ PostToIframe(<<Added(m.kind)>>)
        \/ PostToIframe(<<>>)
    BY <1>9 DEF HandleSendStart
  <2> QED
    BY <1>1, <1>2, <1>3, <1>4, <1>5, <1>9, <2>1, <2>2, <2>3, MessageTypes
<1>10. ASSUME NEW m, Takes(m), HandleSendStop(m) PROVE InitOnce'
  <2>1. m.kind \in Kinds
    BY <1>5, <1>10, Fields DEF HandleSendStop
  <2>2. UNCHANGED <<state, context>>
    BY <1>10 DEF HandleSendStop, Takes
  <2>3. PostToIframe(<<Removed(m.kind)>>) \/ PostToIframe(<<>>)
    BY <1>10 DEF HandleSendStop
  <2> QED
    BY <1>2, <1>3, <1>4, <1>5, <1>10, <2>1, <2>2, <2>3, MessageTypes
<1>11. ASSUME NEW m, Takes(m), HandleReceiveSubscribe(m) \/ HandleReceiveUnsubscribe(m)
       PROVE  InitOnce'
  BY <1>1, <1>11 DEF HandleReceiveSubscribe, HandleReceiveUnsubscribe, Takes
<1>12. ASSUME Deliver PROVE InitOnce'
  <2>1. CASE state = "active"
    <3>1. DeliverMsg # InitMsg
      BY DEF DeliverMsg, InitMsg, Message
    <3> QED
      BY <1>12, <2>1, <3>1, MessageTypes, OtherPosted DEF Deliver
  <2>2. CASE state # "active"
    BY <1>4, <1>12, <2>2 DEF Deliver
  <2> QED
    BY <2>1, <2>2
<1>13. ASSUME NEW rid \in Requests, StorageDone(rid) PROVE InitOnce'
  BY <1>2, <1>3, <1>4, <1>13, MessageTypes DEF StorageDone
<1>14. ASSUME NEW c \in capturing, CaptureSucceeds(c) PROVE InitOnce'
  <2>1. c.kind \in Kinds
    BY DEF TypeOK
  <2>2. UNCHANGED <<state, context>>
    BY <1>14 DEF CaptureSucceeds
  <2>3. PostToIframe(<<Added(c.kind)>>) \/ UNCHANGED toAddon
    BY <1>14 DEF CaptureSucceeds
  <2> QED
    BY <1>1, <1>2, <1>3, <1>4, <2>1, <2>2, <2>3, MessageTypes
<1>15. ASSUME Close PROVE InitOnce'
  BY <1>15 DEF Close, InitOnce
<1>16. ASSUME OnMessage PROVE InitOnce'
  <2>1. toAddon # <<>> /\ toAddon' = Tail(toAddon) /\ state' = state
    BY <1>16 DEF OnMessage
  <2>2. /\ DOMAIN toAddon' = 1..(Len(toAddon) - 1) /\ DOMAIN toAddon = 1..Len(toAddon)
        /\ \A i \in DOMAIN toAddon' : i + 1 \in DOMAIN toAddon /\ toAddon'[i] = toAddon[i + 1]
        /\ Len(toAddon) \in Nat \ {0} /\ Head(toAddon) = toAddon[1] /\ 1 \in DOMAIN toAddon
        /\ Head(toAddon) \in WindowMessage
    BY <1>0, <2>1, QueueHead
  <2>3. context' = (context \/ toAddon[1] = InitMsg)
    BY <1>16, <2>2, Fields DEF OnMessage
  <2>4. \A j \in DOMAIN toAddon : j # 1 => j - 1 \in DOMAIN toAddon' /\ toAddon'[j - 1] = toAddon[j]
    BY <2>2
  <2>5. \A i, j \in DOMAIN toAddon' : toAddon'[i] = InitMsg /\ toAddon'[j] = InitMsg => i = j
    BY <2>2 DEF InitOnce
  <2>6. context' => \A i \in DOMAIN toAddon' : toAddon'[i] # InitMsg
    <3>1. CASE context
      BY <2>2, <3>1 DEF InitOnce
    <3>2. CASE toAddon[1] = InitMsg
      <4>1. \A j \in DOMAIN toAddon : toAddon[j] = InitMsg => j = 1
        BY <2>2, <3>2 DEF InitOnce
      <4>2. \A i \in DOMAIN toAddon' : i + 1 # 1
        BY <2>2
      <4> QED
        BY <2>2, <4>1, <4>2
    <3> QED
      BY <2>3, <3>1, <3>2
  <2>7. ASSUME NEW i \in DOMAIN toAddon', toAddon'[i] = DeliverMsg
        PROVE  context' \/ \E j \in DOMAIN toAddon' : toAddon'[j] = InitMsg /\ j < i
    <3>1. context \/ \E j \in DOMAIN toAddon : toAddon[j] = InitMsg /\ j < i + 1
      BY <2>2, <2>7 DEF InitOnce
    <3>2. ASSUME NEW j \in DOMAIN toAddon, toAddon[j] = InitMsg, j < i + 1, j # 1
          PROVE  j - 1 \in DOMAIN toAddon' /\ toAddon'[j - 1] = InitMsg /\ j - 1 < i
      BY <2>2, <2>4, <3>2
    <3> QED
      BY <2>3, <3>1, <3>2
  <2>8. ASSUME state' = "mounted"
        PROVE  ~context' /\ \A i \in DOMAIN toAddon' : toAddon'[i] # InitMsg
    <3>1. ~context /\ \A i \in DOMAIN toAddon : toAddon[i] # InitMsg
      BY <2>1, <2>8 DEF InitOnce
    <3> QED
      BY <2>2, <2>3, <3>1
  <2>9. state' \in {"initialized", "active"} =>
           context' \/ \E i \in DOMAIN toAddon' : toAddon'[i] = InitMsg
    BY <2>1, <2>3, <2>4 DEF InitOnce
  <2> QED
    BY <2>5, <2>6, <2>7, <2>8, <2>9 DEF InitOnce
<1>17. ASSUME HandleWindowMessage PROVE InitOnce'
  BY <1>7, <1>8, <1>9, <1>10, <1>11, <1>17 DEF HandleWindowMessage, Takes
<1>18. ASSUME \/ SessionCloses
              \/ \E m \in Commands : Post(m)
              \/ \E rid \in Requests : RpcStorage(rid)
              \/ \E c \in capturing : CaptureFails(c)
              \/ \E t \in RemoteTracks : HandleRemoteTrack(t) \/ RemoteTrackEnds(t)
       PROVE  InitOnce'
  BY <1>1, <1>18 DEF SessionCloses, Post, RpcStorage, CaptureFails, HandleRemoteTrack,
     RemoteTrackEnds
<1> QED
  BY <1>1, <1>6, <1>12, <1>13, <1>14, <1>15, <1>16, <1>17, <1>18 DEF Next, vars

-----------------------------------------------------------------------------
(* What the add-on is told about its media *)

(* The words about a kind are about that kind only, and differ. *)
LEMMA Words ==
    /\ \A j, k \in Kinds : Added(j) # Removed(k)
    /\ \A j, k \in Kinds : Added(j) = Added(k) => j = k
    /\ \A j, k \in Kinds : Removed(j) = Removed(k) => j = k
    /\ \A k \in Kinds : ~About(InitMsg, k) /\ ~About(DeliverMsg, k)
    /\ \A k \in Kinds : \A rid \in Requests : ~About(Result(rid), k)
<1>1. \A j, k \in Kinds : Added(j) # Removed(k)
  BY DEF Added, Removed, Message
<1>2. \A j, k \in Kinds : Added(j) = Added(k) => j = k
  BY DEF Added, Message
<1>3. \A j, k \in Kinds : Removed(j) = Removed(k) => j = k
  BY DEF Removed, Message
<1>4. \A k \in Kinds : ~About(InitMsg, k) /\ ~About(DeliverMsg, k)
  BY DEF About, InitMsg, DeliverMsg, Added, Removed, Message
<1>5. \A k \in Kinds : \A rid \in Requests : ~About(Result(rid), k)
  BY DEF About, Result, Added, Removed, Message
<1> QED
  BY <1>1, <1>2, <1>3, <1>4, <1>5

(* Nothing is posted and nothing changes hands. *)
LEMMA NoWord ==
    ASSUME LastWord, state # "closed", UNCHANGED <<toAddon, sending>>,
           \A k \in Kinds : senders'[k] # None <=> senders[k] # None
    PROVE  LastWord'
BY DEF LastWord

(* A message about no kind is posted. *)
LEMMA OtherWord ==
    ASSUME TypeOK, LastWord, state # "closed", NEW m \in WindowMessage,
           \A k \in Kinds : ~About(m, k), PostToIframe(<<m>>),
           UNCHANGED <<senders, sending>>
    PROVE  LastWord'
<1> DEFINE n == Len(toAddon) + 1
<1>1. /\ DOMAIN toAddon' = DOMAIN toAddon \cup {n}
      /\ \A i \in DOMAIN toAddon : toAddon'[i] = toAddon[i] /\ i \in Nat /\ i < n
      /\ toAddon'[n] = m
  BY PostOne DEF TypeOK
<1> HIDE DEF n
<1> SUFFICES ASSUME NEW k \in Kinds
             PROVE  /\ \A i \in DOMAIN toAddon' :
                          About(toAddon'[i], k)
                          /\ (\A j \in DOMAIN toAddon' : j > i => ~About(toAddon'[j], k))
                             => (toAddon'[i] = Added(k) <=> senders[k] # None)
                    /\ (\A i \in DOMAIN toAddon' : ~About(toAddon'[i], k))
                          => (k \in sending <=> senders[k] # None)
  BY DEF LastWord, About, Added, Removed
<1>2. \A i \in DOMAIN toAddon' : About(toAddon'[i], k) =>
         i \in DOMAIN toAddon /\ About(toAddon[i], k)
  BY <1>1
<1>3. \A i \in DOMAIN toAddon : i \in DOMAIN toAddon' /\ toAddon'[i] = toAddon[i]
  BY <1>1
<1> QED
  BY <1>2, <1>3 DEF LastWord

(* A word about kind w is posted, and it is what the host holds from now on. *)
LEMMA WordPosted ==
    ASSUME TypeOK, LastWord, state # "closed", NEW w \in Kinds, NEW m \in WindowMessage,
           About(m, w), m = Added(w) <=> senders'[w] # None, PostToIframe(<<m>>),
           sending' = sending,
           \A k \in Kinds \ {w} : senders'[k] # None <=> senders[k] # None
    PROVE  LastWord'
<1> DEFINE n == Len(toAddon) + 1
<1>1. /\ DOMAIN toAddon' = DOMAIN toAddon \cup {n}
      /\ \A i \in DOMAIN toAddon : toAddon'[i] = toAddon[i] /\ i \in Nat /\ i < n
      /\ toAddon'[n] = m
  BY PostOne DEF TypeOK
<1> HIDE DEF n
<1> SUFFICES ASSUME NEW k \in Kinds
             PROVE  /\ \A i \in DOMAIN toAddon' :
                          About(toAddon'[i], k)
                          /\ (\A j \in DOMAIN toAddon' : j > i => ~About(toAddon'[j], k))
                             => (toAddon'[i] = Added(k) <=> senders'[k] # None)
                    /\ (\A i \in DOMAIN toAddon' : ~About(toAddon'[i], k))
                          => (k \in sending <=> senders'[k] # None)
  BY DEF LastWord, About, Added, Removed
<1>2. CASE k = w
  <2>1. \A i \in DOMAIN toAddon : n > i
    BY <1>1
  <2> QED
    BY <1>1, <1>2, <2>1
<1>3. CASE k # w
  <2>1. ~About(m, k)
    BY <1>3, Words DEF About
  <2>2. \A i \in DOMAIN toAddon' : About(toAddon'[i], k) =>
           i \in DOMAIN toAddon /\ About(toAddon[i], k)
    BY <1>1, <2>1
  <2>3. \A i \in DOMAIN toAddon : i \in DOMAIN toAddon' /\ toAddon'[i] = toAddon[i]
    BY <1>1
  <2>4. senders'[k] # None <=> senders[k] # None
    BY <1>3
  <2> QED
    BY <2>2, <2>3, <2>4 DEF LastWord
<1> QED
  BY <1>2, <1>3

(* The add-on reads the message at the head. *)
LEMMA WordRead ==
    ASSUME TypeOK, LastWord, state # "closed", OnMessage
    PROVE  LastWord'
<1> DEFINE m == Head(toAddon)
<1>1. toAddon # <<>> /\ toAddon' = Tail(toAddon) /\ senders' = senders /\ toAddon \in Seq(WindowMessage)
  BY DEF OnMessage, TypeOK, host
<1>2. /\ DOMAIN toAddon' = 1..(Len(toAddon) - 1) /\ DOMAIN toAddon = 1..Len(toAddon)
      /\ \A i \in DOMAIN toAddon' : i + 1 \in DOMAIN toAddon /\ toAddon'[i] = toAddon[i + 1]
      /\ Len(toAddon) \in Nat \ {0} /\ m = toAddon[1] /\ 1 \in DOMAIN toAddon
      /\ m \in WindowMessage
  BY <1>1, QueueHead
<1>3. \A j \in DOMAIN toAddon : j # 1 => j - 1 \in DOMAIN toAddon' /\ toAddon'[j - 1] = toAddon[j]
  BY <1>2
<1>4. sending' = CASE m.op = "media.track added" -> sending \cup {m.kind}
                   [] m.op = "media.track removed" -> sending \ {m.kind}
                   [] OTHER -> sending
  BY DEF OnMessage
<1>5. ASSUME NEW k \in Kinds
      PROVE  /\ m = Added(k) => k \in sending'
             /\ m = Removed(k) => k \notin sending'
             /\ ~About(m, k) => (k \in sending' <=> k \in sending)
  <2>1. CASE m.op = "media.track added"
    <3>1. m = Added(m.kind) /\ sending' = sending \cup {m.kind} /\ m.kind \in Kinds
      BY <1>2, <1>4, <2>1, Fields
    <3> QED
      BY <3>1, Words DEF About
  <2>2. CASE m.op = "media.track removed"
    <3>1. m = Removed(m.kind) /\ m.kind \in Kinds
      BY <1>2, <2>2, Fields
    <3>2. sending' = sending \ {m.kind}
      BY <1>4, <2>2
    <3> QED
      BY <3>1, <3>2, Words DEF About
  <2>3. CASE m.op \notin {"media.track added", "media.track removed"}
    <3>1. sending' = sending
      BY <1>4, <2>3
    <3>2. Added(k).op = "media.track added" /\ Removed(k).op = "media.track removed"
      BY DEF Added, Removed, Message
    <3>3. m # Added(k) /\ m # Removed(k)
      BY <2>3, <3>2
    <3> QED
      BY <3>1, <3>3
  <2> QED
    BY <2>1, <2>2, <2>3
<1> HIDE DEF m
<1> SUFFICES ASSUME NEW k \in Kinds
             PROVE  /\ \A i \in DOMAIN toAddon' :
                          About(toAddon'[i], k)
                          /\ (\A j \in DOMAIN toAddon' : j > i => ~About(toAddon'[j], k))
                             => (toAddon'[i] = Added(k) <=> senders[k] # None)
                    /\ (\A i \in DOMAIN toAddon' : ~About(toAddon'[i], k))
                          => (k \in sending' <=> senders[k] # None)
  BY <1>1 DEF LastWord, About, Added, Removed
<1>6. ASSUME NEW i \in DOMAIN toAddon', About(toAddon'[i], k),
             \A j \in DOMAIN toAddon' : j > i => ~About(toAddon'[j], k)
      PROVE  toAddon'[i] = Added(k) <=> senders[k] # None
  <2>1. i + 1 \in DOMAIN toAddon /\ toAddon'[i] = toAddon[i + 1] /\ i \in Nat /\ i >= 1
    BY <1>2
  <2>2. ASSUME NEW j \in DOMAIN toAddon, j > i + 1 PROVE ~About(toAddon[j], k)
    <3>1. j # 1 /\ j - 1 > i
      BY <1>2, <2>1, <2>2
    <3> QED
      BY <1>3, <1>6, <3>1
  <2> QED
    BY <1>6, <2>1, <2>2 DEF LastWord
<1>7. ASSUME \A i \in DOMAIN toAddon' : ~About(toAddon'[i], k)
      PROVE  k \in sending' <=> senders[k] # None
  <2>1. \A j \in DOMAIN toAddon : j # 1 => ~About(toAddon[j], k)
    BY <1>3, <1>7
  <2>2. CASE About(m, k)
    <3>1. toAddon[1] = Added(k) <=> senders[k] # None
      BY <1>2, <2>1, <2>2 DEF LastWord
    <3> QED
      BY <1>2, <1>5, <2>2, <3>1 DEF About
  <2>3. CASE ~About(m, k)
    <3>1. \A j \in DOMAIN toAddon : ~About(toAddon[j], k)
      BY <1>2, <2>1, <2>3
    <3> QED
      BY <1>5, <2>3, <3>1 DEF LastWord
  <2> QED
    BY <2>2, <2>3
<1> QED
  BY <1>6, <1>7

(* Every step leaves the add-on informed, or with the news on its way. *)
LEMMA LastWordStep ==
    ASSUME TypeOK, ClosedIsQuiet, LastWord, [Next]_vars
    PROVE  LastWord'
<1> USE DEF host, devices, addon
<1>0. /\ toHost \in Seq(WindowMessage) /\ toAddon \in Seq(WindowMessage)
      /\ senders \in [Kinds -> Captures \cup {None}] /\ None \notin Captures
  BY NoneAssumption DEF TypeOK
<1>1. CASE UNCHANGED <<state, senders, sending, toAddon>>
  BY <1>1 DEF LastWord, About, Added, Removed
<1>2. CASE state' = "closed"
  BY <1>2 DEF LastWord
<1>3. ASSUME NEW m, Takes(m) PROVE m \in WindowMessage /\ state # "closed"
  BY <1>0, <1>3, QueueHead DEF Takes, ClosedIsQuiet
<1>4. ASSUME state # "closed", UNCHANGED <<senders, sending>>,
             \/ toAddon' = toAddon
             \/ \E m \in WindowMessage :
                   PostToIframe(<<m>>) /\ \A k \in Kinds : ~About(m, k)
      PROVE  LastWord'
  BY <1>4, NoWord, OtherWord
<1>5. ASSUME OnIframeLoad PROVE LastWord'
  BY <1>4, <1>5, MessageTypes, Words DEF OnIframeLoad
<1>6. ASSUME NEW m, Takes(m), HandleReady(m) PROVE LastWord'
  <2>1. PostToIframe(<<InitMsg>>) \/ toAddon' = toAddon
    BY <1>0, <1>6, PostNone DEF HandleReady, EnsureInitPosted
  <2> QED
    BY <1>3, <1>4, <1>6, <2>1, MessageTypes, Words DEF HandleReady, Takes
<1>7. ASSUME NEW m, Takes(m), HandleStorage(m) PROVE LastWord'
  <2>1. m.rid \in Requests
    BY <1>3, <1>7, Fields DEF HandleStorage
  <2> QED
    BY <1>3, <1>4, <1>7, <2>1, MessageTypes, Words DEF HandleStorage, Takes
<1>8. ASSUME NEW m, Takes(m), HandleSendStart(m) PROVE LastWord'
  <2>1. m.kind \in Kinds /\ state # "closed" /\ UNCHANGED <<senders, sending>>
    BY <1>3, <1>8, Fields DEF HandleSendStart, Takes
  <2>2. CASE m.kind \in Permitted /\ senders[m.kind] = None
    BY <1>4, <1>8, <2>1, <2>2 DEF HandleSendStart
  <2>3. CASE m.kind \in Permitted /\ senders[m.kind] # None
    <3>1. PostToIframe(<<Added(m.kind)>>)
      BY <1>8, <2>3 DEF HandleSendStart
    <3> QED
      BY <2>1, <2>3, <3>1, MessageTypes, WordPosted DEF About
  <2>4. CASE m.kind \notin Permitted
    <3>1. toAddon' = toAddon
      BY <1>0, <1>8, <2>4, PostNone DEF HandleSendStart
    <3> QED
      BY <1>4, <2>1, <3>1
  <2> QED
    BY <2>2, <2>3, <2>4
<1>9. ASSUME NEW m, Takes(m), HandleSendStop(m) PROVE LastWord'
  <2>1. m.kind \in Kinds /\ state # "closed" /\ sending' = sending
    BY <1>3, <1>9, Fields DEF HandleSendStop, Takes
  <2>2. senders'[m.kind] = None /\ \A k \in Kinds \ {m.kind} : senders'[k] = senders[k]
    BY <1>0, <1>9, <2>1 DEF HandleSendStop
  <2>3. CASE senders[m.kind] = None
    <3>1. toAddon' = toAddon
      BY <1>0, <1>9, <2>3, PostNone DEF HandleSendStop
    <3> QED
      BY <2>1, <2>2, <2>3, <3>1, NoWord
  <2>4. CASE senders[m.kind] # None
    <3>1. PostToIframe(<<Removed(m.kind)>>) /\ Removed(m.kind) # Added(m.kind)
      BY <1>9, <2>1, <2>4, Words DEF HandleSendStop
    <3> QED
      BY <2>1, <2>2, <3>1, MessageTypes, WordPosted DEF About
  <2> QED
    BY <2>3, <2>4
<1>10. ASSUME NEW m, Takes(m), HandleReceiveSubscribe(m) \/ HandleReceiveUnsubscribe(m)
       PROVE  LastWord'
  BY <1>1, <1>10 DEF HandleReceiveSubscribe, HandleReceiveUnsubscribe, Takes
<1>11. ASSUME Deliver PROVE LastWord'
  <2>1. PostToIframe(<<DeliverMsg>>) \/ toAddon' = toAddon
    BY <1>0, <1>11, PostNone DEF Deliver
  <2> QED
    BY <1>4, <1>11, <2>1, MessageTypes, Words DEF Deliver
<1>12. ASSUME NEW rid \in Requests, StorageDone(rid) PROVE LastWord'
  <2>1. CASE state = "closed"
    BY <1>2, <1>12, <2>1 DEF StorageDone
  <2> QED
    BY <1>4, <1>12, <2>1, MessageTypes, Words DEF StorageDone
<1>13. ASSUME NEW c \in capturing, CaptureSucceeds(c) PROVE LastWord'
  <2>1. c.track \in Captures /\ c.kind \in Kinds
    BY DEF TypeOK
  <2>2. CASE state = "closed"
    BY <1>2, <1>13, <2>2 DEF CaptureSucceeds
  <2>3. CASE ~linked
    BY <1>1, <1>13, <2>3 DEF CaptureSucceeds
  <2>4. CASE linked /\ state # "closed"
    <3>1. senders'[c.kind] # None /\ \A k \in Kinds \ {c.kind} : senders'[k] = senders[k]
      BY <1>0, <1>13, <2>1, <2>4 DEF CaptureSucceeds
    <3>2. PostToIframe(<<Added(c.kind)>>) /\ sending' = sending
      BY <1>13, <2>4 DEF CaptureSucceeds
    <3> QED
      BY <2>1, <2>4, <3>1, <3>2, MessageTypes, WordPosted DEF About
  <2> QED
    BY <2>2, <2>3, <2>4
<1>14. ASSUME Close PROVE LastWord'
  BY <1>2, <1>14 DEF Close
<1>15. ASSUME OnMessage PROVE LastWord'
  <2>1. state # "closed"
    BY <1>15 DEF OnMessage, ClosedIsQuiet
  <2> QED
    BY <1>15, <2>1, WordRead
<1>16. ASSUME HandleWindowMessage PROVE LastWord'
  BY <1>6, <1>7, <1>8, <1>9, <1>10, <1>16 DEF HandleWindowMessage, Takes
<1>17. ASSUME \/ SessionCloses
              \/ \E m \in Commands : Post(m)
              \/ \E rid \in Requests : RpcStorage(rid)
              \/ \E c \in capturing : CaptureFails(c)
              \/ \E t \in RemoteTracks : HandleRemoteTrack(t) \/ RemoteTrackEnds(t)
       PROVE  LastWord'
  BY <1>1, <1>17 DEF SessionCloses, Post, RpcStorage, CaptureFails, HandleRemoteTrack,
     RemoteTrackEnds
<1> QED
  BY <1>1, <1>5, <1>11, <1>12, <1>13, <1>14, <1>15, <1>16, <1>17 DEF Next, vars

-----------------------------------------------------------------------------
(* Storage requests *)

(* What a queue holds when a message is put behind the others. *)
LEMMA Behind ==
    ASSUME NEW q \in Seq(WindowMessage), NEW m \in WindowMessage, NEW x
    PROVE  /\ Holds(Append(q, m), x) <=> Holds(q, x) \/ m = x
           /\ Once(q, x) /\ (m # x \/ ~Holds(q, x)) => Once(Append(q, m), x)
<1>1. /\ DOMAIN q = 1..Len(q) /\ Len(q) \in Nat
      /\ DOMAIN Append(q, m) = DOMAIN q \cup {Len(q) + 1}
      /\ \A i \in DOMAIN q : Append(q, m)[i] = q[i]
      /\ Append(q, m)[Len(q) + 1] = m
  OBVIOUS
<1>2. Holds(Append(q, m), x) <=> Holds(q, x) \/ m = x
  BY <1>1 DEF Holds
<1>3. ASSUME Once(q, x), m # x \/ ~Holds(q, x) PROVE Once(Append(q, m), x)
  BY <1>1, <1>3 DEF Once, Holds
<1> QED
  BY <1>2, <1>3

(* What it holds when the message at the head has been taken. *)
LEMMA Taken ==
    ASSUME NEW q \in Seq(WindowMessage), q # <<>>, NEW x
    PROVE  /\ Holds(Tail(q), x) => Holds(q, x)
           /\ Head(q) = x => Holds(q, x)
           /\ Once(q, x) => Once(Tail(q), x)
           /\ Once(q, x) /\ Head(q) = x => ~Holds(Tail(q), x)
<1>1. /\ Head(q) = q[1] /\ 1 \in DOMAIN q
      /\ DOMAIN Tail(q) = 1..(Len(q) - 1) /\ Len(q) \in Nat
      /\ \A i \in DOMAIN Tail(q) : i + 1 \in DOMAIN q /\ Tail(q)[i] = q[i + 1]
  BY QueueHead
<1>2. \A i, j \in DOMAIN Tail(q) : i + 1 # 1 /\ (i + 1 = j + 1 => i = j)
  BY <1>1
<1> QED
  BY <1>1, <1>2 DEF Holds, Once

(* postToIframe by an open host, in terms of the queue. *)
LEMMA PostAppends ==
    ASSUME TypeOK, state # "closed", NEW m, PostToIframe(<<m>>)
    PROVE  toAddon' = Append(toAddon, m)
<1>1. toAddon \in Seq(WindowMessage)
  BY DEF TypeOK
<1> QED
  BY <1>1 DEF PostToIframe

(* A request and a result are of one rid, and of no other operation. *)
LEMMA RequestWords ==
    ASSUME NEW rid \in Requests
    PROVE  /\ \A r \in Requests : Request(r) = Request(rid) => r = rid
           /\ \A r \in Requests : Result(r) = Result(rid) => r = rid
           /\ \A r \in Requests : Result(r) # Request(rid)
           /\ InitMsg \notin {Result(rid), Request(rid)}
           /\ DeliverMsg \notin {Result(rid), Request(rid)}
           /\ \A k \in Kinds : /\ Added(k) \notin {Result(rid), Request(rid)}
                              /\ Removed(k) \notin {Result(rid), Request(rid)}
           /\ Request(rid).op = "storage" /\ Result(rid).op = "storage.result"
           /\ Request(rid).rid = rid /\ Result(rid).rid = rid
<1>1. /\ Request(rid).op = "storage" /\ Result(rid).op = "storage.result"
      /\ Request(rid).rid = rid /\ Result(rid).rid = rid
  BY DEF Request, Result, Message
<1>2. InitMsg.op = "init" /\ DeliverMsg.op = "deliver"
  BY DEF InitMsg, DeliverMsg, Message
<1>3. \A k \in Kinds : Added(k).op = "media.track added" /\ Removed(k).op = "media.track removed"
  BY DEF Added, Removed, Message
<1>4. \A r \in Requests : /\ Request(r).rid = r /\ Result(r).rid = r
                         /\ Result(r).op = "storage.result"
  BY DEF Request, Result, Message
<1> QED
  BY <1>1, <1>2, <1>3, <1>4

(* Every step keeps a request in one place. *)
LEMMA OnePlaceStep ==
    ASSUME TypeOK, ClosedIsQuiet, OnePlace, [Next]_vars
    PROVE  OnePlace'
<1> USE DEF host, devices, addon
<1> SUFFICES ASSUME NEW rid \in Requests PROVE Place(rid)'
  BY DEF OnePlace
<1>0. /\ toHost \in Seq(WindowMessage) /\ toAddon \in Seq(WindowMessage)
      /\ Request(rid) \in WindowMessage /\ Result(rid) \in WindowMessage
      /\ Place(rid)
  BY MessageTypes DEF TypeOK, OnePlace
<1>1. ASSUME UNCHANGED <<toHost, toAddon, storing, pending, asked>> PROVE Place(rid)'
  BY <1>0, <1>1 DEF Place, Holds, Once, Request, Result
<1>2. ASSUME NEW m \in WindowMessage, m \notin {Result(rid), Request(rid)}, state # "closed",
             PostToIframe(<<m>>)
      PROVE  /\ Holds(toAddon', Result(rid)) <=> Holds(toAddon, Result(rid))
             /\ Once(toAddon', Result(rid))
             /\ ~Holds(toAddon', Request(rid))
  <2>1. toAddon' = Append(toAddon, m)
    BY <1>2, PostAppends
  <2>2. /\ Holds(Append(toAddon, m), Result(rid)) <=> Holds(toAddon, Result(rid))
        /\ Once(Append(toAddon, m), Result(rid))
        /\ ~Holds(Append(toAddon, m), Request(rid))
    BY <1>0, <1>2, Behind DEF Place
  <2> QED
    BY <2>1, <2>2
<1>3. ASSUME toAddon' = toAddon
      PROVE  /\ Holds(toAddon', Result(rid)) <=> Holds(toAddon, Result(rid))
             /\ Once(toAddon', Result(rid))
             /\ ~Holds(toAddon', Request(rid))
  BY <1>0, <1>3 DEF Place
<1>4. ASSUME toHost' = toHost
      PROVE  /\ Holds(toHost', Request(rid)) <=> Holds(toHost, Request(rid))
             /\ Once(toHost', Request(rid))
  BY <1>0, <1>4 DEF Place
<1>5. ASSUME NEW m, Takes(m)
      PROVE  /\ m \in WindowMessage /\ state # "closed" /\ UNCHANGED <<pending, asked>>
             /\ Holds(toHost', Request(rid)) => Holds(toHost, Request(rid))
             /\ m = Request(rid) =>
                   Holds(toHost, Request(rid)) /\ ~Holds(toHost', Request(rid))
             /\ Once(toHost', Request(rid))
  <2>1. toHost # <<>> /\ m = Head(toHost) /\ toHost' = Tail(toHost)
    BY <1>5 DEF Takes
  <2>2. m \in WindowMessage /\ state # "closed" /\ UNCHANGED <<pending, asked>>
    BY <1>0, <1>5, <2>1, QueueHead DEF Takes, ClosedIsQuiet
  <2> QED
    BY <1>0, <2>1, <2>2, Taken DEF Place
<1>6. Place(rid)' <=>
         /\ Once(toHost', Request(rid))
         /\ Once(toAddon', Result(rid))
         /\ ~Holds(toAddon', Request(rid))
         /\ Holds(toHost', Request(rid)) =>
               rid \in pending' /\ rid \notin storing' /\ ~Holds(toAddon', Result(rid))
         /\ rid \in storing' => rid \in pending' /\ ~Holds(toAddon', Result(rid))
         /\ Holds(toAddon', Result(rid)) => rid \in pending'
         /\ rid \in pending' => rid \in asked'
  BY DEF Place, Once, Holds, Request, Result
<1>7. ASSUME /\ Holds(toAddon', Result(rid)) => Holds(toAddon, Result(rid))
             /\ Once(toAddon', Result(rid))
             /\ ~Holds(toAddon', Request(rid))
             /\ Holds(toHost', Request(rid)) => Holds(toHost, Request(rid))
             /\ Once(toHost', Request(rid)),
             rid \in storing' <=> rid \in storing, UNCHANGED <<pending, asked>>
      PROVE  Place(rid)'
  BY <1>0, <1>6, <1>7 DEF Place
<1>8. ASSUME NEW m \in WindowMessage, m \notin {Result(rid), Request(rid)},
             \/ toAddon' = toAddon
             \/ state # "closed" /\ PostToIframe(<<m>>),
             UNCHANGED <<toHost, storing, pending, asked>>
      PROVE  Place(rid)'
  BY <1>2, <1>3, <1>4, <1>7, <1>8
<1>9. ASSUME NEW m, Takes(m), NEW w \in WindowMessage,
             w \notin {Result(rid), Request(rid)}, toAddon' = toAddon \/ PostToIframe(<<w>>), storing' = storing
      PROVE  Place(rid)'
  BY <1>2, <1>3, <1>5, <1>7, <1>9
<1>10. ASSUME OnIframeLoad PROVE Place(rid)'
  BY <1>8, <1>10, MessageTypes, RequestWords DEF OnIframeLoad
<1>11. ASSUME NEW m, Takes(m), HandleReady(m) PROVE Place(rid)'
  <2>1. PostToIframe(<<InitMsg>>) \/ toAddon' = toAddon
    BY <1>0, <1>11, PostNone DEF HandleReady, EnsureInitPosted
  <2> QED
    BY <1>9, <1>11, <2>1, MessageTypes, RequestWords DEF HandleReady
<1>12. ASSUME NEW m, Takes(m), HandleStorage(m) PROVE Place(rid)'
  <2>1. m.rid \in Requests /\ m = Request(m.rid)
    BY <1>5, <1>12, Fields DEF HandleStorage
  <2>2. CASE m.rid # rid
    <3>1. Result(m.rid) \in WindowMessage /\ Result(m.rid) \notin {Result(rid), Request(rid)}
      BY <2>1, <2>2, MessageTypes, RequestWords
    <3>2. rid \in storing' <=> rid \in storing
      BY <1>12, <2>2 DEF HandleStorage
    <3> QED
      BY <1>2, <1>3, <1>5, <1>7, <1>12, <3>1, <3>2 DEF HandleStorage
  <2>3. CASE m.rid = rid
    <3>1. /\ Holds(toHost, Request(rid)) /\ ~Holds(toHost', Request(rid))
          /\ Once(toHost', Request(rid)) /\ UNCHANGED <<pending, asked>>
      BY <1>5, <1>12, <2>1, <2>3
    <3>2. rid \in pending /\ rid \notin storing /\ ~Holds(toAddon, Result(rid))
      BY <1>0, <3>1 DEF Place
    <3>3. CASE PostToIframe(<<Result(m.rid)>>) /\ UNCHANGED storing
      <4>1. toAddon' = Append(toAddon, Result(rid))
        BY <1>5, <1>12, <2>3, <3>3, PostAppends
      <4>2. /\ Once(Append(toAddon, Result(rid)), Result(rid))
            /\ ~Holds(Append(toAddon, Result(rid)), Request(rid))
        BY <1>0, <3>2, Behind, RequestWords DEF Place
      <4> QED
        BY <1>0, <1>6, <3>1, <3>2, <3>3, <4>1, <4>2 DEF Place
    <3>4. CASE storing' = storing \cup {m.rid} /\ UNCHANGED toAddon
      BY <1>0, <1>6, <3>1, <3>2, <3>4 DEF Place
    <3> QED
      BY <1>12, <3>3, <3>4 DEF HandleStorage
  <2> QED
    BY <2>2, <2>3
<1>13. ASSUME NEW m, Takes(m), HandleSendStart(m) PROVE Place(rid)'
  <2>1. m.kind \in Kinds
    BY <1>5, <1>13, Fields DEF HandleSendStart
  <2>2. PostToIframe(<<Added(m.kind)>>) \/ toAddon' = toAddon
    BY <1>0, <1>13, PostNone DEF HandleSendStart
  <2> QED
    BY <1>9, <1>13, <2>1, <2>2, MessageTypes, RequestWords DEF HandleSendStart
<1>14. ASSUME NEW m, Takes(m), HandleSendStop(m) PROVE Place(rid)'
  <2>1. m.kind \in Kinds
    BY <1>5, <1>14, Fields DEF HandleSendStop
  <2>2. PostToIframe(<<Removed(m.kind)>>) \/ toAddon' = toAddon
    BY <1>0, <1>14, PostNone DEF HandleSendStop
  <2> QED
    BY <1>9, <1>14, <2>1, <2>2, MessageTypes, RequestWords DEF HandleSendStop
<1>15. ASSUME NEW m, Takes(m), HandleReceiveSubscribe(m) \/ HandleReceiveUnsubscribe(m)
       PROVE  Place(rid)'
  BY <1>3, <1>5, <1>7, <1>15 DEF HandleReceiveSubscribe, HandleReceiveUnsubscribe
<1>16. ASSUME Deliver PROVE Place(rid)'
  <2>1. PostToIframe(<<DeliverMsg>>) \/ toAddon' = toAddon
    BY <1>0, <1>16, PostNone DEF Deliver
  <2> QED
    BY <1>8, <1>16, <2>1, MessageTypes, RequestWords DEF Deliver
<1>17. ASSUME NEW r \in Requests, StorageDone(r) PROVE Place(rid)'
  <2>1. CASE state = "closed"
    <3>1. toAddon' = toAddon
      BY <1>0, <1>17, <2>1, PostNone DEF StorageDone
    <3> QED
      BY <1>0, <1>3, <1>4, <1>6, <1>17, <3>1 DEF StorageDone, Place
  <2>2. CASE state # "closed" /\ r # rid
    <3>1. Result(r) \in WindowMessage /\ Result(r) \notin {Result(rid), Request(rid)}
      BY <2>2, MessageTypes, RequestWords
    <3>2. rid \in storing' <=> rid \in storing
      BY <1>17, <2>2 DEF StorageDone
    <3> QED
      BY <1>2, <1>4, <1>7, <1>17, <2>2, <3>1, <3>2 DEF StorageDone
  <2>3. CASE state # "closed" /\ r = rid
    <3>1. /\ rid \in pending /\ ~Holds(toAddon, Result(rid))
          /\ ~Holds(toHost, Request(rid))
      BY <1>0, <1>17, <2>3 DEF StorageDone, Place
    <3>2. toAddon' = Append(toAddon, Result(rid))
      BY <1>17, <2>3, PostAppends DEF StorageDone
    <3>3. /\ Once(Append(toAddon, Result(rid)), Result(rid))
          /\ ~Holds(Append(toAddon, Result(rid)), Request(rid))
      BY <1>0, <3>1, Behind, RequestWords DEF Place
    <3>4. storing' = storing \ {rid} /\ UNCHANGED <<toHost, pending, asked>>
      BY <1>17, <2>3 DEF StorageDone
    <3> QED
      BY <1>0, <1>4, <1>6, <3>1, <3>2, <3>3, <3>4 DEF Place
  <2> QED
    BY <2>1, <2>2, <2>3
<1>18. ASSUME NEW r \in Requests, RpcStorage(r) PROVE Place(rid)'
  <2>1. toHost' = Append(toHost, Request(r)) /\ Request(r) \in WindowMessage
    BY <1>18, MessageTypes DEF RpcStorage, Request
  <2>2. UNCHANGED <<toAddon, storing>> /\ pending' = pending \cup {r} /\ asked' = asked \cup {r}
    BY <1>18 DEF RpcStorage
  <2>3. CASE r # rid
    <3>1. Request(r) # Request(rid)
      BY <2>3, RequestWords
    <3>2. /\ Holds(Append(toHost, Request(r)), Request(rid)) <=> Holds(toHost, Request(rid))
          /\ Once(Append(toHost, Request(r)), Request(rid))
      BY <1>0, <2>1, <3>1, Behind DEF Place
    <3> QED
      BY <1>0, <1>3, <1>6, <2>1, <2>2, <2>3, <3>2 DEF Place
  <2>4. CASE r = rid
    <3>1. rid \notin pending
      BY <1>0, <1>18, <2>4 DEF RpcStorage, Place
    <3>2. ~Holds(toHost, Request(rid)) /\ rid \notin storing /\ ~Holds(toAddon, Result(rid))
      BY <1>0, <3>1 DEF Place
    <3>3. Once(Append(toHost, Request(rid)), Request(rid))
      BY <1>0, <3>2, Behind DEF Place
    <3> QED
      BY <1>0, <1>3, <1>6, <2>1, <2>2, <2>4, <3>2, <3>3 DEF Place
  <2> QED
    BY <2>3, <2>4
<1>19. ASSUME NEW c \in capturing, CaptureSucceeds(c) PROVE Place(rid)'
  <2>1. c.kind \in Kinds
    BY DEF TypeOK
  <2>2. toAddon' = toAddon \/ (state # "closed" /\ PostToIframe(<<Added(c.kind)>>))
    BY <1>0, <1>19, PostNone DEF CaptureSucceeds
  <2> QED
    BY <1>8, <1>19, <2>1, <2>2, MessageTypes, RequestWords DEF CaptureSucceeds
<1>20. ASSUME Close PROVE Place(rid)'
  <2>1. toHost' = <<>> /\ toAddon' = <<>> /\ UNCHANGED <<storing, pending, asked>>
    BY <1>20 DEF Close
  <2>2. \A x : ~Holds(<<>>, x) /\ Once(<<>>, x)
    BY DEF Holds, Once
  <2> QED
    BY <1>7, <2>1, <2>2
<1>21. ASSUME NEW m \in Commands, Post(m) PROVE Place(rid)'
  <2>1. m \in WindowMessage /\ m # Request(rid)
    BY MessageTypes
  <2>2. toHost' = Append(toHost, m) /\ UNCHANGED <<toAddon, storing, pending, asked>>
    BY <1>21 DEF Post
  <2>3. /\ Holds(Append(toHost, m), Request(rid)) <=> Holds(toHost, Request(rid))
        /\ Once(Append(toHost, m), Request(rid))
    BY <1>0, <2>1, Behind DEF Place
  <2> QED
    BY <1>3, <1>7, <2>2, <2>3
<1>22. ASSUME OnMessage PROVE Place(rid)'
  <2> DEFINE m == Head(toAddon)
  <2>1. /\ toAddon # <<>> /\ toAddon' = Tail(toAddon) /\ pending' = pending \ {m.rid}
        /\ UNCHANGED <<toHost, storing, asked>>
    BY <1>22 DEF OnMessage
  <2>2. m \in WindowMessage
    BY <1>0, <2>1, QueueHead
  <2>3. /\ Holds(toAddon', Result(rid)) => Holds(toAddon, Result(rid))
        /\ Once(toAddon', Result(rid))
        /\ ~Holds(toAddon', Request(rid)) /\ m # Request(rid)
        /\ m = Result(rid) => Holds(toAddon, Result(rid)) /\ ~Holds(toAddon', Result(rid))
    BY <1>0, <2>1, Taken DEF Place
  <2>4. CASE rid \in pending'
    <3>1. pending' \subseteq pending
      BY <2>1
    <3> QED
      BY <1>0, <1>4, <1>6, <2>1, <2>3, <2>4, <3>1 DEF Place
  <2>5. CASE rid \notin pending' /\ rid \notin pending
    BY <1>0, <1>4, <1>6, <2>1, <2>3, <2>5 DEF Place
  <2>6. CASE rid \notin pending' /\ rid \in pending
    <3>1. m.rid = rid
      BY <2>1, <2>6
    <3>2. m = Result(rid)
      BY <2>2, <2>3, <3>1, Fields
    <3> QED
      BY <1>0, <1>4, <1>6, <2>1, <2>3, <2>6, <3>2 DEF Place
  <2> QED
    BY <2>4, <2>5, <2>6
<1>23. ASSUME HandleWindowMessage PROVE Place(rid)'
  BY <1>11, <1>12, <1>13, <1>14, <1>15, <1>23 DEF HandleWindowMessage, Takes
<1>24. ASSUME \/ SessionCloses
              \/ \E c \in capturing : CaptureFails(c)
              \/ \E t \in RemoteTracks : HandleRemoteTrack(t) \/ RemoteTrackEnds(t)
       PROVE  Place(rid)'
  BY <1>1, <1>24 DEF SessionCloses, CaptureFails, HandleRemoteTrack, RemoteTrackEnds
<1>25. ASSUME UNCHANGED vars PROVE Place(rid)'
  BY <1>1, <1>25 DEF vars
<1> QED
  BY <1>10, <1>16, <1>17, <1>18, <1>19, <1>20, <1>21, <1>22, <1>23, <1>24, <1>25 DEF Next

-----------------------------------------------------------------------------
(* The theorems. *)

(* What mount() leaves satisfies the invariant. *)
LEMMA Initially == Init => IInv
<1> SUFFICES ASSUME Init PROVE IInv
  OBVIOUS
<1>1. TypeOK
  <2>1. /\ senders \in [Kinds -> Captures \cup {None}]
        /\ wants \in [Kinds -> BOOLEAN]
        /\ detachers \in [Kinds -> RemoteTracks \cup {None}]
        /\ remoteTracks \in [RemoteTracks -> {"new", "ignored", "attached", "ended"}]
    BY DEF Init
  <2>2. toHost \in Seq(WindowMessage) /\ toAddon \in Seq(WindowMessage)
    BY DEF Init
  <2> QED
    BY <2>1, <2>2 DEF Init, TypeOK
<1>2. ClosedIsQuiet /\ InitOnce
  BY DEF Init, ClosedIsQuiet, InitOnce
<1>3. OwnTracks /\ OwnDetachers
  BY DEF Init, OwnTracks, OwnDetachers
<1>4. LastWord
  BY DEF Init, LastWord
<1>5. OnePlace
  BY DEF Init, OnePlace, Place, Holds, Once
<1> QED
  BY <1>1, <1>2, <1>3, <1>4, <1>5 DEF IInv

(* The inductive invariant holds in every reachable state, whatever the add-on
   posts and in whatever order captures, tracks and closes come. *)
THEOREM InvariantHolds == Spec => []IInv
<1>1. IInv /\ [Next]_vars => IInv'
  BY TypeStep, QuietStep, InitOnceStep, OwnTracksStep, OwnDetachersStep, LastWordStep,
     OnePlaceStep DEF IInv
<1> QED
  BY Initially, <1>1, PTL DEF Spec

(* Every variable of the host and of the bridge keeps its type. *)
THEOREM TypesHold == Spec => []TypeOK
<1>1. IInv => TypeOK
  BY DEF IInv
<1> QED
  BY InvariantHolds, <1>1, PTL

(* A set with at most one member is finite and has at most one member. *)
LEMMA AtMostOne ==
    ASSUME NEW S, \A i, j \in S : i = j
    PROVE  Cardinality(S) \in 0..1 /\ (S = {} => Cardinality(S) = 0)
<1>1. CASE S = {}
  BY <1>1, FS_EmptySet
<1>2. CASE S # {}
  <2>1. PICK i \in S : TRUE
    BY <1>2
  <2>2. S = {i}
    BY <2>1
  <2> QED
    BY <1>2, <2>2, FS_Singleton
<1> QED
  BY <1>1, <1>2

(* init goes out once, and before any delivery, whichever of onIframeLoad and the
   add-on's "ready" comes first. *)
THEOREM InitComesFirst == Spec => []InitFirst
<1>1. IInv => InitFirst
  <2> SUFFICES ASSUME IInv PROVE InitFirst
    OBVIOUS
  <2> DEFINE inits == {i \in DOMAIN toAddon : toAddon[i] = InitMsg}
  <2>1. \A i, j \in inits : i = j
    BY DEF IInv, InitOnce
  <2>2. Cardinality(inits) \in 0..1 /\ (inits = {} => Cardinality(inits) = 0)
    BY <2>1, AtMostOne
  <2>3. context => inits = {}
    BY DEF IInv, InitOnce
  <2>4. Cardinality(inits) + (IF context THEN 1 ELSE 0) <= 1
    BY <2>2, <2>3
  <2>5. \A i \in DOMAIN toAddon : toAddon[i] = DeliverMsg => context \/ \E j \in inits : j < i
    BY DEF IInv, InitOnce
  <2> QED
    BY <2>4, <2>5 DEF InitFirst
<1> QED
  BY InvariantHolds, <1>1, PTL

(* The maps of the host, mediaSendSenders and mediaSinkDetachers, name live tracks
   and attached sinks only. *)
THEOREM HeldMediaAreReal == Spec => []HeldIsReal
<1>1. IInv => HeldIsReal
  BY DEF IInv, OwnTracks, OwnDetachers, HeldIsReal
<1> QED
  BY InvariantHolds, <1>1, PTL

(* Once the messages of handleMediaSendStart and handleMediaSendStop have been
   read, the add-on knows whether a track is live for it, one whose sender has been
   overwritten apart. *)
THEOREM AddonKnows == Spec => []AddonInformed
<1>1. IInv => AddonInformed
  <2> SUFFICES ASSUME IInv, state # "closed", toAddon = <<>>, NEW k \in Kinds
               PROVE  k \in sending <=> LiveFor(k) \ overwritten # {}
    BY DEF AddonInformed
  <2>1. \A i \in DOMAIN toAddon : ~About(toAddon[i], k)
    OBVIOUS
  <2>2. k \in sending <=> senders[k] # None
    BY <2>1 DEF IInv, LastWord
  <2>3. senders[k] # None => senders[k] \in LiveFor(k) \ overwritten
    BY DEF IInv, OwnTracks, LiveFor, Capture
  <2>4. ASSUME NEW t \in LiveFor(k) \ overwritten PROVE senders[k] # None
    <3>1. t \in live \ overwritten /\ Capture(t, k) \in captured /\ t # None
      BY NoneAssumption DEF LiveFor, Capture, IInv, TypeOK
    <3>2. PICK j \in Kinds : senders[j] = t
      BY <3>1 DEF IInv, OwnTracks
    <3>3. Capture(t, j) \in captured
      BY <3>1, <3>2 DEF IInv, OwnTracks
    <3>4. Capture(t, j).track = Capture(t, k).track
      BY DEF Capture
    <3>5. Capture(t, j) = Capture(t, k)
      BY <3>1, <3>3, <3>4 DEF IInv, OwnTracks
    <3>6. j = k
      <4>1. Capture(t, j).kind = Capture(t, k).kind
        BY <3>5
      <4> QED
        BY <4>1 DEF Capture
    <3> QED
      BY <3>1, <3>2, <3>6
  <2> QED
    BY <2>2, <2>3, <2>4
<1> QED
  BY InvariantHolds, <1>1, PTL

(* handleStorage gives a request one reply: never two, and none before the backend
   has settled. *)
THEOREM RequestsAreAnsweredOnce == Spec => []AnsweredOnce
<1>1. IInv => AnsweredOnce
  <2> SUFFICES ASSUME IInv, NEW rid \in Requests
               PROVE  Cardinality(Answers(rid)) + (IF rid \in storing THEN 1 ELSE 0)
                          <= (IF rid \in pending THEN 1 ELSE 0)
    BY DEF AnsweredOnce
  <2>1. Place(rid)
    BY DEF IInv, OnePlace
  <2>2. \A i, j \in Answers(rid) : i = j
    BY <2>1 DEF Place, Once, Answers
  <2>3. Cardinality(Answers(rid)) \in 0..1 /\ (Answers(rid) = {} => Cardinality(Answers(rid)) = 0)
    BY <2>2, AtMostOne
  <2>4. rid \in storing => Answers(rid) = {} /\ rid \in pending
    BY <2>1 DEF Place, Holds, Answers
  <2>5. Answers(rid) # {} => rid \in pending
    BY <2>1 DEF Place, Holds, Answers
  <2> QED
    BY <2>3, <2>4, <2>5
<1> QED
  BY InvariantHolds, <1>1, PTL

=============================================================================
