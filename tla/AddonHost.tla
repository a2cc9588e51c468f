------------------------------ MODULE AddonHost ------------------------------
(***************************************************************************)
(* AddonHost (packages/addon-runtime/src/index.ts): one add-on in its      *)
(* iframe, from mount to close(), and the add-on's side of the bridge      *)
(* (packages/addon-sdk/runtime/senn-addon-sdk.js).                         *)
(*                                                                         *)
(* The two sides exchange window messages, in order each way. One action   *)
(* is one task of the host page or of the iframe. addLocalTrack() and      *)
(* remove() of a PeerSession settle within the task that calls them, so    *)
(* the only awaits that let other tasks in are those on the capture        *)
(* provider (getUserMedia) and on the storage backend; close() is one      *)
(* task. The capture devices, the remote tracks, the sink that renders     *)
(* them and the peer link are external.                                    *)
(***************************************************************************)
EXTENDS Integers, Sequences, FiniteSets, SequencesExt

CONSTANTS
    Kinds,          \* kinds of media: "audio", "video"
    Permitted,      \* those the manifest may send and receive, with a provider for each
    Captures,       \* start calls that reach the capture provider, and their tracks
    RemoteTracks,
    Kind,           \* of a remote track, [RemoteTracks -> Kinds]
    Requests,       \* rids of the add-on's storage requests
    MaxPosts,       \* bound: ready and media messages the add-on posts
    MaxInFlight,    \* bound: messages to the host on their way when it posts another
    MaxTexts,       \* bound: envelopes for this add-on that peers send
    None            \* no track, no request, no kind

ASSUME KindAssumption == Kind \in [RemoteTracks -> Kinds]
ASSUME PermittedAssumption == Permitted \subseteq Kinds
ASSUME BoundAssumption == MaxPosts \in Nat /\ MaxInFlight \in Nat /\ MaxTexts \in Nat
ASSUME NoneAssumption == None \notin Captures \cup RemoteTracks \cup Requests \cup Kinds

VARIABLES
    \* the host
    state,          \* currentState
    senders,        \* mediaSendSenders: the track sent, for each kind
    wants,          \* mediaReceiveAudio, mediaReceiveVideo
    detachers,      \* mediaSinkDetachers: the remote track each would detach
    capturing,      \* start calls that await the capture provider, with their kind
    storing,        \* storage requests that await the backend
    \* the devices, the sink and the peer link (external)
    live,           \* local tracks captured and not stopped
    captured,       \* captures asked for so far, with their kind
    overwritten,    \* tracks whose sender another of their kind has replaced (history)
    sink,           \* remote tracks attached and not detached
    remoteTracks,   \* each remote track: "new", "ignored", "attached" (once), "ended"
    linked,         \* the peer session is open
    texts,
    \* the bridge
    toHost,         \* window messages on their way to the host
    toAddon,        \* and to the iframe
    loaded,         \* the iframe's load event has fired
    \* the add-on
    context,        \* the SDK has received init
    pending,        \* pendingStorage
    sending,        \* kinds whose last local media.track event said "added"
    asked,          \* requests made
    posts

host == <<state, senders, wants, detachers, capturing, storing>>
devices == <<live, captured, overwritten, sink, remoteTracks, linked, texts>>
addon == <<context, pending, sending, asked, posts>>
vars == <<host, devices, toHost, toAddon, loaded, addon>>

(* Window messages. Those that only inform the add-on (errors, audio levels, the
   coming and going of remote tracks) are left out. *)
Message(op, kind, rid) == [op |-> op, kind |-> kind, rid |-> rid]
InitMsg == Message("init", None, None)
DeliverMsg == Message("deliver", None, None)
Added(k) == Message("media.track added", k, None)
Removed(k) == Message("media.track removed", k, None)
Result(rid) == Message("storage.result", None, rid)

(* What mount() leaves: the iframe is there and has not loaded. *)
Init ==
    /\ state = "mounted"
    /\ senders = [k \in Kinds |-> None]
    /\ wants = [k \in Kinds |-> FALSE]
    /\ detachers = [k \in Kinds |-> None]
    /\ capturing = {}
    /\ storing = {}
    /\ live = {}
    /\ captured = {}
    /\ overwritten = {}
    /\ sink = {}
    /\ remoteTracks = [t \in RemoteTracks |-> "new"]
    /\ linked = TRUE
    /\ texts = 0
    /\ toHost = <<>>
    /\ toAddon = <<>>
    /\ loaded = FALSE
    /\ context = FALSE
    /\ pending = {}
    /\ sending = {}
    /\ asked = {}
    /\ posts = 0

(* postToIframe: without an iframe the messages go nowhere. *)
PostToIframe(ms) == toAddon' = IF state = "closed" THEN toAddon ELSE toAddon \o ms

-----------------------------------------------------------------------------
(* The handshake *)

(* onIframeLoad *)
OnIframeLoad ==
    /\ ~loaded
    /\ state # "closed"
    /\ loaded' = TRUE
    /\ IF state = "mounted"
       THEN state' = "initialized" /\ PostToIframe(<<InitMsg>>)
       ELSE UNCHANGED <<state, toAddon>>
    /\ UNCHANGED <<senders, wants, detachers, capturing, storing, devices, toHost, addon>>

(* Definitions named Slip_* are plausible mistakes: each replaces the definition
   it stands before to show that a property notices the difference. *)
Slip_EnsureInitPosted == UNCHANGED toAddon

(* ensureInitPosted *)
EnsureInitPosted == PostToIframe(IF state = "mounted" THEN <<InitMsg>> ELSE <<>>)

Slip_HandleReady(m) ==
    /\ m.op = "ready"
    /\ EnsureInitPosted
    /\ state' = m.op
    /\ UNCHANGED <<senders, wants, detachers, capturing, storing, devices>>

(* op "ready": init goes out first if it has not yet. *)
HandleReady(m) ==
    /\ m.op = "ready"
    /\ EnsureInitPosted
    /\ state' = "active"
    /\ UNCHANGED <<senders, wants, detachers, capturing, storing, devices>>

(* bindToSession's "text" listener and deliver(): an envelope that comes before
   the add-on is ready is lost with an error event. *)
Deliver ==
    /\ linked
    /\ state # "closed"
    /\ texts < MaxTexts
    /\ texts' = texts + 1
    /\ PostToIframe(IF state = "active" THEN <<DeliverMsg>> ELSE <<>>)
    /\ UNCHANGED <<host, live, captured, overwritten, sink, remoteTracks, linked, toHost,
                   loaded, addon>>

-----------------------------------------------------------------------------
(* Storage *)

Slip_HandleStorage(m) ==
    /\ m.op = "storage"
    /\ \/ UNCHANGED <<storing, toAddon>>
       \/ storing' = storing \cup {m.rid} /\ UNCHANGED toAddon
    /\ UNCHANGED <<state, senders, wants, detachers, capturing, devices>>

(* handleStorage up to its await: refused at once (no permission, no backend,
   malformed), or handed to the backend. *)
HandleStorage(m) ==
    /\ m.op = "storage"
    /\ \/ PostToIframe(<<Result(m.rid)>>) /\ UNCHANGED storing
       \/ storing' = storing \cup {m.rid} /\ UNCHANGED toAddon
    /\ UNCHANGED <<state, senders, wants, detachers, capturing, devices>>

Slip_StorageDone(rid) ==
    /\ rid \in storing
    /\ PostToIframe(<<Result(rid)>>)
    /\ UNCHANGED <<host, devices, toHost, loaded, addon>>

(* handleStorage after its await: a value, or the backend's error. *)
StorageDone(rid) ==
    /\ rid \in storing
    /\ storing' = storing \ {rid}
    /\ PostToIframe(<<Result(rid)>>)
    /\ UNCHANGED <<state, senders, wants, detachers, capturing, devices, toHost, loaded,
                   addon>>

-----------------------------------------------------------------------------
(* Local media *)

(* handleMediaSendStart up to its await: refused, or already sending, which is a
   success, or the capture is asked for. *)
StartCapture(k) ==
    \E t \in Captures \ {c.track : c \in captured} :
        /\ captured' = captured \cup {[track |-> t, kind |-> k]}
        /\ capturing' = capturing \cup {[track |-> t, kind |-> k]}

HandleSendStart(m) ==
    /\ m.op = "media.send.start"
    /\ IF m.kind \in Permitted /\ senders[m.kind] = None
       THEN StartCapture(m.kind) /\ UNCHANGED toAddon
       ELSE /\ PostToIframe(IF m.kind \in Permitted THEN <<Added(m.kind)>> ELSE <<>>)
            /\ UNCHANGED <<capturing, captured>>
    /\ UNCHANGED <<state, senders, wants, detachers, storing, live, overwritten, sink,
                   remoteTracks, linked, texts>>

(* handleMediaSendStart after its await, with a track: it is added to the
   connection, or stopped again when there is none. *)
CaptureSucceeds(c) ==
    /\ c \in capturing
    /\ capturing' = capturing \ {c}
    /\ IF linked
       THEN /\ live' = live \cup {c.track}
            /\ senders' = [senders EXCEPT ![c.kind] = c.track]
            /\ overwritten' = overwritten \cup ({senders[c.kind]} \ {None})
            /\ PostToIframe(<<Added(c.kind)>>)
       ELSE UNCHANGED <<live, senders, overwritten, toAddon>>
    /\ UNCHANGED <<state, wants, detachers, storing, captured, sink, remoteTracks, linked,
                   texts, toHost, loaded, addon>>

(* The user refuses, or there is no device. *)
CaptureFails(c) ==
    /\ c \in capturing
    /\ capturing' = capturing \ {c}
    /\ UNCHANGED <<state, senders, wants, detachers, storing, devices, toHost, toAddon,
                   loaded, addon>>

Slip_HandleSendStop(m) ==
    /\ m.op = "media.send.stop"
    /\ live' = live \ {senders[m.kind]}
    /\ PostToIframe(IF senders[m.kind] # None THEN <<Removed(m.kind)>> ELSE <<>>)
    /\ UNCHANGED <<state, senders, wants, detachers, capturing, storing, captured,
                   overwritten, sink, remoteTracks, linked, texts>>

Slip_QuietSendStop(m) ==
    /\ m.op = "media.send.stop"
    /\ live' = live \ {senders[m.kind]}
    /\ senders' = [senders EXCEPT ![m.kind] = None]
    /\ UNCHANGED <<state, wants, detachers, capturing, storing, captured, overwritten,
                   sink, remoteTracks, linked, texts, toAddon>>

(* handleMediaSendStop: a start that is under way is not stopped. *)
HandleSendStop(m) ==
    /\ m.op = "media.send.stop"
    /\ live' = live \ {senders[m.kind]}
    /\ senders' = [senders EXCEPT ![m.kind] = None]
    /\ PostToIframe(IF senders[m.kind] # None THEN <<Removed(m.kind)>> ELSE <<>>)
    /\ UNCHANGED <<state, wants, detachers, capturing, storing, captured, overwritten,
                   sink, remoteTracks, linked, texts>>

-----------------------------------------------------------------------------
(* Remote media *)

HandleReceiveSubscribe(m) ==
    /\ m.op = "media.receive.subscribe"
    /\ wants' = [wants EXCEPT ![m.kind] = @ \/ m.kind \in Permitted]
    /\ UNCHANGED <<state, senders, detachers, capturing, storing, devices, toAddon>>

HandleReceiveUnsubscribe(m) ==
    /\ m.op = "media.receive.unsubscribe"
    /\ wants' = [wants EXCEPT ![m.kind] = FALSE]
    /\ sink' = sink \ {detachers[m.kind]}
    /\ detachers' = [detachers EXCEPT ![m.kind] = None]
    /\ UNCHANGED <<state, senders, capturing, storing, live, captured, overwritten,
                   remoteTracks, linked, texts, toAddon>>

(* handleRemoteTrack: the detacher of the kind's previous track is called. *)
HandleRemoteTrack(t) ==
    /\ linked
    /\ remoteTracks[t] = "new"
    /\ IF state # "closed" /\ wants[Kind[t]]
       THEN /\ remoteTracks' = [remoteTracks EXCEPT ![t] = "attached"]
            /\ sink' = (sink \ {detachers[Kind[t]]}) \cup {t}
            /\ detachers' = [detachers EXCEPT ![Kind[t]] = t]
       ELSE /\ remoteTracks' = [remoteTracks EXCEPT ![t] = "ignored"]
            /\ UNCHANGED <<sink, detachers>>
    /\ UNCHANGED <<state, senders, wants, capturing, storing, live, captured, overwritten,
                   linked, texts, toHost, toAddon, loaded, addon>>

(* The "ended" listener of a track that was attached, still or not, forgets the
   detacher of its kind, whatever track that one is for. An ended track renders
   nothing any more. *)
RemoteTrackEnds(t) ==
    /\ remoteTracks[t] = "attached"
    /\ remoteTracks' = [remoteTracks EXCEPT ![t] = "ended"]
    /\ sink' = sink \ {t}
    /\ detachers' = [detachers EXCEPT ![Kind[t]] = None]
    /\ UNCHANGED <<state, senders, wants, capturing, storing, live, captured, overwritten,
                   linked, texts, toHost, toAddon, loaded, addon>>

-----------------------------------------------------------------------------
(* close(), the messages, and the other side *)

(* close(): what the maps hold is stopped and detached; the iframe goes, and its
   messages with it. *)
Close ==
    /\ state # "closed"
    /\ state' = "closed"
    /\ live' = live \ Range(senders)
    /\ senders' = [k \in Kinds |-> None]
    /\ sink' = sink \ Range(detachers)
    /\ detachers' = [k \in Kinds |-> None]
    /\ wants' = [k \in Kinds |-> FALSE]
    /\ toHost' = <<>>
    /\ toAddon' = <<>>
    /\ UNCHANGED <<capturing, storing, captured, overwritten, remoteTracks, linked, texts,
                   loaded, addon>>

(* The peer session closes. The host has no listener for that. *)
SessionCloses ==
    /\ linked
    /\ linked' = FALSE
    /\ UNCHANGED <<host, live, captured, overwritten, sink, remoteTracks, texts, toHost,
                   toAddon, loaded, addon>>

(* handleWindowMessage *)
HandleWindowMessage ==
    /\ toHost # <<>>
    /\ toHost' = Tail(toHost)
    /\ LET m == Head(toHost)
       IN  \/ HandleReady(m)
           \/ HandleStorage(m)
           \/ HandleSendStart(m)
           \/ HandleSendStop(m)
           \/ HandleReceiveSubscribe(m)
           \/ HandleReceiveUnsubscribe(m)
    /\ UNCHANGED <<loaded, addon>>

(* The add-on posts: senn.ready(), senn.media. *)
Commands ==
    {Message("ready", None, None)}
    \cup {Message(op, k, None) :
             op \in {"media.send.start", "media.send.stop", "media.receive.subscribe",
                     "media.receive.unsubscribe"}, k \in Kinds}

Post(m) ==
    /\ state # "closed"
    /\ posts < MaxPosts /\ Len(toHost) <= MaxInFlight
    /\ m.op = "media.send.start" =>
          Cardinality(captured) + Cardinality({i \in DOMAIN toHost : toHost[i].op = m.op})
              < Cardinality(Captures)
    /\ posts' = posts + 1
    /\ toHost' = Append(toHost, m)
    /\ UNCHANGED <<host, devices, toAddon, loaded, context, pending, sending, asked>>

(* senn.storage: rpcStorage *)
RpcStorage(rid) ==
    /\ state # "closed"
    /\ rid \notin asked /\ Len(toHost) <= MaxInFlight
    /\ asked' = asked \cup {rid}
    /\ pending' = pending \cup {rid}
    /\ toHost' = Append(toHost, Message("storage", None, rid))
    /\ UNCHANGED <<host, devices, toAddon, loaded, context, sending, posts>>

(* The SDK's "message" listener. *)
OnMessage ==
    /\ toAddon # <<>>
    /\ toAddon' = Tail(toAddon)
    /\ LET m == Head(toAddon)
       IN  /\ context' = (context \/ m.op = "init")
           /\ pending' = pending \ {m.rid}
           /\ sending' = CASE m.op = "media.track added" -> sending \cup {m.kind}
                           [] m.op = "media.track removed" -> sending \ {m.kind}
                           [] OTHER -> sending
    /\ UNCHANGED <<host, devices, toHost, loaded, asked, posts>>

-----------------------------------------------------------------------------
Next ==
    \/ OnIframeLoad
    \/ HandleWindowMessage
    \/ Deliver
    \/ \E rid \in Requests : StorageDone(rid) \/ RpcStorage(rid)
    \/ \E c \in capturing : CaptureSucceeds(c) \/ CaptureFails(c)
    \/ \E t \in RemoteTracks : HandleRemoteTrack(t) \/ RemoteTrackEnds(t)
    \/ Close
    \/ SessionCloses
    \/ \E m \in Commands : Post(m)
    \/ OnMessage

Spec == Init /\ [][Next]_vars

(* Window messages are handled, and the storage backend settles every request.
   Nobody has to answer a request for a microphone, nor to close anything. *)
Fairness ==
    /\ WF_vars(HandleWindowMessage)
    /\ WF_vars(OnMessage)
    /\ \A rid \in Requests : WF_vars(StorageDone(rid))

FairSpec == Spec /\ Fairness

-----------------------------------------------------------------------------
(* Properties *)

WindowMessage ==
    [op: {"ready", "init", "deliver"}, kind: {None}, rid: {None}]
    \cup [op: {"media.send.start", "media.send.stop", "media.receive.subscribe",
               "media.receive.unsubscribe", "media.track added", "media.track removed"},
          kind: Kinds, rid: {None}]
    \cup [op: {"storage", "storage.result"}, kind: {None}, rid: Requests]

(* Every variable has its type. *)
TypeOK ==
    /\ state \in {"mounted", "initialized", "active", "closed"}
    /\ senders \in [Kinds -> Captures \cup {None}]
    /\ wants \in [Kinds -> BOOLEAN]
    /\ detachers \in [Kinds -> RemoteTracks \cup {None}]
    /\ capturing \subseteq [track: Captures, kind: Kinds]
    /\ storing \subseteq Requests
    /\ live \subseteq Captures
    /\ captured \subseteq [track: Captures, kind: Kinds]
    /\ overwritten \subseteq Captures
    /\ sink \subseteq RemoteTracks
    /\ remoteTracks \in [RemoteTracks -> {"new", "ignored", "attached", "ended"}]
    /\ linked \in BOOLEAN
    /\ texts \in Nat
    /\ toHost \in Seq(WindowMessage)
    /\ toAddon \in Seq(WindowMessage)
    /\ loaded \in BOOLEAN
    /\ context \in BOOLEAN
    /\ pending \subseteq Requests
    /\ sending \subseteq Kinds
    /\ asked \subseteq Requests
    /\ posts \in Nat

(* The add-on is given init once, and before anything a peer has sent, whichever
   of the iframe's load event and its "ready" comes first. *)
InitFirst ==
    LET inits == {i \in DOMAIN toAddon : toAddon[i] = InitMsg}
    IN  /\ Cardinality(inits) + (IF context THEN 1 ELSE 0) <= 1
        /\ \A i \in DOMAIN toAddon :
              toAddon[i] = DeliverMsg => context \/ \E j \in inits : j < i

(* A storage request is answered at most once, and what is under way at the
   backend has not been answered. *)
Answers(rid) == {i \in DOMAIN toAddon : toAddon[i] = Result(rid)}
AnsweredOnce ==
    state # "closed" => \A rid \in Requests :
        Cardinality(Answers(rid)) + (IF rid \in storing THEN 1 ELSE 0)
            <= (IF rid \in pending THEN 1 ELSE 0)

(* A storage request does not stay open, unless the host closes. *)
StorageAnswered ==
    \A rid \in Requests : rid \in pending ~> rid \notin pending \/ state = "closed"

(* What the host takes for its own is real: a track it lists as sent has not
   been stopped, a detacher it keeps is for a track that is attached. *)
HeldIsReal ==
    \A k \in Kinds :
        /\ senders[k] # None => senders[k] \in live
        /\ detachers[k] # None => detachers[k] \in sink

(* With no message on its way, the add-on knows whether a microphone or camera is live
   for it, however its commands and the captures they cause interleave; but for a
   track whose sender a second start, under way with the first, has overwritten
   (mediaSendSenders.set): the add-on never hears of that one again. *)
LiveFor(k) == {t \in live : [track |-> t, kind |-> k] \in captured}

AddonInformed ==
    state # "closed" /\ toAddon = <<>> =>
        \A k \in Kinds : k \in sending <=> LiveFor(k) \ overwritten # {}

(* "The host MUST stop all local tracks on media.send.*.stop, on the addon's
   close, or when PeerSession closes" (docs/addon-media-spec.md): a host that is
   closed has no track live. *)
LocalTracksStopped == state = "closed" => live = {}

=============================================================================
