------------------------------- MODULE Nostr -------------------------------
(***************************************************************************)
(* The Nostr signaling adapter (packages/signaling-nostr/src/index.ts and  *)
(* v2.ts) on one room: every peer has an adapter with one WebSocket per    *)
(* relay. publish() walks the relays, opens the sockets it needs and then  *)
(* waits for one acknowledgement, for every refusal or for its timer;      *)
(* subscribe() starts a walk of its own that sends REQ; an event is        *)
(* decoded asynchronously after it has been de-duplicated.                 *)
(*                                                                         *)
(* A step is an event (a call, a frame, a socket's event, a timer) with    *)
(* all that runs before the next one, the continuations of settled         *)
(* promises included: a walk is at rest only at a socket that connects.    *)
(* The relays and the network are external: a relay accepts an event,      *)
(* refuses it, once or again, or stays silent, and forwards what it        *)
(* accepts to the subscriptions it holds at that moment (kind 25556 is     *)
(* ephemeral). A socket's frames are lost when it drops, and its send()    *)
(* may throw on an EVENT.                                                  *)
(***************************************************************************)
EXTENDS Naturals, Sequences, FiniteSets, SequencesExt, FiniteSetsExt

CONSTANTS
    Clients,      \* the adapters
    Handlers,     \* the handlers a peer subscribes
    Messages,     \* each published at most once, in an event of its own
    Author,       \* the adapter that publishes a message, [Messages -> Clients]
    RelayOrder,   \* options.relays, the same sequence for every adapter
    Foreign,      \* events of others: "unmarked" decrypts without the
                  \* sentinel, "opaque" neither decrypts nor parses, "other
                  \* kind" is not of kind 25556
    MaxSubscribes,\* bound: subscriptions (rooms entries) an adapter makes
    MaxFailures,  \* bound: connections that fail or drop, sends that throw,
                  \* refusals that are repeated, events of others
    Listeners,    \* bound: the clients that subscribe
    Leavers,      \* bound: the clients that may call close()
    Modes,        \* bound: the modes adapters are constructed with
    None

ASSUME NostrConstants ==
    /\ Author \in [Messages -> Clients]
    /\ RelayOrder \in Seq(STRING) /\ RelayOrder # <<>> /\ IsInjective(RelayOrder)
    /\ Foreign \subseteq {"unmarked", "opaque", "other kind"}
    /\ MaxSubscribes \in Nat /\ MaxFailures \in Nat
    /\ Listeners \subseteq Clients /\ Leavers \subseteq Clients
    /\ Modes \subseteq [Clients -> {"v1", "v2"}]
    /\ Messages \cap (Clients \X (1 .. MaxSubscribes)) = {}
    /\ IsFiniteSet(Messages) /\ Messages \cap Foreign = {}
    /\ None \notin 1 .. MaxSubscribes

Relays == ToSet(RelayOrder)
Subs == 1 .. MaxSubscribes
Events == Messages \cup Foreign
(* The walks over the relays: publish()'s of a message, openReqOnAll()'s   *)
(* of a subscription.                                                      *)
Walks == Messages \cup (Clients \X Subs)
Done == Len(RelayOrder) + 1
Walker(w) == IF w \in Messages THEN Author[w] ELSE w[1]

VARIABLES
    mode,      \* of each adapter: "v1", or "v2" with NIP-44 content
    kat,       \* a v2 adapter's known-answer test and room key: "pending", "ok", "failed"
    life,      \* "open"; "closing" until close() resolves, then "closed"
    sockets,   \* the sockets map: "none", "connecting" or "open" per relay;
               \* "closing" for one that close() has dropped from the map while
               \* it was connecting
    walk,      \* of each walk: the relay whose socket it waits for, Done if none
    pub,       \* of each message: where publish() is, ackPromise, its counts
    subId,     \* the room's entry in the rooms map: a number of Subs or None
    used,      \* subscriptions made (subCounter)
    handlers,  \* the handler set of each rooms entry, which outlives the entry
    delivered, \* the event ids each rooms entry has seen
    decoding,  \* events that wait for the room key, with their rooms entry, in order
    given,     \* what each handler has been given since it subscribed, in order
    inbox,     \* EVENT frames on their way from an adapter to a relay
    wire,      \* frames on their way from a relay to an adapter
    subscribed,\* the subscriptions a relay holds on an adapter's connection
    accepted,  \* messages some relay has accepted
    refusals,  \* the relays that have refused a message, or to which its
               \* send threw (history)
    repeated,  \* messages that a relay has refused again (history)
    failures

adapterVars == <<mode, kat, life, subId, used, handlers, delivered, decoding, given>>
relayVars == <<inbox, wire, subscribed, accepted, refusals, repeated>>
vars == <<adapterVars, relayVars, sockets, walk, pub, failures>>

Init ==
    /\ mode \in Modes
    /\ kat = [c \in Clients |-> IF mode[c] = "v2" THEN "pending" ELSE "ok"]
    /\ life = [c \in Clients |-> "open"]
    /\ sockets = [c \in Clients |-> [r \in Relays |-> "none"]]
    /\ walk = [w \in Walks |-> Done]
    /\ pub = [m \in Messages |-> [phase |-> "idle", ack |-> "open", relayCount |-> 0, nacked |-> 0]]
    /\ subId = [c \in Clients |-> None]
    /\ used = [c \in Clients |-> 0]
    /\ handlers = [c \in Clients |-> [s \in Subs |-> {}]]
    /\ delivered = [c \in Clients |-> [s \in Subs |-> {}]]
    /\ decoding = [c \in Clients |-> <<>>]
    /\ given = [c \in Clients |-> [h \in Handlers |-> <<>>]]
    /\ inbox = [c \in Clients |-> [r \in Relays |-> {}]]
    /\ wire = inbox
    /\ subscribed = inbox
    /\ accepted = {}
    /\ refusals = [m \in Messages |-> {}]
    /\ repeated = {}
    /\ failures = 0

-----------------------------------------------------------------------------
(* Content: NIP-44 v2 (v2.ts).                                              *)

(* encodeContent(): what the event's content is, by its author's mode.      *)
Content(e) == IF e \in Messages THEN mode[Author[e]] ELSE e

(* tryDecryptV2() with the room's key.                                      *)
TryDecrypt(content) ==
    CASE content = "v2" -> "v2"
      [] content = "unmarked" -> "v2-no-sentinel"
      [] OTHER -> "decrypt-fail"

(* A slip: a failed known-answer test downgrades the receiver to v1.        *)
Slip_Decodes(c, test, e) ==
    \/ test = "ok" /\ mode[c] = "v2" /\ TryDecrypt(Content(e)) = "v2"
    \/ TryDecrypt(Content(e)) = "decrypt-fail" /\ Content(e) = "v1"

(* decodeContent(): v2 first, then plain JSON, nothing if the test failed.  *)
Decodes(c, test, e) ==
    /\ test = "ok"
    /\ \/ mode[c] = "v2" /\ TryDecrypt(Content(e)) = "v2"
       \/ /\ mode[c] = "v2" => TryDecrypt(Content(e)) = "decrypt-fail"
          /\ Content(e) = "v1"

(* decodeAndDispatch(): the handlers its entry has by now are called.       *)
Dispatched(c, test, sub, e) ==
    [h \in Handlers |-> IF Decodes(c, test, e) /\ h \in handlers[c][sub] THEN <<e>> ELSE <<>>]

(* The known-answer test has failed, or has passed and the room key is      *)
(* there: the events that waited for it are dispatched.                     *)
KatSettles(c) ==
    /\ kat[c] = "pending"
    /\ \E outcome \in {"ok", "failed"} :
          /\ kat' = [kat EXCEPT ![c] = outcome]
          /\ given' = [given EXCEPT ![c] = [h \in Handlers |->
                @[h] \o FlattenSeq([i \in 1 .. Len(decoding[c]) |->
                            Dispatched(c, outcome, decoding[c][i][1], decoding[c][i][2])[h]])]]
    /\ decoding' = [decoding EXCEPT ![c] = <<>>]
    /\ UNCHANGED <<mode, life, subId, used, handlers, delivered,
                   relayVars, sockets, walk, pub, failures>>

-----------------------------------------------------------------------------
(* A record p of pub.                                                       *)

(* A slip: the walk's end is not waited for.                                *)
Slip_AllRefused(p, loopFinalized) == p.nacked >= p.relayCount

(* tryReject(): every relay that was sent the event has refused it.         *)
AllRefused(p, loopFinalized) == loopFinalized /\ p.nacked >= p.relayCount

(* await ackPromise, after the walk.                                        *)
Settled(p) ==
    IF p.phase = "acking" /\ p.ack # "open"
    THEN [p EXCEPT !.phase = IF p.ack = "ok" THEN "resolved" ELSE "rejected"] ELSE p

-----------------------------------------------------------------------------
(* Sockets.                                                                 *)

(* ensureSocket() returns an open socket at once, waits for a connecting    *)
(* one and creates it where there is none; closed is not looked at. So a    *)
(* walk that is at relay i next waits at the first one that is not open,    *)
(* and has sent its frame to those before it.                               *)
NextWait(socks, i) ==
    Min({j \in i .. Len(RelayOrder) : socks[RelayOrder[j]] # "open"} \cup {Done})

Sent(i, j) == {RelayOrder[k] : k \in i .. (j - 1)}

Connecting(socks, waits) ==
    [r \in Relays |-> IF \E j \in waits \ {Done} : RelayOrder[j] = r THEN "connecting" ELSE socks[r]]

(* A slip: a promise that was settled during the walk is not looked at.     *)
Slip_Ended(p) ==
    IF p.relayCount = 0 THEN [p EXCEPT !.phase = "rejected"] ELSE [p EXCEPT !.phase = "acking"]

(* The end of publish()'s walk: no reachable relay, or finalizeAndCheck().  *)
Ended(p) ==
    IF p.relayCount = 0 THEN [p EXCEPT !.phase = "rejected"]
    ELSE Settled([p EXCEPT !.phase = "acking",
                           !.ack = IF @ = "open" /\ AllRefused(p, TRUE) THEN "nacked" ELSE @])

(* The walk of a publish() p counts the relays it has sent its event to;    *)
(* a send that throws is a refusal while p's callback is pending.           *)
Walked(p, sent, threw) ==
    [p EXCEPT !.phase = "walking", !.relayCount = @ + sent,
              !.nacked = IF p.ack = "open" THEN @ + threw ELSE @]

(* Walks ws of c go on from their relays to where the sockets let them:     *)
(* EVENT or REQ frames to the relays on the way, but those whose send       *)
(* throws, and the end of publish()'s walk. from[w] is the relay a walk     *)
(* starts at, broken the sockets that fail with it.                         *)
Proceed(c, ws, from, socks, broken) ==
    LET to(w) == NextWait(socks, from[w])
        reached(w) == Sent(from[w], to(w))
    IN  /\ walk' = [w \in Walks |-> IF w \in ws THEN to(w) ELSE walk[w]]
        /\ sockets' = [sockets EXCEPT ![c] = Connecting(socks, {to(w) : w \in ws})]
        /\ \E thrown \in SUBSET UNION {reached(m) : m \in ws \cap Messages} :
              /\ failures' = failures + broken + Cardinality(thrown)
              /\ failures' <= MaxFailures
              /\ inbox' = [inbox EXCEPT ![c] = [r \in Relays |->
                    @[r] \cup {m \in ws \cap Messages : r \in reached(m) \ thrown}]]
              /\ refusals' = [m \in Messages |->
                    IF m \in ws THEN refusals[m] \cup (reached(m) \cap thrown) ELSE refusals[m]]
              /\ pub' = [m \in Messages |->
                    IF m \notin ws THEN pub[m]
                    ELSE LET p == Walked(pub[m], to(m) - from[m], Cardinality(reached(m) \cap thrown))
                         IN  IF to(m) = Done THEN Ended(p) ELSE p]

Requested(c, ws, from, socks, r) ==
    {s \in Subs : <<c, s>> \in ws /\ r \in Sent(from[<<c, s>>], NextWait(socks, from[<<c, s>>]))}

Waiting(c, r) == {w \in Walks : Walker(w) = c /\ walk[w] # Done /\ RelayOrder[walk[w]] = r}

(* The creator of the socket subscribes the room there is by now; then the  *)
(* walks that wait for it go on.                                            *)
SocketOpens(c, r) ==
    LET socks == [sockets[c] EXCEPT ![r] = "open"] IN
    /\ sockets[c][r] = "connecting"
    /\ Proceed(c, Waiting(c, r), walk, socks, 0)
    /\ subscribed' = [subscribed EXCEPT ![c] = [q \in Relays |->
          @[q] \cup Requested(c, Waiting(c, r), walk, socks, q)
               \cup (IF q = r THEN {subId[c]} \ {None} ELSE {})]]
    /\ UNCHANGED <<adapterVars, wire, accepted, repeated>>

(* The walks that wait for the socket go on with the next relay. (A socket  *)
(* that close() has dropped and the one that a walk opens in its place may  *)
(* connect together: the entry is then the second one's, and the failure    *)
(* of the first, which in the code deletes it, is not told apart.)          *)
SocketFails(c, r) ==
    LET socks == [sockets[c] EXCEPT ![r] = "none"]
        onward == [w \in Walks |-> walk[w] + 1]
    IN  /\ \/ sockets[c][r] = "closing" /\ Proceed(c, Waiting(c, r), onward, socks, 0)
           \/ sockets[c][r] = "connecting" /\ Proceed(c, Waiting(c, r), onward, socks, 1)
        /\ subscribed' = [subscribed EXCEPT ![c] = [q \in Relays |->
              @[q] \cup Requested(c, Waiting(c, r), onward, socks, q)]]
        /\ UNCHANGED <<adapterVars, wire, accepted, repeated>>

(* The connection's "close" event; what was on it is lost.                  *)
SocketDrops(c, r) ==
    /\ sockets[c][r] = "open"
    /\ failures < MaxFailures
    /\ failures' = failures + 1
    /\ sockets' = [sockets EXCEPT ![c][r] = "none"]
    /\ inbox' = [inbox EXCEPT ![c][r] = {}]
    /\ wire' = [wire EXCEPT ![c][r] = {}]
    /\ subscribed' = [subscribed EXCEPT ![c][r] = {}]
    /\ UNCHANGED <<adapterVars, accepted, refusals, repeated, walk, pub>>

-----------------------------------------------------------------------------
(* publish()                                                                *)

Publish(m) ==
    /\ pub[m].phase = "idle"
    /\ pub' = [pub EXCEPT ![m].phase = IF life[Author[m]] = "open" THEN "encoding" ELSE "rejected"]
    /\ UNCHANGED <<adapterVars, relayVars, sockets, walk, failures>>

(* A v2 adapter waits for its test and its room key; then the event is      *)
(* signed, pendingAcks has its callback, the timer runs and the walk starts.*)
StartWalk(m) ==
    LET c == Author[m] IN
    /\ pub[m].phase = "encoding"
    /\ \/ /\ kat[c] = "ok"
          /\ Proceed(c, {m}, [w \in Walks |-> 1], sockets[c], 0)
       \/ /\ kat[c] = "failed"
          /\ pub' = [pub EXCEPT ![m].phase = "rejected"]
          /\ UNCHANGED <<walk, sockets, inbox, refusals, failures>>
    /\ UNCHANGED <<adapterVars, wire, subscribed, accepted, repeated>>

(* The timer settles ackPromise, during the walk or after it.               *)
AckTimeout(m) ==
    /\ pub[m].phase \in {"walking", "acking"}
    /\ pub[m].ack = "open"
    /\ pub' = [pub EXCEPT ![m] = Settled([@ EXCEPT !.ack = "timeout"])]
    /\ UNCHANGED <<adapterVars, relayVars, sockets, walk, failures>>

(* finish(): an OK frame for a message whose callback is still pending.     *)
Finish(p, ok) ==
    IF p.phase \notin {"walking", "acking"} \/ p.ack # "open" THEN p
    ELSE IF ok THEN Settled([p EXCEPT !.ack = "ok"])
    ELSE LET n == [p EXCEPT !.nacked = @ + 1]
         IN  IF AllRefused(n, p.phase = "acking") THEN Settled([n EXCEPT !.ack = "nacked"]) ELSE n

-----------------------------------------------------------------------------
(* subscribe(), unsubscribe and close()                                     *)

(* A first handler makes the entry and starts openReqOnAll(), whose walk    *)
(* goes on even if the entry is gone by then.                               *)
Subscribe(c, h) ==
    /\ c \in Listeners /\ life[c] = "open"
    /\ kat[c] # "failed"
    /\ \A s \in Subs : h \notin handlers[c][s]
    /\ \/ /\ subId[c] # None
          /\ handlers' = [handlers EXCEPT ![c][subId[c]] = @ \cup {h}]
          /\ UNCHANGED <<subId, used, relayVars, sockets, walk, pub, failures>>
       \/ LET s == used[c] + 1  start == [w \in Walks |-> 1] IN
          /\ subId[c] = None
          /\ s <= MaxSubscribes
          /\ used' = [used EXCEPT ![c] = s]
          /\ subId' = [subId EXCEPT ![c] = s]
          /\ handlers' = [handlers EXCEPT ![c][s] = {h}]
          /\ Proceed(c, {<<c, s>>}, start, sockets[c], 0)
          /\ subscribed' = [subscribed EXCEPT ![c] = [r \in Relays |->
                @[r] \cup Requested(c, {<<c, s>>}, start, sockets[c], r)]]
          /\ UNCHANGED <<wire, accepted, repeated>>
    /\ given' = [given EXCEPT ![c][h] = <<>>]
    /\ UNCHANGED <<mode, kat, life, delivered, decoding>>

(* closeReqOnAll(): CLOSE on the open sockets; a connecting one throws.     *)
CloseReq(c, s) == [subscribed EXCEPT ![c] = [r \in Relays |-> @[r] \ {s}]]

Unsubscribe(c, h) ==
    LET s == subId[c] IN
    /\ life[c] = "open"
    /\ s # None /\ h \in handlers[c][s]
    /\ handlers' = [handlers EXCEPT ![c][s] = @ \ {h}]
    /\ IF handlers[c][s] = {h}
       THEN subId' = [subId EXCEPT ![c] = None] /\ subscribed' = CloseReq(c, s)
       ELSE UNCHANGED <<subId, subscribed>>
    /\ UNCHANGED <<mode, kat, life, used, delivered, decoding, given,
                   inbox, wire, accepted, refusals, repeated, sockets, walk, pub, failures>>

(* close(): rooms and sockets are emptied. The handler sets and the walks   *)
(* are left as they are: a walk that waits for one of the sockets goes on   *)
(* to its next relay when that socket has failed.                           *)
Close(c) ==
    /\ c \in Leavers /\ life[c] = "open"
    /\ life' = [life EXCEPT ![c] = "closing"]
    /\ subId' = [subId EXCEPT ![c] = None]
    /\ sockets' = [sockets EXCEPT ![c] = [r \in Relays |->
                     IF @[r] = "connecting" THEN "closing" ELSE "none"]]
    /\ inbox' = [inbox EXCEPT ![c] = [r \in Relays |-> {}]]
    /\ wire' = [wire EXCEPT ![c] = [r \in Relays |-> {}]]
    /\ subscribed' = [subscribed EXCEPT ![c] = [r \in Relays |-> {}]]
    /\ UNCHANGED <<mode, kat, used, handlers, delivered, decoding, given,
                   accepted, refusals, repeated, walk, pub, failures>>

CloseResolves(c) ==
    /\ life[c] = "closing"
    /\ life' = [life EXCEPT ![c] = "closed"]
    /\ UNCHANGED <<mode, kat, subId, used, handlers, delivered, decoding, given,
                   relayVars, sockets, walk, pub, failures>>

-----------------------------------------------------------------------------
(* onRelayMessage()                                                         *)

ReceiveOK(c, r) ==
    \E f \in wire[c][r] :
        /\ f.type = "OK"
        /\ pub' = [pub EXCEPT ![f.event] = Finish(@, f.ok)]
        /\ wire' = [wire EXCEPT ![c][r] = @ \ {f}]
        /\ UNCHANGED <<adapterVars, inbox, subscribed, accepted, refusals, repeated,
                       sockets, walk, failures>>

(* A slip: an event that a second relay brings is not recognised.           *)
Slip_Fresh(c, f) == f.event # "other kind" /\ f.sub = subId[c]

(* handleEvent(): of the right kind, for the room's entry, not seen yet.    *)
Fresh(c, f) ==
    /\ f.event # "other kind"
    /\ f.sub = subId[c]
    /\ f.event \notin delivered[c][f.sub]

ReceiveEvent(c, r) ==
    \E f \in wire[c][r] :
        /\ f.type = "EVENT"
        /\ wire' = [wire EXCEPT ![c][r] = @ \ {f}]
        /\ \/ /\ Fresh(c, f)
              /\ delivered' = [delivered EXCEPT ![c][f.sub] = @ \cup {f.event}]
              /\ IF kat[c] = "pending"
                 THEN /\ decoding' = [decoding EXCEPT ![c] = Append(@, <<f.sub, f.event>>)]
                      /\ UNCHANGED given
                 ELSE /\ given' = [given EXCEPT ![c] = [h \in Handlers |->
                                       @[h] \o Dispatched(c, kat[c], f.sub, f.event)[h]]]
                      /\ UNCHANGED decoding
           \/ ~Fresh(c, f) /\ UNCHANGED <<delivered, decoding, given>>
        /\ UNCHANGED <<mode, kat, life, subId, used, handlers,
                       inbox, subscribed, accepted, refusals, repeated,
                       sockets, walk, pub, failures>>

-----------------------------------------------------------------------------
(* The relays (external).                                                   *)

Forward(r, e) ==
    [c \in Clients |-> {[type |-> "EVENT", sub |-> s, event |-> e] : s \in subscribed[c][r]}]

Answer(r, m, ok) ==
    [wire EXCEPT ![Author[m]][r] = @ \cup {[type |-> "OK", event |-> m, ok |-> ok]}]

Accept(r) ==
    \E c \in Clients, m \in Messages :
        /\ m \in inbox[c][r]
        /\ inbox' = [inbox EXCEPT ![c][r] = @ \ {m}]
        /\ accepted' = accepted \cup {m}
        /\ wire' = [d \in Clients |-> [Answer(r, m, TRUE)[d] EXCEPT ![r] = @ \cup Forward(r, m)[d]]]
        /\ UNCHANGED <<adapterVars, subscribed, refusals, repeated, sockets, walk, pub, failures>>

Refuse(r) ==
    \E c \in Clients, m \in Messages :
        /\ m \in inbox[c][r]
        /\ inbox' = [inbox EXCEPT ![c][r] = @ \ {m}]
        /\ refusals' = [refusals EXCEPT ![m] = @ \cup {r}]
        /\ wire' = Answer(r, m, FALSE)
        /\ UNCHANGED <<adapterVars, subscribed, accepted, repeated, sockets, walk, pub, failures>>

(* One more OK frame that refuses the event, over an open connection.       *)
RefuseAgain(r) ==
    \E m \in Messages :
        /\ r \in refusals[m] /\ sockets[Author[m]][r] = "open"
        /\ Answer(r, m, FALSE) # wire
        /\ failures < MaxFailures
        /\ failures' = failures + 1
        /\ repeated' = repeated \cup {m}
        /\ wire' = Answer(r, m, FALSE)
        /\ UNCHANGED <<adapterVars, inbox, subscribed, accepted, refusals, sockets, walk, pub>>

Inject(r) ==
    \E c \in Clients, e \in Foreign :
        /\ subscribed[c][r] # {} /\ failures < MaxFailures
        /\ failures' = failures + 1
        /\ wire' = [wire EXCEPT ![c][r] = @ \cup Forward(r, e)[c]]
        /\ UNCHANGED <<adapterVars, inbox, subscribed, accepted, refusals, repeated,
                       sockets, walk, pub>>

-----------------------------------------------------------------------------
Next ==
    \/ \E m \in Messages : Publish(m) \/ StartWalk(m) \/ AckTimeout(m)
    \/ \E c \in Clients : KatSettles(c) \/ Close(c) \/ CloseResolves(c)
    \/ \E c \in Clients, r \in Relays :
          SocketOpens(c, r) \/ SocketFails(c, r) \/ SocketDrops(c, r)
          \/ ReceiveOK(c, r) \/ ReceiveEvent(c, r)
    \/ \E c \in Clients, h \in Handlers : Subscribe(c, h) \/ Unsubscribe(c, h)
    \/ \E r \in Relays : Accept(r) \/ Refuse(r) \/ RefuseAgain(r) \/ Inject(r)

Spec == Init /\ [][Next]_vars

(* The event loop runs what is ready, a connection attempt ends, and so     *)
(* does the timer; nothing is assumed of the relays.                        *)
Fairness ==
    /\ \A m \in Messages : WF_vars(StartWalk(m)) /\ WF_vars(AckTimeout(m))
    /\ \A c \in Clients : WF_vars(KatSettles(c))
    /\ \A c \in Clients, r \in Relays : WF_vars(SocketOpens(c, r) \/ SocketFails(c, r))

FairSpec == Spec /\ Fairness

-----------------------------------------------------------------------------
(* The SignalingTransport contract.                                         *)
Contract == INSTANCE SignalingTransport WITH
    outcome <- [m \in Messages |->
                  CASE pub[m].phase = "idle" -> "none"
                    [] pub[m].phase \in {"resolved", "rejected"} -> pub[m].phase
                    [] OTHER -> "pending"],
    reached <- accepted,
    handlers <- [c \in Clients |-> UNION {handlers[c][s] : s \in Subs}]

(* What close() does not end: it leaves the handler sets as they are, and   *)
(* the events that wait to be decoded when it resolves are still handed on. *)
HandsLate(c) ==
    \E ms \in SeqOf(Messages, Cardinality(Messages)) :
        /\ life[c] = "closed"
        /\ ToSet(ms) \subseteq {decoding[c][i][2] : i \in 1 .. Len(decoding[c])}
        /\ decoding'[c] = <<>>
        /\ Contract!Hand(c, ms)

Promised == Contract!Next \/ \E c \in Clients : HandsLate(c)

(* A handler is given each message once, whatever number of relays bring    *)
(* it and however often the sockets drop and are opened again; publish()    *)
(* resolves only for a message that some relay has accepted                 *)
(* (packages/protocol/src/signaling.ts:42). After close() has resolved a    *)
(* handler is given at most the events whose decoding it found under way,   *)
(* all in one step, and nothing after that (close(), decodeAndDispatch()).  *)
KeepsContract == Contract!Init /\ [][Promised]_(Contract!vars)

(* A publish() fails for refusals only when every relay it was to send the  *)
(* event to has refused it, or threw at the send, however the refusals race *)
(* with the walk that is still opening sockets (tryReject, loopFinalized).  *)
(* Refusals are counted by the frame: one that a relay repeats stands for   *)
(* another relay's, and of such a publish() nothing of the kind is true.    *)
RefusedByAll ==
    \A m \in Messages :
        pub[m].ack = "nacked" =>
            /\ pub[m].phase \notin {"walking", "idle", "encoding"}
            /\ m \in repeated \/ Cardinality(refusals[m]) >= pub[m].relayCount

(* A v2 adapter whose known-answer test has failed gives its handlers       *)
(* nothing and sends nothing, a subscription or a publish() made before the *)
(* failure included (ADR-0027 in index.ts:136-142).                         *)
NoDowngrade ==
    \A c \in Clients : kat[c] # "ok" =>
        /\ \A h \in Handlers : given[c][h] = <<>>
        /\ \A m \in Messages : Author[m] = c => m \notin accepted

(* Every publish() settles: a relay that never answers, a socket that       *)
(* fails under it or a close() beside it does not leave it pending.         *)
PublishSettles ==
    \A m \in Messages : pub[m].phase = "encoding" ~> pub[m].phase \in {"resolved", "rejected"}

(* After close() the adapter holds no socket ("close releases all resources *)
(* held by the adapter and terminates any background polling, sockets, or   *)
(* subscriptions", packages/protocol/src/signaling.ts:46). Violated: a walk *)
(* that close() finds waiting goes on, and opens sockets nobody closes.     *)
CloseReleasesSockets ==
    \A c \in Clients : life[c] = "closed" =>
        \A r \in Relays : sockets[c][r] \in {"none", "closing"}

=============================================================================
