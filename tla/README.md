# SENN: specifications, model checks and proofs

SENN connects two browsers directly: an *inviter* and a *joiner* exchange WebRTC
descriptions over some signaling transport, then talk over data channels; add-ons
run in sandboxed iframes beside the conversation. This directory holds the
TLA+ specifications of the parts of it that are hard to test, the TLC
configurations that check them, and the TLAPS proofs about them.

Run from this directory: `tlc -config MCRoom.cfg MCPeerSession` for one run,
`tlapm PeerSessionProofs.tla` for the proofs of one module.

- [Inventory](#inventory): the system, part by part
- [How to read a module](#how-to-read-a-module)
- [Modules](#modules): what each stands for
- [Runs](#runs): what is checked, under which bounds
- [Fairness](#fairness)
- [Proofs](#proofs)
- [Findings](#findings), [what does not hold](#what-does-not-hold) and
  [observations](#observations)
- [What is not modelled](#what-is-not-modelled)
- [Plan](#plan)

## Inventory

Paths are relative to the repository's root.

| part | source | state it keeps | operations |
|---|---|---|---|
| PeerSession: lifecycle and negotiation | `packages/core/src/peer-session.ts` | `currentState`, `remotePeerId`, `makingOffer`, `ignoreOffer`, the `RTCPeerConnection`, its channels, `signalingUnsub` | `start`, `addLocalTrack`/`remove`, `close`; handlers for offer, answer, ice, bye; connection and channel events |
| PeerSession: binary reassembly | same file | `reassembly` (Map of slots), `reassemblyBytes`, `reassemblyGcTimer` | `handleBinaryFrame`, `handleChunk`, `evictUntilUnderBudget`, `gcStaleReassemblies`, the end of `close` |
| PeerSession: binary sender | same file | none of its own | `sendBinary` |
| SignalingTransport | `packages/protocol/src/signaling.ts` | (an interface) | `publish`, `subscribe`, `Unsubscribe`, `close` |
| HTTP polling adapter | `packages/signaling-http-poll/src/index.ts` | per room: `handlers`, `delivered`, `cursor`, the abort controller and loop | the four above, `runPollLoop`, `pollOnce` |
| HTTP polling endpoints | `examples/signaling-http-poll-server/{node,php}` | one queue per room, each item with its time | GET, POST, `pruneTtl` |
| Nostr adapter, v1 and v2 | `packages/signaling-nostr/src` | a WebSocket per relay, `pendingAcks`, per room: `handlers`, `subId`, `delivered`; the known-answer test's result | the four above, relay frames, socket events, the acknowledgement timer |
| URL fragment adapter | `packages/signaling-url-fragment/src` | `outbox`, `handlers` | the four above, `exportBundle`, `importBundle` |
| AddonHost | `packages/addon-runtime/src/index.ts` | `currentState`, senders, detachers, receive flags, the iframe | `load`, mount, window messages, `deliver`, `close` |
| add-on SDK | `packages/addon-sdk/runtime/senn-addon-sdk.js` | context, pending storage requests, handlers | `ready`, `send`, `storage.*`, `media.*`, the message listener |
| codecs | `packages/protocol/src/{ids,envelope,invite,bundle}.ts` | none | build, parse, validate |
| manifest | `packages/manifest/src` | none | keystores, `signManifest`, `verifyManifest` |
| storage | `packages/storage/src` | a Map, or an IndexedDB database behind a cached promise | get, put, delete, list, clear |
| host page | `apps/web/src/main.ts` | room, session, call, level meter, add-on host, hand-off | create, join, retry, export, share, import, call, meter, load, hand-off |
| official add-ons | `apps/web/public/addons/*` | files listed, strokes, presence, throttle | their buttons, bridge messages, storage answers |
| gallery | `apps/addon-gallery/src/main.ts` | list of registries, cards, errors, cache mode | add, remove, refresh, `loadFromUrl` |
| scripts | `scripts/` | the working tree and the released site | sign, sign all, verify, validate, stage, publish |
| UI package, WordPress plug-in, examples | | presentation | |

**How they interact.** The host page makes one `PeerSession` with one
`SignalingTransport` and subscribes the session's handler to the room. Sessions talk
over `publish`, whose promise they await, and through the handler, which a transport
calls for every message of the room, the session's own included. The session drives an
`RTCPeerConnection`, whose operations are promises too and whose events call back. An
`AddonHost` listens to one session's text, binary and track events, owns one iframe, and
exchanges window messages with it; it asks a capture provider for microphones and
cameras, a sink to render remote tracks, and a storage backend. The page's own transport
is the URL fragment adapter: the user carries links by hand. Add-ons come from a
publisher's static site: registry, manifest and signature are three documents, which a
page and the gallery fetch one by one while the publisher goes on releasing.

**What is hard.** There are no threads, and still everything interleaves: each
`await` gives the event loop away, and a second handler may run to its own `await`
(or `close()` to its end) before the first goes on. Two
peers do so at once, over a transport that may reorder, lose, or fail to publish.
A page that is reloaded keeps its add-ons' storage and nothing else. Buffers are
bounded, and are swept by timers that run only while needed. Documents are written,
validated and read by programs that are updated one by one.

**What makes each part correct.**

- *PeerSession*: the two connections agree on each exchange in spite of glare; a
  session deals with one remote peer only; `close()` ends, releases everything and
  brings the partner down; nothing continues after it.
- *Reassembly*: bounded memory whatever arrives, no hole in an emitted message but in
  the place of a chunk with a fractional number, none lost without an error, none kept
  forever.
- *SignalingTransport and its adapters*: each message of the room once per
  subscription, none after `close()`, no `publish()` resolved too early.
- *AddonHost*: `init` once and first; one reply per storage request; what the maps
  hold is what is live; media stop when their owner stops.
- *Nostr*: a publish is decided once, by one acceptance, by as many refusals as relays or by
  its timer; relays that repeat an event change nothing; a failed known-answer test
  never falls back to v1.
- *URL fragment, host page*: a message leaves in one link; what the page starts it can
  stop.
- *Codecs*: decoding inverts encoding, validators accept the type and nothing else.
- *Storage, official add-ons*: no add-on reaches another's records; lists and remote
  states end as what they show.
- *Supply chain*: what is vouched for was signed, and what the gate passed loads.

`PROJECT.json` lists the places where this can go wrong (`hazards`), each at its
line with the property that covers it.

## How to read a module

- A module is one component; an action is *one turn of the event loop*: a handler
  up to its first `await`, or a continuation from one `await` to the next. An
  action's comment names the function and the `await` it starts after.
- Where the code leaves a function early, the action has a disjunct or an `IF`, or
  there is one action per way out.
- Constants that only keep the state space finite are marked "bound" where they
  are declared. The theorems hold for all their values.
- Definitions named `Slip_*` are plausible mistakes. Each stands before the
  definition it would replace. Nothing refers to them; putting one in the place of the
  right definition makes a run fail, which shows that the property notices
  (`mutants` in `PROJECT.json` says which).
- `map` in `PROJECT.json` gives the source lines of each definition.

## Modules

### PeerSession

The sessions of one room: an inviter and any number of joiners, who
all receive the inviter's broadcast offer. The state of a session
(`state`, `remote`, `makingOffer`, `ignoreOffer`, `subscribed`) is the object's
fields. Two counters stand for functions suspended at an `await` on `publish()`:
`negotiating` (runNegotiation) and `closing` (close). `overlapped` is history: the peers
that have had two calls of `runNegotiation()` at once.

The connection is external and modelled from what the code relies on: the
signaling state, the *operations queue* (`ops`: operations complete one
after the other, and each entry says which code awaits it), implicit rollback, the
negotiation-needed flag, and the argument-less `setLocalDescription()`, which picks
offer or answer *when it runs*. An SDP is reduced to who made which offer, how
many of its maker's local changes it covers, and, for an answer, the offer it answers. The
network is a mailbox per peer. With `InOrder` the first message is delivered next,
without it any.

| action | code |
|---|---|
| `Start` | `start()` |
| `ChangeTracks` | `addLocalTrack()` and the sender's `remove()` |
| `NegotiationNeeded`, `OfferReady`, `OfferPublished` | the three turns of `runNegotiation()` |
| `Deliver` | `handleSignalingMessage()` to its first await: `HandleOffer`, `HandleAnswer`, `HandleIce`, `HandleBye`, or a drop |
| `RemoteOfferSet`, `AnswerReady` | case "offer", after each await |
| `RemoteAnswerSet`, `IceAdded` | cases "answer" and "ice", after theirs |
| `GatherIce` | `pc.onicecandidate` |
| `Close`, `FinishClose` | `close()` before and after the publish of its bye |
| `ChannelOpen`, `ChannelClose`, `ConnectionFailed` | `channel.onopen`, `channel.onclose`, `pc.onconnectionstatechange` |
| `Connect`, `Break` | the network path (external) |

### Reassembly

The receiving half of the binary channel. `slots` is the Map, without its insertion
order, which is replaced by `older` (the slots this one was opened after: the order of
`firstSeenAt`); `age` counts clock ticks since then. Each way out of `handleChunk` is an
action; eviction is part of the action that causes it. Frames in `Blob`s are converted
asynchronously, so their continuations come in any order and may come after `close()`.
The remote end may send any frame, in any order: chunks of several messages interleave,
repeat, and contradict each other. A frame's `seq` is any JSON number the code lets in:
a number `0..MaxTotal`, or one of `Fractions`, of which only the next integer
(`Ceiling`) matters. `event` is what the last step emitted.

### SignalingTransport, HttpPoll

`SignalingTransport` is an abstract specification: the contract in the comments of the
interface. It promises nothing about order or arrival; it promises that `publish()`
resolves only once the message has reached the transport, and that a handler sees a
message of its room once and nothing after `close()`. One step may settle several
publishes, since one event may (`Settle`). `Hand` is what giving messages to the
handlers does, `Handle` that in an adapter that is not closed.

`HttpPoll` is the polling adapter, any number of clients of one room, with either
reference endpoint. On Node a request is answered in one turn (`Serve`); on PHP each
request runs in a process of its own that loads the queue (`Load`) and later saves it
(`Save`), over whatever others have saved in between. `Poll`, `PollFails` and `Process`
are the poll loop; an aborted request becomes an orphan the endpoint may still answer.
`log`, `given` and `heard` are history variables: what the endpoint stored, what each
handler was given, what each client ever heard. `Only` is a filter of a list: the
endpoint's by age, the adapter's by what was delivered. The refinement mapping takes
`outcome` from `post`, `reached` from `log`, and the other variables from those of the
same name.

### AddonHost

One add-on from mount to `close()`, with the SDK's side of the bridge. One action is one
task of the page or the iframe. Window messages are two FIFO queues. The awaits that let
other tasks run are the capture provider (`capturing`) and the storage backend
(`storing`). `senders` and `detachers` are the host's maps; `live` and `sink` are the
world they describe, so that a property can compare the two. `captured` (which kind a
track was captured for) and `overwritten` (the tracks whose entry in `senders` another
has replaced) are history. `HandleWindowMessage` dispatches to one operator per `op`.

`AddonHost.load()`, with its signature check, is in `AddonLoad` below.

### BinaryFrames

The wire format: `Frames` and `Sent` are `sendBinary()` and `sendOneFrame()`, `Parsed`
is the part of `handleBinaryFrame()` before the reassembly. Both are pure, so
they are operators; the assumptions of `MCReassembly` compare them.

### Nostr

One room; every client has one WebSocket per relay. A step is an event (a call, a frame,
a socket's event, a timer) with every continuation that runs before the next event, so a
*walk* over the relays (publish's or subscribe's) rests only at a socket that connects.
`pub[m]` is one `publish()`: its walk, `relayCount`, its refusals and how it has
settled. A send to a relay may throw, which counts as its refusal. `kat` is the
known-answer test, on which the first v2 operations wait. Relays are external: they
accept, refuse, refuse again, stay silent, and inject events of others. `refusals` and
`repeated` are history: who has refused a message, and which messages a relay has
refused more than once.

| action | code |
|---|---|
| `Publish`, `StartWalk`, `AckTimeout` | `publish()` to its first await, after it, its timer |
| `Subscribe`, `Unsubscribe`, `Close`, `CloseResolves` | the functions of those names, and the end of `close()` |
| `SocketOpens`, `SocketFails`, `SocketDrops` | `ensureSocket()` after `waitForOpen`, and the "close" listener |
| `ReceiveOK`, `ReceiveEvent` | `onRelayMessage()`, `handleEvent()`, `decodeAndDispatch()` |
| `KatSettles` | `v2InitPromise` |
| `Accept`, `Refuse`, `RefuseAgain`, `Inject` | a relay (external) |

### UrlFragment, WebPage, Codecs

`UrlFragment` has the adapter's state and what each operation does to it; `WebPage`
extends it with the page. A click whose handler waits for something outside (a
compression stream, `getUserMedia`, a fetch) is a `task`, in two steps, so clicks
overlap there. A microphone is granted or refused, and the set-up that follows may
throw. A session is reduced to its life and what it publishes; its own interleavings are
in `PeerSession`. `Codecs` is the pure part: ids, envelopes, bundles, invites, links and
the fixture scripts. Documents are functions from field names to values, `"bad"` for one
that is refused. A call that may throw returns a set with its result, or an empty one.

### AddonStorage, OfficialAddons

`AddonStorage` says what a storage call does: keys are sequences of characters
(`Chars`), since namespaces are made by concatenation and found again by range. Ids are
sequences without the `Separator` (`AddonId`); `OtherId` has one record, `OtherName`
with `Theirs`, which nothing may touch. `OfficialAddons` puts the six add-ons on two
connected pages: what their users do, the awaits of their storage calls, the throttle of
avatar-presence, reloads, a database that may not open, and calls that fail
(`StorageFails`). `disturbed` is history: the pages whose vault's list was left to a
`refreshList()` that failed or began beside another.

### Manifests, Registries, Publishing, AddonLoad, Gallery, Supply

`Manifests` and `Registries` are validators and readers of documents. `Publishing` is
the publisher: edits, `sign-manifest` with a key or a new one, `sign-all-official` one
add-on at a time with interruption, the gate, and the release. `AddonLoad` is a host
page that reads a registry (launcher or hand-off) and loads an add-on, fetch by fetch,
each answered from any release so far, or failing (`FetchFails`). `Gallery` is
`refreshAll()` with overlapping runs that share the page's state: a run is an array of
URLs, its place in it, and the publishers' indexes (`Job`) it awaits at once. `Supply`
composes them.

### MC modules

`MC*` give model values and bounds, and state facts about pure operators as
assumptions, which TLC evaluates before a run:

| module | assumptions |
|---|---|
| `MCReassembly` | `ChunksMakeTheMessage`: what is sent in full is received in full. `RefusedHalfWay`: a message of more than ten frames may be refused after ten have gone out |
| `MCWebPage` | `ValidatorIsTheType`, `LinksRoundTrip`, `StrangeLinksRefused`, `Base64IsTheReference`, `Base64NotInjective`, `IdsSort`, `EnvelopesParsed`, `FixturesChecked` |
| `MCOfficialAddons` | `FramesRoundTrip` (the vault's frames), `TopKeysUnlisted` (a key that starts with U+FFFF is neither listed nor cleared by IndexedDB) |
| `MCSupply` | `RuntimeIsStricter`, `KeysMatch`, `ValidRegistriesRead`, `MetaIndexesNormal`, `DecisionsHaveReasons`, `ManifestsFound` |

## Runs

State counts are TLC's distinct states.

| run | config | states | question |
|---|---|---|---|
| `reassembly` | `MCReassembly.cfg` | 92,071 | do the counters, the budget, the timer and the emitted messages stay right under every order of chunks, blobs, timeouts and `close()`? |
| `peer_session` | `MCNegotiation.cfg` | 269,064 | do perfect negotiation and the lifecycle hold up with track changes of both sides, a failing publish, a broken path and `close()` anywhere? |
| `room` | `MCRoom.cfg` | 117,578 | does an inviter pair with exactly one of two joiners over a transport that reorders, and connect? |
| `http_poll` | `MCHttpPoll.cfg` | 524,994 | does the polling adapter keep the transport's contract on either endpoint, and does somebody hear every message? |
| `addon_host` | `MCAddonHost.cfg` | 567,140 | does the host hold what it says, and does the add-on know it, for every order of captures, tracks, storage answers and `close()`? |
| `nostr` | `MCNostr.cfg` | 588,025 | does the Nostr adapter keep the contract over relays that refuse, repeat themselves or keep silent, close on either side, settle every publish, and never downgrade? |
| `web` | `MCWebPage.cfg` | 1,504,038 | do overlapping clicks on the host page lose control of a microphone or add-on, or take a message twice? |
| `vault` | `MCOfficialAddons.cfg` | 981,073 | do the official add-ons show what is stored and sent, whichever storage calls fail? |
| `supply` | `MCSupply.cfg` | 2,311,833 | is what page and gallery vouch for signed, and does what the gate passed load, while the publisher goes on releasing? |
| `close_releases` | `MCCloseReleases.cfg` | violated | does `close()` always release the connection? ([finding 1](#findings)) |
| `addon_media` | `MCAddonMedia.cfg` | violated | does `close()` stop every capture? (finding 2) |
| `handoff` | `MCHandoff.cfg` | violated | is every published add-on offered by a hand-off? (finding 3) |

What the properties say, and what makes them hard:

*Reassembly.* `Accounting`: the three counters agree with the chunks that are really
buffered. `WithinBudget`: evicting everything but the message at hand is always enough.
`TimerIffSlots`: the interval timer runs exactly while something is buffered, also when
a late blob reopens a slot after `close()`. `SlotsArePartial`: a slot never has as many
chunks as its total, nor one that is not below it. `HolesAreStrays`: the copying loop
meets as many holes as there are chunks with a fractional number, so none if there are
none; repetitions, evictions and late blobs make none. `NoSilentLoss`: a message leaves
the buffer by being emitted, by an error naming it, or by `close()`. `OldestFirst`: making room
drops the oldest and spares the message at hand. `StaleReclaimed` (liveness): no slot
stays for ever.

*PeerSession.* `RollsBackOnlyOverlapped`: the inviter's pending offer ends by being
answered, unless two of its negotiations have overlapped. `CrossedOnlyOverlapped`: an
answer is applied only to the offer it answers, with the same exception. Both are false
without it ([what does not hold](#what-does-not-hold)): that the shared flag does its
work in every order of messages but this one is what they say. `MakingOfferHeld`: the
flag never sticks. `ReopensOnlyWhileClosing`, `NothingAfterRelease`: what may still
happen to a session that is closed. `ExchangesStayInPair`: no exchange of a session has
a third party, and one joiner at most is connected. `FirstConnection`, `CloseCompletes`,
`ByeClosesPartner` (liveness).

*HttpPoll.* `KeepsContract`: the refinement. `RemovedOnceHeard`: what a
GET drops early, somebody has handled. `SomebodyHears` (liveness): a stored message
is handled by some client or expires.

*AddonHost.* `InitFirst`: `init` goes out once, before any delivery, whichever of load
and ready comes first. `AnsweredOnce`, `StorageAnswered`: one reply per request.
`HeldIsReal`: the maps name live tracks and attached sinks only. `AddonInformed`: with
no message under way, the add-on knows for which kinds a track is live, whatever its
commands and late grants did, but for tracks that an overlapping start has overwritten.

*Nostr.* `KeepsContract`: the refinement of `SignalingTransport`, over repeating relays
and sockets that come back, with one step more: the events whose decoding `close()`
found under way are given to the handlers after it has resolved, all at once
(`HandsLate`). `RefusedByAll`: `tryReject` fails a publish only when every relay it was
sent to has refused, or its send threw, however refusals race with the walk; but for
messages that a relay has refused twice, since refusals are counted by the frame.
`NoDowngrade`: a failed known-answer test lets nothing out and nothing in.
`PublishSettles` (liveness): no publish is pending for ever, whatever the relays do.

*WebPage.* `LeavesOnce`: overlapping exports and shares do not take a message twice.
`CanStopWhatItStarted`: a live microphone or add-on host has a variable that leads to
it, except after overlapping clicks, for a call whose session ended during the prompt,
and for a meter whose set-up threw.

*OfficialAddons.* `ListMatchesStore`: with nothing under way, the vault's list is the
store's, if the last refresh that began was not cut off by a failed call and did not run
beside another: one that runs alone repairs what earlier ones left. `LastStateShown`:
the throttle loses no last state. `OthersUntouched`: no call reaches another add-on's
record, though one id is a prefix of the other.

*Supply.* `VouchedWasSigned`: a mounted add-on and a card "verified" have bytes that a
key of *their* registry has signed. `RefusedOnlyAcrossReleases`: what the gate passed
loads, unless the page mixed releases or a fetch failed. `AllAccountedFor`: after
overlapping refreshes every registry is loaded or has an error.

### Bounds, and why they are enough

- `reassembly`: three keys, two of which can exceed the cap by themselves, and a budget that
  holds one full message. A frame can therefore evict none, one or both others;
  a fourth key would add no new case to the eviction loop. Frames include a
  whole message, a sequence number out of range, chunk 0.5, another total and another mime.
  One blob is under conversion at a time; the order of two blobs is the order of two frames,
  which is arbitrary anyway. The timeout is one tick: a slot is either fresh or stale.
- `peer_session`: either peer makes one track change; one publish may fail, the path may
  break, each peer has a candidate, both users may close. Messages arrive in order. All
  of it together is beyond TLC, so the constraint `OneDisturbance` divides it into three
  kinds of behaviour: a track change of the joiner's, whose offer can meet the inviter's
  first one anywhere, with a failing publish; candidates and a path that may break; and
  a change of each side, in which nothing fails or closes and each makes two offers. The
  third is the one in which two negotiations of the inviter overlap. Its bound on offers
  is needed because negotiations that overlap may go on for ever; two of each peer are
  enough to overlap, roll back and cross. The liveness properties are about the first
  two kinds, from which the constraint takes no step that `Fairness` speaks of.
- `room`: two joiners are the least for which "the wrong joiner" exists. The
  inviter makes one change, so there are two exchanges to be mixed up.
- `http_poll`: two clients, one handler each, one message each, either endpoint; on
  Node one request or response is lost, on PHP (`MaxFailures` is per endpoint) none,
  since the processes' overwriting already makes messages vanish and return. `Ttl` is
  0: a message expires when the clock ticks. One client may unsubscribe or close.
  Duplicates need a message returned by two responses. The adapter treats handlers
  alike, so one per client is enough for the once-only rule, and it treats rooms
  separately. `MaxSubscribes` is 1: a subscription made anew starts from an empty
  history by definition.
- `addon_host`: two kinds, one permitted; two captures, so one may be granted
  after the stop meant for it; two remote tracks of a kind, so one replaces the
  other; three posts in one queue slot (`MaxInFlight = 0`: the add-on posts again once
  the host has taken the last message; longer queues delay the host's handling and do
  not reorder it); one storage request, one delivery.
- `nostr`: two relays, the least for which a refusal and an acceptance can differ and an
  event comes twice; one message, since a publish shares nothing with another but the
  sockets; two subscriptions of the listener, so that a room entry is made anew; one
  failure, which is a connection that fails or drops, a send that throws, a refusal that
  is repeated, or an event of another author. The publisher is v1 or v2, the listener
  v2. Either may close, one in a behaviour and the author only where nobody has
  subscribed (`OneLeaves`): its `close()` is a hazard to its own `publish()`.
- `web`: three clicks with a wait, so two can overlap and a third come after; two
  sessions, so one can be replaced. Any capture may be refused, and any set-up may throw.
- `vault`: any storage call may fail; two acts per user, four with the presence add-on,
  whose throttle needs two timers in one window; one reload; two names, one of which
  spells another add-on's namespace.
- `supply`: one add-on released and a second to come, two keys, two versions, one more
  release; the gallery has two runs at once and one click; any fetch may be answered
  from any release.

`CHECK_DEADLOCK FALSE` appears where a system may really stop: everybody closed,
or every bound used up.

## Fairness

Fairness is weak and stands for "a callback that is due is run".

- PeerSession: operations on the connection complete, `publish()` settles, mail
  is delivered, an open path opens the channel, matching descriptions find a
  path. Users, losses, failures, and gathering of candidates are never obliged.
- Reassembly: the interval timer fires while set and the clock advances. The remote
  peer is not obliged to send, nor a blob to convert.
- Nostr: the walk after encoding, the known-answer test, the end of each connection
  attempt, and the acknowledgement timer. Nothing is assumed of the relays.
- HttpPoll: an open adapter's loop goes on and an unlost GET is answered; `PollFails` is
  bounded, since an endpoint that always fails promises nothing.
- AddonHost: window messages are handled and the storage backend settles.
  Nobody is obliged to grant a microphone.

## Proofs

Eight modules prove, for every value of the constants that satisfies the modules'
assumptions, every safety property of the passing runs except two of `PeerSession`:

| module | theorem | states |
|---|---|---|
| ReassemblyProofs | `TypesHold` | `[]TypeOK` |
| | `TimerFollowsSlots` | `[]TimerIffSlots` |
| | `HolesComeFromFractions` | `[]HolesAreStrays` |
| | `BufferedMessagesArePartial` | `[]SlotsArePartial` |
| | `CountsAgree` | `[]Accounting` |
| | `BudgetIsKept` | `[]WithinBudget` |
| | `NothingIsLostSilently` | `NoSilentLoss` |
| | `EvictionGoesByAge` | `OldestFirst` |
| PeerSessionProofs | `TypesHold` | `[]TypeOK` |
| | `MakingOfferIsHeld` | `[]MakingOfferHeld` |
| | `ClosedStaysClosed` | `ReopensOnlyWhileClosing` |
| | `ReleasedIsSilent` | `NothingAfterRelease` |
| | `ExchangesStay` | `[]ExchangesStayInPair` |
| HttpPollProofs | `ContractIsKept` | `KeepsContract`, the refinement of `SignalingTransport` |
| | `NothingUnheardIsDropped` | `RemovedOnceHeard` |
| NostrProofs | `RefusedByEveryRelay` | `[]RefusedByAll` |
| | `NothingBeforeTheTest` | `[]NoDowngrade` |
| | `ContractIsKept` | `KeepsContract`, the refinement of `SignalingTransport` but for `HandsLate` |
| AddonHostProofs | `TypesHold` | `[]TypeOK` |
| | `InitComesFirst` | `[]InitFirst` |
| | `HeldMediaAreReal` | `[]HeldIsReal` |
| | `AddonKnows` | `[]AddonInformed` |
| | `RequestsAreAnsweredOnce` | `[]AnsweredOnce` |
| WebPageProofs | `NothingLeavesTwice` | `[]LeavesOnce` |
| | `PageCanStop` | `[]CanStopWhatItStarted` |
| OfficialAddonsProofs | `OthersAreUntouched` | `[]OthersUntouched` |
| | `NoCallTouchesOthers` | one storage call leaves the records of *any* other id alone |
| | `LastStateIsShown` | `[]LastStateShown` |
| | `ListIsTheStore` | `[]ListMatchesStore` |
| SupplyProofs | `MountedAddonsWereSigned` | `[]MountedWasSigned`, the page's half of `VouchedWasSigned` |
| | `VerifiedWasSigned` | `[]VouchedWasSigned` |
| | `GatedAddonsLoad` | `[]RefusedOnlyAcrossReleases` |
| | `NoRegistryIsForgotten` | `[]AllAccountedFor` |

Each rests on an inductive invariant of its module, which TLC has checked before. To do so
again, let the `MC` module extend the proof module and name the invariant in its
configuration. Where an invariant says "is a sequence" with a quantifier over all sets
(`ReleasesInOrder`), leave that conjunct out.

**Reassembly.** Of a slot by itself, `IInv == TypeOK /\ TimerIffSlots /\
AllPartial(slots) /\ HolesAreStrays`, with `Tallied` of the emitted message. The code
decides that a message is complete by `receivedFrames = total`, and emits by walking
over `0..total-1`. `Tallied` says that `receivedFrames` is the number of *distinct*
chunks below the total. So a complete message has as many chunks as there are places,
and lacks one place for each chunk that has none: a count of two finite sets
(`HolesAreCounted`), from which "no hole" follows where every number is an integer.

Of the counters, `CInv == IInv /\ Counted(slots, reassemblyBytes)`: each slot's bytes
are the sum of its chunks, the total the sum over the slots, and within the budget.
`WithinBudget` is not inductive without the order of the slots: the loop of
`evictUntilUnderBudget` ends because some slot other than the one at hand is oldest, so
`Ordered` says that `older` is a strict order. The sums are folds over sets; their
lemmas (`Sum` over a set with one element more or less, or with one value changed) are
proved by taking a smallest set that is a counterexample (`WFMin` over finite sets). The
assumptions used are that there are finitely many keys and the numbers are naturals, and
that a capped message fits the budget.

**PeerSession.** `IInv == TypeOK /\ Pending /\ Lifecycle /\ Fresh /\ MakingOfferHeld`.
`TypeOK` is not inductive: to see that an answer names an offer, a pending description
must have an offer behind it and a session that works on a remote description must have
locked to a peer (`Pending`). `Lifecycle` relates `state`, `pc`, `subscribed`, `closing`
and the channel; its last line, that a closed session with an open connection and an
unopened channel is still inside `close()`, is exactly why only `channel.onopen` during
`close()` can bring a session back. `Fresh` is needed for `MakingOfferHeld` when
`start()` opens the connection. There is one lemma per conjunct (`TypeStep`,
`PendingStep`, `LifecycleStep`, `FreshStep`, `MakingOfferStep`), each with one step per
action.

For the pairing, `PInv == IInv /\ Pairing` follows a description from its maker: it is
published under the maker's name (`MailTruthful`), goes into the queue of a session
locked to that name (`OpsFromRemote`), and is answered to that name (`AnswersRemote`).
What is published as an offer is one when it is made, because `runNegotiation`'s
`setLocalDescription()` is always the first in the queue of a connection without a
remote offer (`NegotiatesFirst`). `Locked` says that a session keeps its remote peer; a
path links connections that agree (`OnePath`, `AgreedInPair`), so it leads to the joiner
the inviter is locked to. Nothing is assumed of the order of messages.

**HttpPoll.** `HInv == TypeOK /\ ServerInv /\ AdapterInv /\ NodeInv`. `ServerInv`:
queue, log and every snapshot a PHP process works on hold stored messages, each once; a
POST is pending for a message not yet stored, once; an answered publish is stored.
`AdapterInv`: a loop has one request at most and only while its room has handlers
(`LoopsOfRooms`), and what a handler was given is in `delivered`, which is why a message
that two responses return is given once. `ContractIsKept` maps each step to a step of
the contract or to a stutter from these two, for either endpoint. `NodeInv` is for Node
alone, where the queue has no gaps behind it: it is in the order of the log, and what a
cursor has passed has been heard (`CursorsHeard`), also by a response not yet handled
(`RepliesReach`). That gives `RemovedOnceHeard`. The assumption used is that there are
finitely many messages. `Only`, the filter of a list, is a recursive function; what it
keeps (`OnlyKeeps`) is proved by taking a least number that is a counterexample.

**Nostr.** `NInv == IInv /\ DInv /\ SInv`, about acknowledgements, deliveries and what is sent.

`publish()` keeps two numbers, the relays it has sent its event to and the refusals that
have come; `RefusedByAll` is about sets of relays. The bridge is `Counted`: for a
message that no relay has refused twice, the refusals counted are at most the relays
whose refusal has arrived, or whose send threw. It is kept because a relay is sent an
event once, which is `Behind` (only relays the walk has passed have seen it), and the
first refusal is on the author's connection (`AnsweredOnce`). `Refused` is then what
`tryReject` decides when the walk has ended, by `Ended` or by `Finish`. A walk's range
(`NextWaitRange`) is about `Min` of a set of relays, hence the well-founded order.

`DInv`: one entry of the room has handlers at a time (`OneEntry`), so that two
subscriptions never feed one handler; an event goes into the entry's `delivered` before
it is decoded, and what its handlers have been given is in that set (`DecodedOnce`);
events wait only while the known-answer test does, and nothing is given unless it has
passed (`KatWaits`). `SInv`: nothing is walked, sent or accepted before the test has
passed (`SendsAfterKat`), and only accepted messages are acknowledged, forwarded or
delivered (`AcceptedFirst`). `NothingBeforeTheTest` is a case of both. For
`ContractIsKept` the mapping reads a publish in any phase between as pending, and the
handlers of all entries together. `life` is the adapter's own: when `close()` has
resolved the contract's adapter is closed, and what is still given then is a step of its
own, `HandsLate`: it empties `decoding`, which nothing fills in a closed adapter. The
end of the test settles several publishes at once, therefore so may a step of the
contract (`Settle`). What the test lets go is a flattened sequence; `FlattenSingles`
says what is in it and in which order. `NostrConstants` adds what the model means by its
names: events of others are no messages of the room, and `None` is no subscription id.

**AddonHost.** `IInv` is `TypeOK` and six parts, each about one hazard. `ClosedIsQuiet`:
nothing is on its way once the host is closed. `InitOnce`: where `init` is (not posted,
queued, read) as a function of the host's state. `OwnTracks`: a track is captured for
one kind, a capture under way is nobody's track yet, and a live track that has not been
overwritten is the one its kind sends; otherwise stopping one kind could stop the track
of another. `OwnDetachers`: a detacher is for an attached track *of its own kind*,
without which the "ended" listener would falsify `HeldIsReal`. `LastWord`: the last
queued message about a kind, or what the add-on has read last when none is queued, is
what the host holds; `AddonInformed` is its case of an empty queue, carried from the
host's map to the live tracks by `OwnTracks`. `OnePlace`: a request is on its way, at
the backend, or answered, never two of these. `TypeStep`, `QuietStep`, `InitOnceStep`,
`OwnTracksStep`, `OwnDetachersStep`, `LastWordStep` and `OnePlaceStep` have one step per
action.

**WebPage.** `WInv == TypeOK /\ InOnePlace /\ StopInv`. `InOnePlace` follows a published
message: it is in one room's outbox, in one export under way, or in a link, and nowhere
twice, although exports and shares of two sessions wait for their compression at once.
`StopInv` has one part for each reason a page keeps control: two handlers of a kind are
not busy at once unless they have overlapped (`Alone`), no second host is alive beside
the page's (`OneHost`), a handler that waits for a microphone finds the variable it will
set empty (`Starting`), and a live microphone is the page's (`Stoppable`), with the
exceptions the property itself names.

**OfficialAddons.** `OInv == TypeOK /\ PresenceInv /\ VaultInv`. A key is the add-on's
id, a separator, and the add-on's own key. `AddonConstants` says that no id contains the
separator, which is what the manifest's pattern for ids allows (`ADDON_ID_PATTERN` has
no space); the first separator of a key then ends the namespace (`KeyOf`), so a range
read of one id never meets a key of another, whatever the keys contain.
`NoCallTouchesOthers` is stated for any two ids; `OthersUntouched` is the run's case of
it. `PresenceInv`: what was last sent on a link, or is pending under a timer, is the
partner's state. `VaultInv`: on a page that is not `disturbed` one refresh at most is
under way, and the list and what it has left to read make up what is stored, each file
once. A refresh that begins alone clears the list, from which this follows again
whatever was there (`FailureKeeps` is the step of a call that fails).

**Supply.** For `MountedAddonsWereSigned`, `IInv == SiteInv /\ PageShape /\
MountedWasSigned`. `SiteInv` is about the publisher: every signature in the working
tree has been recorded as made (`TreeRecorded`), and so has every signature of every release
(`ReleasesRecorded`); `ReleasesInOrder` and `PageShape` are the little typing the
argument needs. A page that mixes a registry, a manifest and a signature of three releases
still mounts only bytes signed by a key of the registry it used, because `signed` never
shrinks and the signature, whichever release it is from, was recorded.

For `GatedAddonsLoad`, `RInv`: every manifest written is one the runtime mounts
(`TreeParses`), every release was checked by the gate against its own keys
(`ReleasesGated`), and a page keeps the keys and the list of the release it read its
registry from, and holds that release's manifest unless it has seen several
(`PageTracked`). A single release answers every fetch with what the gate saw, so a
refusal that is no failed fetch takes two. It needs that names of add-ons, keys and
versions are well-formed (`PublishingConstants`): an add-on with an empty name passes
the gate and is not mounted, which the model's publisher does not write
(`RuntimeIsStricter` shows it).

For the gallery, `GInv`: an index being loaded has its own document and every file it
has got from some release, and when it is done it has all it asked for (`JobInv`), so a
row that says "ok" was compared with a recorded signature (`RowsAreVouched`,
`RowsVouched`). `AllAccountedFor` speaks of the moment when all is over; `OnItsWay` is
what holds before: either every registry in the list is known, or some run goes through
the list *as it is now* and has accounted for all before its place since the state was
last cleared. Every change of the list clears the state and starts such a run, and it
may end before or after older runs, whose results only add to what is known.
`GalleryConstants` says that saved lists and lists in documents are arrays, and that the
only registry is the publisher's.

**Only model-checked.** Liveness under fairness, which TLAPS does not treat here
(`StaleReclaimed`, `FirstConnection`, `CloseCompletes`, `ByeClosesPartner`,
`SomebodyHears`, `StorageAnswered`, `PublishSettles`). `CrossedOnlyOverlapped` and
`RollsBackOnlyOverlapped`: they depend on ordered delivery, and are shown within the
bounds of the run. The assumptions of the `MC` modules about pure operators, which
compare `RECURSIVE` definitions with reference ones over bounded inputs.

## Findings

Each is a run that TLC must find violated.

1. `close_releases` (`CloseReleases`). `channel.onclose` sets the state to
   "closed" by itself. When it fires before the partner's bye is handled, a later
   `close()` returns at its first line, and the connection and the
   subscription are never released. `docs/peer-session-spec.md:65` says `close()`
   MUST release them.
2. `addon_media` (`LocalTracksStopped`). A microphone granted after `close()`
   stays live: `handleMediaSendStart` does not look at the state after its `await`.
   `docs/addon-media-spec.md:208` says the host MUST stop all local tracks.
3. `handoff` (`HandoffOffered`). The host page takes publisher registries of version 1
   or 2 (`apps/web/src/main.ts:769`). The repository's own is of version 3, valid, and
   passes the gate; a hand-off from it is refused.
   `apps/web/e2e/handoff-querystring.spec.ts:20` and
   `docs/adr/0020-registry-schema-v3.md:377` say otherwise.

## What does not hold

These properties are stated in the modules and fail. No run has them; to see the
counterexample, put the property alone, as the kind named, into a copy of the configuration.

| property | as | configuration | what happens |
|---|---|---|---|
| `NegotiationSettles` (PeerSession) | INVARIANT | `MCNegotiation.cfg` with `Changes <- JoinerChanges`, `Closers = {}`, `MaxLost = 0`, `LinkMayBreak = FALSE`, `Candidates = 0` and no constraint | the inviter's collision test also fires while `setRemoteDescription(answer)` is pending (`peer-session.ts:647`); the joiner's offer is ignored then, and nobody repeats it |
| `ImpoliteNeverRollsBack` (PeerSession) | PROPERTY | `MCNegotiation.cfg` | two `runNegotiation` of the inviter share `makingOffer`: the first's `finally` (`peer-session.ts:247`) clears it while the second makes its offer, so the joiner's offer is not seen to collide, and the inviter rolls back its own, which the comment at 193-197 denies |
| `NoCrossedAnswer` (PeerSession) | PROPERTY | `MCNegotiation.cfg` | what follows such a rollback: the joiner answers the offer the inviter has given up, and the answer is applied to the inviter's next one |
| `OnlyTimeRemoves` (HttpPoll) | PROPERTY | `MCHttpPoll.cfg` | a GET with `since` stores only what it returns, so one client's poll removes what others have not heard (`server.mjs:114`, `signal.php:93`) |
| `CloseReleasesSockets` (Nostr) | INVARIANT | `MCNostr.cfg` | `ensureSocket` never looks at `closed`: an operation under way opens a socket after `close()` |
| `InvitesToOwnRoom` (WebPage) | INVARIANT | `MCWebPage.cfg` | `composeExportUrl` reads the page's room and invite after its `await`; a new session may have come between |
| `CachedRegistryWorks` (AddonLoad) | INVARIANT | `MCSupply.cfg` | the page keeps the registry it read, and refuses an add-on signed with a later key until it is reloaded |
| `RefreshRevalidates` (Gallery) | INVARIANT | `MCSupply.cfg` | overlapping refreshes share `currentCacheMode`: the first to end takes it from the second |

`KindMatchesSdp` (PeerSession), `StoredOrder` and `TypeOK` (HttpPoll) hold in the
configurations of their modules' runs, which leave them out for properties that say more.

## Observations

Facts the models show that no run states as a rule:

- A session whose channel opens while `close()` awaits its bye reports "connected"
  after "closed", and goes on reporting it once released.
- Over a transport that reorders, with offers of both sides at once, `KindMatchesSdp`
  fails; hence `InOrder = TRUE` in `peer_session`. The transports' contract promises no
  order; HTTP polling on Node keeps it (`StoredOrder`). A description is then published
  as an answer that was made as an offer, and the exchange it starts names one peer
  twice; `ExchangesStayInPair` allows that, since no third party is in it.
- A chunk whose `seq` is 0.5 passes the tests of `peer-session.ts:495-499` and 523, is
  counted, and leaves a hole in the message that is emitted;
  `docs/addon-binary-transfer-spec.md:132` says "once `seq` 0..total-1 have all
  arrived". No sender of the repository makes one. `HolesAreStrays` has it as its
  exception.
- `close()` of the Nostr adapter leaves `room.handlers` as they are, and an event whose
  decoding waits when it resolves is still given to them
  (`signaling-nostr/src/index.ts:305-318`, 442-445); `protocol/src/signaling.ts:46-47`
  says that deliveries end with it. `HandsLate` allows that one step and no other.
- Nostr refusals are counted by the frame (`index.ts:210-221`): one relay that refuses
  an event twice fails a publish that a second relay could still accept.
- A level meter whose `AudioContext` or source throws after the microphone was granted
  (`main.ts:522-526`) leaves it live, and no button stops it.
- A message leaves the URL fragment adapter before its link exists: if the link is
  over 2,048 characters, `buildInviteBundleUrl` throws and the messages are gone.
- Two loads that overlap leave a host in the page that nothing refers to; two
  `refreshList()` show each file of the vault twice. One that a failed storage call ends
  leaves the list empty or cut short until the next. A
  rejected `dbPromise` is cached until the page is reloaded.
- A call whose session ends while the user is asked for the microphone leaves it
  live: `addLocalTrack` throws after `getUserMedia` has resolved.
- The hand-off section says "loaded" even if the load was refused, since
  `loadAddonByManifest` catches its own error.
- Nostr publishes of the same content within one second have one event id, and the
  second takes the first's acknowledgement (the model gives every message its own id).
  A connection attempt that fails
  deletes its relay's entry whichever socket is there
  by then (`index.ts:343`); in the model each socket has an entry of its own. A REQ
  whose send throws is not modelled. A dropped socket is opened again only by a later
  operation that needs it.
- A keystore whose halves do not belong together loads and signs; nothing it signs
  verifies.
- The gallery looks for the manifests of the official registry, as the official
  meta-index names it, where they are not (`ManifestsFound`).
- `sendBinary` may throw at its eleventh frame, whose header is a byte longer, with ten
  already sent (`RefusedHalfWay`).
- "failed" is called terminal (`docs/peer-session-spec.md:94`), but a channel event or a bye
  still moves a failed session.
- The inviter's candidates gathered before the first answer are dropped, since
  `remotePeerId` is still null.
- Two starts of one kind in an add-on may both capture; the second sender
  overwrites the first, whose track nothing stops.
- The "ended" listener of a replaced remote track deletes the detacher of the newer
  one. `HeldIsReal` therefore says that held things are real, and not the converse.

## What is not modelled

Inside the modelled parts: the content of chat and binary messages; the listeners and
`ontrack` bookkeeping of `PeerSession`; malformed frame headers; option checks and
malformed bodies of the polling adapter and its endpoints' request validation; the
atomicity of the PHP endpoint's file operations (each load and save is one step);
`send`/`send-bin` of `AddonHost` (no state of the host), audio levels; the page's QR
code, text chat and media sink; the gallery's filters, submissions table and host field;
drawing on the whiteboard; a registry whose fetch fails, after which nothing is read;
the comparison of descriptions in `verify-official-addons`, which no manifest of the
repository has; a storage write that is answered when its request succeeds and undone
when its transaction then aborts (`storage/src/index.ts:209-224`). Each component's note
in `PROJECT.json` says what its module leaves out.

Whole parts: `packages/ui` and the WordPress plug-in, which are presentation; the
scripts that are test programs (`verify-nostr-self-test.ts`, `test-registry-schema.ts`)
or look at the working tree's text (`check-licenses.ts`, `verify-addon-sdk.ts`).
Cryptography (Ed25519, NIP-44, the Nostr keys), compression, JSON and IndexedDB's
transactions are external: modelled by what they promise.

## Plan

Done: every component of the inventory but those above, and proofs of every safety
property of the passing runs except `CrossedOnlyOverlapped` and
`RollsBackOnlyOverlapped`, both refinements of the signaling contract included.

Left to prove, in this order:

1. `RollsBackOnlyOverlapped` and `CrossedOnlyOverlapped` under ordered delivery
   (`InOrder`), with the invariant they need about what is in a mailbox behind an offer.
2. `StoredOrder` of `HttpPoll` on Node: each handler is given messages in the order of the log.
3. Of the pure operators, what the URL fragment's links and the sender's frames promise,
   whose definitions would have to be recursive functions first.

Left to model: the PHP reference with its file operations one by one, and several rooms per
adapter.
