------------------------------ MODULE WebPage ------------------------------
(***************************************************************************)
(* The host page (apps/web/src/main.ts): its rooms, the links it makes and *)
(* takes, its add-on, its microphone and its call. A click runs to its     *)
(* first real wait (a compression stream, getUserMedia, a fetch, the audio *)
(* context's end) in one step and goes on in another, so clicks overlap    *)
(* there: the page's variables are read before a wait and used after it.   *)
(* With this adapter publish() settles at once, so that closing a session  *)
(* or a host is not such a wait.                                           *)
(*                                                                         *)
(* PeerSession, AddonHost.load() and the adapter have modules of their     *)
(* own; here a session is its life and what it publishes, and a host that  *)
(* is being loaded becomes live or fails.                                  *)
(***************************************************************************)
EXTENDS UrlFragment, Naturals, FiniteSets

CONSTANTS
    Links,       \* what the user may paste or open: [invite : BOOLEAN, room : Rooms]
    Clicks,      \* bound: the clicks of the user that have a wait, 1 .. n
    MaxSessions, \* bound: sessions the page makes
    MaxSent,     \* bound: messages a session publishes
    Handoffs,    \* the hand-off query the page may be opened with: a subset
                 \* of {"none", "no publisher", "complete"}
    None

(* Room 0 is the other peer's, room g the one that the session g creates.   *)
ASSUME WebPageConstants ==
    /\ MaxSessions \in Nat /\ MaxSent \in Nat
    /\ Clicks = 1 .. Cardinality(Clicks)
    /\ Rooms = 0 .. MaxSessions
    /\ Links \subseteq [invite : BOOLEAN, room : Rooms]
    /\ Handoffs \subseteq {"none", "no publisher", "complete"}
    /\ None \notin Clicks

VARIABLES
    session,    \* the page's session, all earlier ones being closed
    task,       \* what each click is doing: a record of TaskSet
    links,      \* the links made so far
    live,       \* microphones captured and not stopped: their clicks
    activeCall, \* the click that captured the call's microphone, or None
    micPipeline,\* the click that captured the level meter's, or None
    hosts,      \* add-on hosts made and not closed: their clicks
    addonHost,  \* the page's host, or None
    boundTo,    \* the session a host was given, by its click
    registry,   \* the launcher: "loading", "listed" or "unavailable"
    handoff,    \* the hand-off section of the page
    overlapped  \* what two handlers have been starting or stopping at once (history)

mediaVars == <<live, activeCall, micPipeline>>
addonVars == <<hosts, addonHost, boundTo, registry, handoff>>
vars == <<adapterVars, session, task, links, mediaVars, addonVars, overlapped>>

Messages == (1 .. MaxSessions) \X (1 .. MaxSent + 1)

NoSession == [gen |-> 0, role |-> None, room |-> None, life |-> "none", sent |-> 0, heard |-> FALSE]

Idle == [at |-> "unused"]

Init ==
    /\ AdapterInit
    /\ session = NoSession
    /\ task = [k \in Clicks |-> Idle]
    /\ links = {}
    /\ live = {} /\ activeCall = None /\ micPipeline = None
    /\ hosts = {} /\ addonHost = None /\ boundTo = [k \in Clicks |-> 0]
    /\ registry = "loading"
    /\ handoff \in Handoffs
    /\ overlapped = {}

(* room and session are set and cleared together.                           *)
InRoom == session.gen # 0
Running(uses) == \E k \in Clicks : task[k].at \notin {"unused", "done"} /\ task[k].uses = uses

(* A click whose handler waits begins its task; what it may race with is    *)
(* remembered.                                                              *)
Begin(t) ==
    \E k \in Clicks :
        /\ task[k] = Idle /\ \A j \in 1 .. (k - 1) : task[j] # Idle
        /\ task' = [task EXCEPT ![k] = t]
        /\ overlapped' = IF Running(t.uses) THEN overlapped \cup {t.uses} ELSE overlapped

End(k) == task' = [task EXCEPT ![k] = [at |-> "done"]]

-----------------------------------------------------------------------------
(* Sessions.                                                                *)

NewSession(role, room) ==
    [gen |-> session.gen + 1, role |-> role, room |-> room,
     life |-> "connecting", sent |-> 0, heard |-> FALSE]

(* attachSession() and start(), which subscribes.                           *)
Attach(role, room, hs) ==
    /\ session.gen < MaxSessions
    /\ session' = NewSession(role, room)
    /\ handlers' = Subscribe(hs, room, session.gen + 1)

(* startInviter() from its button, without effect in a room.                *)
CreateRoom ==
    /\ ~InRoom
    /\ Attach("inviter", session.gen + 1, handlers)
    /\ UNCHANGED <<outbox, task, links, mediaVars, addonVars, overlapped>>

(* The session publishes: an inviter its offer, a joiner once it has heard  *)
(* the other, both their candidates later.                                  *)
SessionPublishes ==
    /\ session.life \in {"connecting", "connected", "failed"}
    /\ session.role = "inviter" \/ session.heard
    /\ session.sent < MaxSent
    /\ session' = [session EXCEPT !.sent = @ + 1]
    /\ outbox' = Publish(outbox, session.room, <<session.gen, session.sent + 1>>)
    /\ UNCHANGED <<handlers, task, links, mediaVars, addonVars, overlapped>>

(* The connection comes up, fails, or ends with its channel.                *)
SessionChanges ==
    /\ \/ session.life = "connecting" /\ session.heard /\ session' = [session EXCEPT !.life = "connected"]
       \/ session.life \in {"connecting", "connected"} /\ session' = [session EXCEPT !.life = "failed"]
       \/ session.life = "connected" /\ session' = [session EXCEPT !.life = "closed"]
    /\ UNCHANGED <<adapterVars, task, links, mediaVars, addonVars, overlapped>>

(* A slip: the host of the old session is only forgotten.                   *)
Slip_ClosedHosts(open) == open

(* addonHost.close(), before a retry and before a load.                     *)
ClosedHosts(open) == open \ {addonHost}

(* resetForRetry(), whose button shows when the session has failed or       *)
(* closed. close() says bye and unsubscribes, unless the session closed     *)
(* itself: then it stays subscribed. Then startInviter(). The call is not   *)
(* ended.                                                                   *)
Retry ==
    LET old == session.room IN
    /\ session.life \in {"failed", "closed"}
    /\ IF session.life = "failed"
       THEN /\ outbox' = Publish(outbox, old, <<session.gen, session.sent + 1>>)
            /\ Attach("inviter", session.gen + 1, Unsubscribe(handlers, old, session.gen))
       ELSE UNCHANGED outbox /\ Attach("inviter", session.gen + 1, handlers)
    /\ hosts' = ClosedHosts(hosts)
    /\ addonHost' = None
    /\ UNCHANGED <<task, links, mediaVars, boundTo, registry, handoff, overlapped>>

-----------------------------------------------------------------------------
(* Links.                                                                   *)

(* composeExportUrl() from the export or the share button, with a room:     *)
(* "outbox empty", or the outbox is drained and the encoding begins.        *)
Export ==
    /\ InRoom /\ outbox[session.room] # <<>>
    /\ Begin([uses |-> "links", at |-> "encoding", room |-> session.room, msgs |-> outbox[session.room]])
    /\ outbox' = Drain(outbox, session.room)
    /\ UNCHANGED <<handlers, session, links, mediaVars, addonVars>>

(* isFirstHop, evaluated after the encoding. remotePeer is null for every   *)
(* inviter, so each link an inviter makes carries its invite.               *)
IsFirstHop == session.role = "inviter"

(* buildInviteBundleUrl() throws when the link is too long: its messages    *)
(* are gone. A link without an invite has no limit.                         *)
LinkMade(k) ==
    /\ task[k].at = "encoding"
    /\ \/ links' = links \cup {[invite |-> IsFirstHop, room |-> task[k].room, msgs |-> task[k].msgs]}
       \/ IsFirstHop /\ UNCHANGED links
    /\ End(k)
    /\ UNCHANGED <<adapterVars, session, mediaVars, addonVars, overlapped>>

(* consumeUrl(), from the import field or the page's own address: an        *)
(* invite is parsed first; a bundle alone is refused without a room.        *)
Import(link) ==
    /\ link.invite \/ InRoom
    /\ Begin([uses |-> "links", at |-> IF link.invite THEN "parsing" ELSE "decoding", room |-> link.room])
    /\ UNCHANGED <<adapterVars, session, links, mediaVars, addonVars>>

(* startJoiner() for the parsed invite: ignored in a room, its own or       *)
(* another; importBundle() follows whether it was or not.                   *)
Parsed(k) ==
    /\ task[k].at = "parsing"
    /\ IF InRoom THEN UNCHANGED <<session, handlers>> ELSE Attach("joiner", task[k].room, handlers)
    /\ task' = [task EXCEPT ![k].at = "decoding"]
    /\ UNCHANGED <<outbox, links, mediaVars, addonVars, overlapped>>

(* importBundle() after its decoding: the handlers of the bundle's room     *)
(* have the messages, or nobody, and then they are lost.                    *)
Decoded(k) ==
    /\ task[k].at = "decoding"
    /\ session' = IF session.gen \in Receivers(task[k].room) THEN [session EXCEPT !.heard = TRUE] ELSE session
    /\ End(k)
    /\ UNCHANGED <<adapterVars, links, mediaVars, addonVars, overlapped>>

(* A link that does not parse or decode is reported.                        *)
BadLink(k) ==
    /\ task[k].at \in {"parsing", "decoding"}
    /\ End(k)
    /\ UNCHANGED <<adapterVars, session, links, mediaVars, addonVars, overlapped>>

-----------------------------------------------------------------------------
(* The call (btn-call-start, btn-call-stop) and the level meter             *)
(* (btn-mic-toggle).                                                        *)

CallStart ==
    /\ session.life = "connected"
    /\ activeCall = None
    /\ Begin([uses |-> "call", at |-> "capturing"])
    /\ UNCHANGED <<adapterVars, session, links, mediaVars, addonVars>>

(* getUserMedia() answers. The session is read again, and may be another or *)
(* have ended: addLocalTrack() throws then, with the microphone live.       *)
CallCaptured(k) ==
    /\ task[k].at = "capturing" /\ task[k].uses = "call"
    /\ live' = live \cup {k}
    /\ IF session.life \in {"failed", "closed"}
       THEN UNCHANGED activeCall /\ task' = [task EXCEPT ![k] = [at |-> "done", failed |-> TRUE]]
       ELSE activeCall' = k /\ End(k)
    /\ UNCHANGED <<adapterVars, session, links, micPipeline, addonVars, overlapped>>

(* A slip: stopping the call only removes its senders.                      *)
Slip_Stopped(k) == live

(* stream.getTracks() are stopped.                                          *)
Stopped(k) == live \ {k}

CallStop ==
    /\ activeCall # None
    /\ live' = Stopped(activeCall)
    /\ activeCall' = None
    /\ UNCHANGED <<adapterVars, session, task, links, micPipeline, addonVars, overlapped>>

MicToggle ==
    \/ /\ micPipeline = None
       /\ Begin([uses |-> "mic", at |-> "capturing"])
       /\ UNCHANGED <<adapterVars, session, links, mediaVars, addonVars>>
    \/ /\ micPipeline # None
       /\ Begin([uses |-> "mic", at |-> "stopping"])
       /\ live' = Stopped(micPipeline)
       /\ UNCHANGED <<adapterVars, session, links, activeCall, micPipeline, addonVars>>

(* startAudioCapture() has its stream. An audio context or a source that    *)
(* cannot be made then throws past it: the handler shows the error, and     *)
(* nothing of the page refers to the live stream.                           *)
MicCaptured(k) ==
    /\ task[k].at = "capturing" /\ task[k].uses = "mic"
    /\ live' = live \cup {k}
    /\ \/ micPipeline' = k /\ End(k)
       \/ UNCHANGED micPipeline /\ task' = [task EXCEPT ![k] = [at |-> "done", failed |-> TRUE]]
    /\ UNCHANGED <<adapterVars, session, links, activeCall, addonVars, overlapped>>

MicClosed(k) ==
    /\ task[k].at = "stopping"
    /\ micPipeline' = None
    /\ End(k)
    /\ UNCHANGED <<adapterVars, session, links, live, activeCall, addonVars, overlapped>>

(* getUserMedia() is refused.                                               *)
CaptureRefused(k) ==
    /\ task[k].at = "capturing"
    /\ End(k)
    /\ UNCHANGED <<adapterVars, session, links, mediaVars, addonVars, overlapped>>

-----------------------------------------------------------------------------
(* Add-ons.                                                                 *)

(* loadAddonByManifest(), up to the fetches of AddonHost.load(): the old    *)
(* host is closed, the session there is now is what the new one will use.   *)
BeginLoad ==
    /\ Begin([uses |-> "addon", at |-> "loading", gen |-> session.gen])
    /\ hosts' = ClosedHosts(hosts)
    /\ addonHost' = None
    /\ UNCHANGED <<adapterVars, session, links, mediaVars, boundTo, registry>>

(* A load button of the page or of the launcher's list.                     *)
Load == BeginLoad /\ UNCHANGED handoff

Loaded(k) ==
    /\ task[k].at = "loading"
    /\ hosts' = hosts \cup {k}
    /\ addonHost' = k
    /\ boundTo' = [boundTo EXCEPT ![k] = task[k].gen]
    /\ End(k)
    /\ UNCHANGED <<adapterVars, session, links, mediaVars, registry, handoff, overlapped>>

LoadFails(k) ==
    /\ task[k].at = "loading"
    /\ End(k)
    /\ UNCHANGED <<adapterVars, session, links, mediaVars, addonVars, overlapped>>

(* renderOfficialRegistry(): the list, or "registry unavailable".           *)
RegistryFetched ==
    /\ registry = "loading"
    /\ registry' \in {"listed", "unavailable"}
    /\ UNCHANGED <<adapterVars, session, task, links, mediaVars,
                   hosts, addonHost, boundTo, handoff, overlapped>>

(* handleHandoff(): without a publisher, or without a registry of it that   *)
(* names keys, the hand-off is refused; else it waits for the user, once.   *)
HandoffAnswered ==
    /\ \/ handoff = "no publisher" /\ handoff' = "refused"
       \/ handoff = "complete" /\ handoff' \in {"ready", "refused"}
       \/ handoff \in {"ready", "loading"} /\ handoff' = "cancelled"
    /\ UNCHANGED <<adapterVars, session, task, links, mediaVars,
                   hosts, addonHost, boundTo, registry, overlapped>>

HandoffConfirmed ==
    /\ handoff = "ready" /\ handoff' = "loading"
    /\ BeginLoad

-----------------------------------------------------------------------------
Next ==
    \/ CreateRoom \/ SessionPublishes \/ SessionChanges \/ Retry
    \/ Export \/ \E link \in Links : Import(link)
    \/ CallStart \/ CallStop \/ MicToggle
    \/ Load \/ RegistryFetched \/ HandoffAnswered \/ HandoffConfirmed
    \/ \E k \in Clicks :
          \/ LinkMade(k) \/ Parsed(k) \/ Decoded(k) \/ BadLink(k)
          \/ CallCaptured(k) \/ MicCaptured(k) \/ MicClosed(k) \/ CaptureRefused(k)
          \/ Loaded(k) \/ LoadFails(k)

Spec == Init /\ [][Next]_vars

-----------------------------------------------------------------------------
Message == Nat \X Nat

TaskSet ==
    [at : {"unused", "done"}]
    \cup [at : {"done"}, failed : {TRUE}]
    \cup [uses : {"links"}, at : {"encoding"}, room : Rooms, msgs : Seq(Message)]
    \cup [uses : {"links"}, at : {"parsing", "decoding"}, room : Rooms]
    \cup [uses : {"call"}, at : {"capturing"}]
    \cup [uses : {"mic"}, at : {"capturing", "stopping"}]
    \cup [uses : {"addon"}, at : {"loading"}, gen : Nat]

(* Every variable has its type.                                             *)
TypeOK ==
    /\ outbox \in [Rooms -> Seq(Message)]
    /\ handlers \in [Rooms -> SUBSET Nat]
    /\ session \in
          [gen : Nat, role : {"inviter", "joiner", None}, room : Rooms \cup {None},
           life : {"none", "connecting", "connected", "failed", "closed"},
           sent : Nat, heard : BOOLEAN]
    /\ session.gen # 0 \/ session.life # "none" => session.room \in Rooms
    /\ task \in [Clicks -> TaskSet]
    /\ links \subseteq [invite : BOOLEAN, room : Rooms, msgs : Seq(Message)]
    /\ live \subseteq Clicks
    /\ activeCall \in Clicks \cup {None} /\ micPipeline \in Clicks \cup {None}
    /\ hosts \subseteq Clicks /\ addonHost \in Clicks \cup {None}
    /\ boundTo \in [Clicks -> Nat]
    /\ registry \in {"loading", "listed", "unavailable"}
    /\ handoff \in {"none", "no publisher", "complete", "ready", "loading", "refused", "cancelled"}
    /\ overlapped \subseteq {"links", "call", "mic", "addon"}

-----------------------------------------------------------------------------
(* Properties.                                                              *)

Exporting == {k \in Clicks : task[k].at = "encoding"}
InSeq(m, s) == \E i \in DOMAIN s : s[i] = m

(* A published message is in one place: the outbox, an export that is being *)
(* encoded, or one link. However export and share clicks overlap, no        *)
(* message leaves the page twice (composeExportUrl, exportBundle).          *)
LeavesOnce ==
    \A m \in Messages :
        Cardinality({r \in Rooms : InSeq(m, outbox[r])})
        + Cardinality({k \in Exporting : InSeq(m, task[k].msgs)})
        + Cardinality({l \in links : InSeq(m, l.msgs)}) <= 1

(* What the page has started it can still stop: a live host is the page's,  *)
(* a live microphone is the call's or the meter's, or the handler that      *)
(* stops it is running. The exceptions are a second handler of the kind     *)
(* beside the first; a call whose session ended while the user was asked    *)
(* for the microphone; and a meter whose set-up threw once it was captured, *)
(* both of which leave a microphone live that no button stops               *)
(* (btn-call-start, startAudioCapture).                                     *)
CanStopWhatItStarted ==
    /\ "addon" \notin overlapped => hosts \subseteq {addonHost}
    /\ \A k \in live :
          \/ k \in {activeCall, micPipeline}
          \/ "failed" \in DOMAIN task[k]
          \/ {"call", "mic"} \cap overlapped # {}

(* An invite that the page makes is to a room that it created ("the inviter *)
(* is the only declared peer at this hop", packages/protocol/src/invite.ts: *)
(* 167). Violated: a joiner that retries while its link is encoded sends an *)
(* invite, from itself, to the room of the other.                           *)
InvitesToOwnRoom == \A l \in links : l.invite => l.room # 0

=============================================================================
