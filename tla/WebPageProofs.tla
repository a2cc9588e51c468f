--------------------------- MODULE WebPageProofs ----------------------------
(***************************************************************************)
(* No message leaves the page twice, and what the page has started it can  *)
(* stop.                                                                   *)
(***************************************************************************)
EXTENDS WebPage, FiniteSetTheorems, SequenceTheorems, TLAPS

(* Where a message is. *)
InBox(m, r) == InSeq(m, outbox[r])
InExport(m, k) == task[k].at = "encoding" /\ InSeq(m, task[k].msgs)

(* A message is of the session, or of an earlier one. *)
Published(m) == m[1] < session.gen \/ (m[1] = session.gen /\ m[2] <= session.sent)

(* What is anywhere has been published, and is nowhere else. *)
InOnePlace ==
    \A m \in Message :
        /\ \A r \in Rooms : InBox(m, r) =>
              /\ Published(m)
              /\ \A q \in Rooms : InBox(m, q) => q = r
              /\ \A k \in Clicks : ~ InExport(m, k)
              /\ \A l \in links : ~ InSeq(m, l.msgs)
        /\ \A k \in Clicks : InExport(m, k) =>
              /\ Published(m)
              /\ \A j \in Clicks : InExport(m, j) => j = k
              /\ \A l \in links : ~ InSeq(m, l.msgs)
        /\ \A l \in links : InSeq(m, l.msgs) =>
              /\ Published(m)
              /\ \A n \in links : InSeq(m, n.msgs) => n = l

(* A handler that runs alone finds what it will set not set, or stopped. *)
Busy(k, uses) == task[k].at \notin {"unused", "done"} /\ task[k].uses = uses

Alone ==
    \A uses \in {"call", "mic", "addon"} : uses \notin overlapped =>
        \A j, k \in Clicks : Busy(j, uses) /\ Busy(k, uses) => j = k

OneHost ==
    "addon" \notin overlapped =>
        /\ hosts \subseteq {addonHost}
        /\ \A k \in Clicks : Busy(k, "addon") => hosts = {}

Starting ==
    /\ \A k \in Clicks : k = micPipeline \/ k = activeCall => task[k].at = "done"
    /\ \A k \in Clicks : task[k].at = "capturing" /\ task[k].uses = "call" =>
          "call" \in overlapped \/ activeCall = None
    /\ \A k \in Clicks : task[k].at = "capturing" /\ task[k].uses = "mic" =>
          "mic" \in overlapped \/ micPipeline = None
    /\ \A k \in Clicks : task[k].at = "stopping" =>
          "mic" \in overlapped \/ micPipeline \notin live

Stoppable ==
    \A k \in live :
       \/ k \in {activeCall, micPipeline}
       \/ "failed" \in DOMAIN task[k]
       \/ {"call", "mic"} \cap overlapped # {}

StopInv == Alone /\ OneHost /\ Starting /\ Stoppable

WInv == TypeOK /\ InOnePlace /\ StopInv

-----------------------------------------------------------------------------
(* Types.                                                                   *)

LEMMA AppendIs ==
    ASSUME NEW s \in Seq(Message), NEW x \in Message
    PROVE  /\ Append(s, x) \in Seq(Message)
           /\ \A m : InSeq(m, Append(s, x)) <=> InSeq(m, s) \/ m = x
<1> DEFINE t == Append(s, x)
<1>1. /\ t \in Seq(Message) /\ Len(t) = Len(s) + 1 /\ t[Len(s) + 1] = x
      /\ \A i \in 1..Len(s) : t[i] = s[i]
  BY AppendProperties
<1>2. DOMAIN t = 1..Len(t) /\ DOMAIN s = 1..Len(s) /\ Len(s) \in Nat
  BY <1>1, LenProperties
<1> HIDE DEF t
<1>3. ASSUME NEW m, InSeq(m, t) PROVE InSeq(m, s) \/ m = x
  <2>1. PICK i \in DOMAIN t : t[i] = m
    BY <1>3 DEF InSeq
  <2>2. CASE i = Len(s) + 1
    BY <1>1, <2>1, <2>2
  <2>3. CASE i # Len(s) + 1
    <3>1. i \in 1..Len(s)
      BY <1>1, <1>2, <2>1, <2>3
    <3> QED
      BY <1>1, <1>2, <2>1, <3>1 DEF InSeq
  <2> QED
    BY <2>2, <2>3
<1>4. ASSUME NEW m, InSeq(m, s) PROVE InSeq(m, t)
  <2>1. PICK i \in DOMAIN s : s[i] = m
    BY <1>4 DEF InSeq
  <2>2. i \in DOMAIN t /\ t[i] = m
    BY <1>1, <1>2, <2>1
  <2> QED
    BY <2>2 DEF InSeq
<1>5. InSeq(x, t)
  <2>1. Len(s) + 1 \in DOMAIN t
    BY <1>1, <1>2
  <2> QED
    BY <1>1, <2>1 DEF InSeq
<1> QED
  BY <1>1, <1>3, <1>4, <1>5 DEF t

(* A session that is made has a number, and so has a room. *)
LEMMA NewRoom == \A g \in Nat : g < MaxSessions => g + 1 \in Rooms
<1>1. MaxSessions \in Nat /\ Rooms = 0 .. MaxSessions
  BY WebPageConstants, Zenon
<1> QED
  BY <1>1

LEMMA NobodysClick == None \notin Clicks
BY WebPageConstants, Zenon

(* What a task that is doing something looks like. *)
LEMMA TaskIs ==
    ASSUME NEW t \in TaskSet
    PROVE  /\ t.at \in {"unused", "done", "encoding", "parsing", "decoding", "capturing",
                        "stopping", "loading"}
           /\ t.at = "encoding" => t.room \in Rooms /\ t.msgs \in Seq(Message) /\ t.uses = "links"
           /\ t.at \in {"parsing", "decoding"} =>
                 /\ t.uses = "links" /\ t.room \in Rooms
                 /\ [t EXCEPT !.at = "decoding"] \in TaskSet
           /\ t.at = "capturing" => t.uses \in {"call", "mic"}
           /\ t.at = "stopping" => t.uses = "mic"
           /\ t.at = "loading" => t.gen \in Nat /\ t.uses = "addon"
           /\ "failed" \in DOMAIN t => t.at = "done"
<1>1. CASE t \in [at : {"unused", "done"}] \cup [at : {"done"}, failed : {TRUE}]
  BY <1>1
<1>2. CASE t \in [uses : {"links"}, at : {"encoding"}, room : Rooms, msgs : Seq(Message)]
  BY <1>2
<1>3. CASE t \in [uses : {"links"}, at : {"parsing", "decoding"}, room : Rooms]
  <2>1. [t EXCEPT !.at = "decoding"] \in [uses : {"links"}, at : {"parsing", "decoding"}, room : Rooms]
    BY <1>3
  <2> QED
    BY <1>3, <2>1 DEF TaskSet
<1>4. CASE t \in [uses : {"call"}, at : {"capturing"}]
               \cup [uses : {"mic"}, at : {"capturing", "stopping"}]
               \cup [uses : {"addon"}, at : {"loading"}, gen : Nat]
  BY <1>4
<1> QED
  BY <1>1, <1>2, <1>3, <1>4 DEF TaskSet

LEMMA EndTypes ==
    ASSUME NEW t, task \in [Clicks -> TaskSet], NEW k \in Clicks,
           task' = [task EXCEPT ![k] = t], t \in TaskSet
    PROVE  /\ task' \in [Clicks -> TaskSet]
           /\ task'[k] = t
           /\ \A j \in Clicks : j # k => task'[j] = task[j]
OBVIOUS

LEMMA DoneIsTask == [at |-> "done"] \in TaskSet /\ [at |-> "done", failed |-> TRUE] \in TaskSet
BY DEF TaskSet

LEMMA TypeInit == Init => TypeOK
<1> SUFFICES ASSUME Init PROVE TypeOK
  OBVIOUS
<1>1. task \in [Clicks -> TaskSet]
  BY DEF Init, Idle, TaskSet
<1>2. outbox \in [Rooms -> Seq(Message)] /\ handlers \in [Rooms -> SUBSET Nat]
  BY DEF Init, AdapterInit
<1>3. session \in
          [gen : Nat, role : {"inviter", "joiner", None}, room : Rooms \cup {None},
           life : {"none", "connecting", "connected", "failed", "closed"},
           sent : Nat, heard : BOOLEAN]
      /\ session.life = "none" /\ session.gen = 0
  BY DEF Init, NoSession
<1>4. handoff \in {"none", "no publisher", "complete"}
  BY WebPageConstants DEF Init
<1>5. boundTo \in [Clicks -> Nat]
  BY DEF Init
<1> QED
  BY <1>1, <1>2, <1>3, <1>4, <1>5 DEF Init, TypeOK

SessionSet ==
    [gen : Nat, role : {"inviter", "joiner", None}, room : Rooms \cup {None},
     life : {"none", "connecting", "connected", "failed", "closed"},
     sent : Nat, heard : BOOLEAN]

LEMMA AttachTypes ==
    ASSUME TypeOK, NEW role \in {"inviter", "joiner"}, NEW room \in Rooms,
           NEW hs \in [Rooms -> SUBSET Nat], Attach(role, room, hs)
    PROVE  /\ session' \in SessionSet /\ session'.room \in Rooms
           /\ session'.gen = session.gen + 1 /\ session'.sent = 0
           /\ handlers' \in [Rooms -> SUBSET Nat]
<1>1. session.gen \in Nat
  BY DEF TypeOK
<1>2. session' = [gen |-> session.gen + 1, role |-> role, room |-> room,
                  life |-> "connecting", sent |-> 0, heard |-> FALSE]
  BY DEF Attach, NewSession
<1>3. session' \in SessionSet
  BY <1>1, <1>2 DEF SessionSet
<1>4. handlers' \in [Rooms -> SUBSET Nat]
  BY <1>1 DEF Attach, Subscribe
<1> QED
  BY <1>2, <1>3, <1>4

LEMMA BeginTypes ==
    ASSUME TypeOK, NEW t \in TaskSet, Begin(t), t.uses \in {"links", "call", "mic", "addon"}
    PROVE  /\ task' \in [Clicks -> TaskSet]
           /\ overlapped' \subseteq {"links", "call", "mic", "addon"}
<1>1. task \in [Clicks -> TaskSet]
  BY DEF TypeOK
<1>2. PICK k \in Clicks : task' = [task EXCEPT ![k] = t]
  BY DEF Begin
<1>3. overlapped' = IF Running(t.uses) THEN overlapped \cup {t.uses} ELSE overlapped
  BY DEF Begin
<1>4. overlapped \subseteq {"links", "call", "mic", "addon"}
  BY DEF TypeOK
<1>5. task' \in [Clicks -> TaskSet]
  BY <1>1, <1>2
<1>6. overlapped' \subseteq {"links", "call", "mic", "addon"}
  BY <1>3, <1>4
<1> QED
  BY <1>5, <1>6

LEMMA TypeStep == TypeOK /\ [Next]_vars => TypeOK'
<1> SUFFICES ASSUME TypeOK, [Next]_vars PROVE TypeOK'
  OBVIOUS
<1>0. /\ outbox \in [Rooms -> Seq(Message)]
      /\ handlers \in [Rooms -> SUBSET Nat]
      /\ session \in SessionSet
      /\ session.gen # 0 \/ session.life # "none" => session.room \in Rooms
      /\ task \in [Clicks -> TaskSet]
      /\ links \subseteq [invite : BOOLEAN, room : Rooms, msgs : Seq(Message)]
      /\ live \subseteq Clicks
      /\ activeCall \in Clicks \cup {None} /\ micPipeline \in Clicks \cup {None}
      /\ hosts \subseteq Clicks /\ addonHost \in Clicks \cup {None}
      /\ boundTo \in [Clicks -> Nat]
  BY DEF TypeOK, SessionSet
<1> DEFINE Media == /\ live' \subseteq Clicks
                    /\ activeCall' \in Clicks \cup {None} /\ micPipeline' \in Clicks \cup {None}
           Addon == /\ hosts' \subseteq Clicks /\ addonHost' \in Clicks \cup {None}
                    /\ boundTo' \in [Clicks -> Nat]
                    /\ registry' \in {"loading", "listed", "unavailable"}
                    /\ handoff' \in {"none", "no publisher", "complete", "ready", "loading",
                                     "refused", "cancelled"}
           Adapter == outbox' \in [Rooms -> Seq(Message)] /\ handlers' \in [Rooms -> SUBSET Nat]
           Sess == session' \in SessionSet /\ (session'.gen # 0 \/ session'.life # "none" => session'.room \in Rooms)
           Tasks == /\ task' \in [Clicks -> TaskSet]
                    /\ overlapped' \subseteq {"links", "call", "mic", "addon"}
           Lks == links' \subseteq [invite : BOOLEAN, room : Rooms, msgs : Seq(Message)]
<1>a. UNCHANGED mediaVars => Media
  BY <1>0 DEF mediaVars
<1>b. UNCHANGED addonVars => Addon
  BY DEF addonVars, TypeOK
<1>c. UNCHANGED adapterVars => Adapter
  BY <1>0 DEF adapterVars
<1>d. UNCHANGED session => Sess
  BY <1>0
<1>e. UNCHANGED <<task, overlapped>> => Tasks
  BY DEF TypeOK
<1>f. UNCHANGED links => Lks
  BY <1>0
<1>g. Media /\ Addon /\ Adapter /\ Sess /\ Tasks /\ Lks => TypeOK'
  BY DEF TypeOK, SessionSet
<1>h. ASSUME NEW k \in Clicks, End(k), UNCHANGED overlapped PROVE Tasks
  <2>1. task' = [task EXCEPT ![k] = [at |-> "done"]]
    BY <1>h DEF End
  <2>2. task' \in [Clicks -> TaskSet]
    BY <1>0, <2>1, DoneIsTask
  <2> QED
    BY <1>h, <2>2 DEF TypeOK
<1>i. ASSUME NEW t \in TaskSet, Begin(t), t.uses \in {"links", "call", "mic", "addon"} PROVE Tasks
  BY <1>i, BeginTypes
<1>j. session.gen \in Nat /\ session.sent \in Nat
  BY <1>0 DEF SessionSet
<1>k. ASSUME session.life # "none"
      PROVE  Publish(outbox, session.room, <<session.gen, session.sent + 1>>) \in [Rooms -> Seq(Message)]
  <2> DEFINE m == <<session.gen, session.sent + 1>>
  <2>1. m \in Message /\ session.room \in Rooms
    BY <1>0, <1>j, <1>k DEF Message
  <2> HIDE DEF m
  <2>2. Append(outbox[session.room], m) \in Seq(Message)
    BY <1>0, <2>1, AppendIs
  <2>3. [outbox EXCEPT ![session.room] = Append(@, m)] \in [Rooms -> Seq(Message)]
    BY <1>0, <2>2
  <2> QED
    BY <2>3 DEF Publish, m
<1> HIDE DEF Media, Addon, Adapter, Sess, Tasks, Lks
<1>1. CASE CreateRoom
  <2>1. session.gen + 1 \in Rooms
    BY <1>1, <1>j, NewRoom DEF CreateRoom, Attach
  <2>2. Attach("inviter", session.gen + 1, handlers)
    BY <1>1 DEF CreateRoom
  <2>3. Sess /\ handlers' \in [Rooms -> SUBSET Nat]
    BY <1>0, <2>1, <2>2, AttachTypes DEF Sess
  <2>4. Adapter
    BY <1>0, <1>1, <2>3 DEF CreateRoom, Adapter
  <2> QED
    BY <1>1, <1>a, <1>b, <1>e, <1>f, <1>g, <2>3, <2>4 DEF CreateRoom
<1>2. CASE SessionPublishes
  <2>1. outbox' \in [Rooms -> Seq(Message)]
    BY <1>2, <1>k DEF SessionPublishes
  <2>2. Adapter
    BY <1>0, <1>2, <2>1 DEF SessionPublishes, Adapter
  <2>3. Sess
    <3>1. session' = [session EXCEPT !.sent = @ + 1] /\ session.life # "none"
      BY <1>2 DEF SessionPublishes
    <3>2. session' \in SessionSet /\ session'.room = session.room
      <4>1. session.sent + 1 \in Nat
        BY <1>j
      <4>2. [session EXCEPT !.sent = session.sent + 1] \in SessionSet
        <5> DEFINE n == session.sent + 1
        <5>1. n \in Nat
          BY <4>1
        <5> HIDE DEF n
        <5>2. [session EXCEPT !.sent = n] \in SessionSet
          BY <1>0, <5>1 DEF SessionSet
        <5> QED
          BY <5>2 DEF n
      <4>3. session'.room = session.room
        BY <1>0, <3>1 DEF SessionSet
      <4> QED
        BY <3>1, <4>2, <4>3
    <3> QED
      BY <1>0, <3>1, <3>2 DEF Sess
  <2> QED
    BY <1>2, <1>a, <1>b, <1>e, <1>f, <1>g, <2>2, <2>3 DEF SessionPublishes
<1>3. CASE SessionChanges
  <2>1. Sess
    BY <1>0, <1>3 DEF SessionChanges, Sess, SessionSet
  <2> QED
    BY <1>3, <1>a, <1>b, <1>c, <1>e, <1>f, <1>g, <2>1 DEF SessionChanges
<1>4. CASE Retry
  <2> DEFINE hs == IF session.life = "failed"
                   THEN Unsubscribe(handlers, session.room, session.gen) ELSE handlers
  <2>1. session.life # "none" /\ hs \in [Rooms -> SUBSET Nat]
    BY <1>0, <1>4 DEF Retry, Unsubscribe
  <2>2. Attach("inviter", session.gen + 1, hs)
    BY <1>4 DEF Retry
  <2>3. session.gen + 1 \in Rooms
    BY <1>j, <2>2, NewRoom DEF Attach
  <2>4. Sess /\ handlers' \in [Rooms -> SUBSET Nat]
    BY <1>0, <2>1, <2>2, <2>3, AttachTypes DEF Sess
  <2>5. outbox' \in [Rooms -> Seq(Message)]
    BY <1>0, <1>4, <1>k, <2>1 DEF Retry
  <2>6. Adapter
    BY <2>4, <2>5 DEF Adapter
  <2>7. Addon
    BY <1>0, <1>4 DEF Retry, Addon, ClosedHosts, TypeOK
  <2> QED
    BY <1>4, <1>a, <1>e, <1>f, <1>g, <2>4, <2>6, <2>7 DEF Retry
<1>5. CASE Export
  <2> DEFINE t == [uses |-> "links", at |-> "encoding", room |-> session.room, msgs |-> outbox[session.room]]
  <2>1. session.room \in Rooms
    BY <1>0, <1>5 DEF Export, InRoom
  <2>2. t \in TaskSet /\ t.uses = "links"
    BY <1>0, <2>1 DEF TaskSet
  <2>3. Begin(t)
    BY <1>5 DEF Export
  <2> HIDE DEF t
  <2>4. Tasks
    BY <1>i, <2>2, <2>3
  <2>5. Adapter
    <3>1. [outbox EXCEPT ![session.room] = <<>>] \in [Rooms -> Seq(Message)]
      <4>1. <<>> \in Seq(Message)
        OBVIOUS
      <4> QED
        BY <1>0, <4>1
    <3> QED
      BY <1>0, <1>5, <3>1 DEF Export, Adapter, Drain
  <2> QED
    BY <1>5, <1>a, <1>b, <1>d, <1>f, <1>g, <2>4, <2>5 DEF Export
<1>6. ASSUME NEW link \in Links, Import(link) PROVE TypeOK'
  <2> DEFINE t == [uses |-> "links", at |-> IF link.invite THEN "parsing" ELSE "decoding", room |-> link.room]
  <2>1. link.room \in Rooms
    BY WebPageConstants
  <2>2. t \in TaskSet /\ t.uses = "links"
    BY <2>1 DEF TaskSet
  <2>3. Begin(t)
    BY <1>6 DEF Import
  <2> HIDE DEF t
  <2>4. Tasks
    BY <1>i, <2>2, <2>3
  <2> QED
    BY <1>6, <1>a, <1>b, <1>c, <1>d, <1>f, <1>g, <2>4 DEF Import
<1>7. CASE CallStart
  <2>1. [uses |-> "call", at |-> "capturing"] \in TaskSet
    BY DEF TaskSet
  <2>2. Tasks
    BY <1>7, <1>i, <2>1 DEF CallStart
  <2> QED
    BY <1>7, <1>a, <1>b, <1>c, <1>d, <1>f, <1>g, <2>2 DEF CallStart
<1>8. CASE CallStop
  <2>1. Media
    BY <1>0, <1>8 DEF CallStop, Media, Stopped
  <2> QED
    BY <1>8, <1>b, <1>c, <1>d, <1>e, <1>f, <1>g, <2>1 DEF CallStop
<1>9. CASE MicToggle
  <2>1. /\ [uses |-> "mic", at |-> "capturing"] \in TaskSet
        /\ [uses |-> "mic", at |-> "stopping"] \in TaskSet
    BY DEF TaskSet
  <2>2. Tasks
    BY <1>9, <1>i, <2>1 DEF MicToggle
  <2>3. Media
    BY <1>0, <1>9, <1>a DEF MicToggle, Media, Stopped
  <2> QED
    BY <1>9, <1>b, <1>c, <1>d, <1>f, <1>g, <2>2, <2>3 DEF MicToggle
<1>10. CASE Load \/ HandoffConfirmed
  <2> DEFINE t == [uses |-> "addon", at |-> "loading", gen |-> session.gen]
  <2>1. t \in TaskSet /\ t.uses = "addon"
    BY <1>j DEF TaskSet
  <2>2. Begin(t)
    BY <1>10 DEF Load, HandoffConfirmed, BeginLoad
  <2> HIDE DEF t
  <2>3. Tasks
    BY <1>i, <2>1, <2>2
  <2>4. Addon
    BY <1>0, <1>10 DEF Load, HandoffConfirmed, BeginLoad, Addon, ClosedHosts, TypeOK
  <2> QED
    BY <1>10, <1>a, <1>c, <1>d, <1>f, <1>g, <2>3, <2>4 DEF Load, HandoffConfirmed, BeginLoad
<1>11. CASE RegistryFetched
  <2>1. Addon
    BY <1>0, <1>11 DEF RegistryFetched, Addon, TypeOK
  <2> QED
    BY <1>11, <1>a, <1>c, <1>d, <1>e, <1>f, <1>g, <2>1 DEF RegistryFetched
<1>12. CASE HandoffAnswered
  <2>1. Addon
    BY <1>0, <1>12 DEF HandoffAnswered, Addon, TypeOK
  <2> QED
    BY <1>12, <1>a, <1>c, <1>d, <1>e, <1>f, <1>g, <2>1 DEF HandoffAnswered
<1>13. ASSUME NEW k \in Clicks, LinkMade(k) PROVE TypeOK'
  <2>1. task[k].room \in Rooms /\ task[k].msgs \in Seq(Message)
    BY <1>0, <1>13, TaskIs DEF LinkMade
  <2>2. IsFirstHop \in BOOLEAN
    BY DEF IsFirstHop
  <2>3. Lks
    BY <1>0, <1>13, <2>1, <2>2 DEF LinkMade, Lks
  <2>4. Tasks
    BY <1>13, <1>h DEF LinkMade
  <2> QED
    BY <1>13, <1>a, <1>b, <1>c, <1>d, <1>g, <2>3, <2>4 DEF LinkMade
<1>14. ASSUME NEW k \in Clicks, Parsed(k) PROVE TypeOK'
  <2>1. task[k].room \in Rooms /\ [task[k] EXCEPT !.at = "decoding"] \in TaskSet
    BY <1>0, <1>14, TaskIs DEF Parsed
  <2>2. Tasks
    BY <1>0, <1>14, <2>1 DEF Parsed, Tasks, TypeOK
  <2>3. Sess /\ Adapter
    <3>1. CASE UNCHANGED <<session, handlers>>
      BY <1>0, <1>14, <3>1 DEF Parsed, Sess, Adapter
    <3>2. CASE Attach("joiner", task[k].room, handlers)
      BY <1>0, <1>14, <2>1, <3>2, AttachTypes DEF Parsed, Sess, Adapter
    <3> QED
      BY <1>14, <3>1, <3>2 DEF Parsed
  <2> QED
    BY <1>14, <1>a, <1>b, <1>f, <1>g, <2>2, <2>3 DEF Parsed
<1>15. ASSUME NEW k \in Clicks, Decoded(k) PROVE TypeOK'
  <2>1. Sess
    BY <1>0, <1>15 DEF Decoded, Sess, SessionSet
  <2>2. Tasks
    BY <1>15, <1>h DEF Decoded
  <2> QED
    BY <1>15, <1>a, <1>b, <1>c, <1>f, <1>g, <2>1, <2>2 DEF Decoded
<1>16. ASSUME NEW k \in Clicks, BadLink(k) \/ CaptureRefused(k) \/ LoadFails(k) PROVE TypeOK'
  <2>1. Tasks
    BY <1>16, <1>h DEF BadLink, CaptureRefused, LoadFails
  <2> QED
    BY <1>16, <1>a, <1>b, <1>c, <1>d, <1>f, <1>g, <2>1 DEF BadLink, CaptureRefused, LoadFails
<1>17. ASSUME NEW k \in Clicks, CallCaptured(k) PROVE TypeOK'
  <2>1. Media
    BY <1>0, <1>17 DEF CallCaptured, Media
  <2>2. Tasks
    <3>1. CASE task' = [task EXCEPT ![k] = [at |-> "done", failed |-> TRUE]]
      <4>1. task' \in [Clicks -> TaskSet]
        BY <1>0, <3>1, DoneIsTask
      <4> QED
        BY <1>17, <4>1 DEF CallCaptured, Tasks, TypeOK
    <3>2. CASE End(k)
      BY <1>17, <1>h, <3>2 DEF CallCaptured
    <3> QED
      BY <1>17, <3>1, <3>2 DEF CallCaptured
  <2> QED
    BY <1>17, <1>b, <1>c, <1>d, <1>f, <1>g, <2>1, <2>2 DEF CallCaptured
<1>18. ASSUME NEW k \in Clicks, MicCaptured(k) \/ MicClosed(k) PROVE TypeOK'
  <2>1. Media
    BY <1>0, <1>18 DEF MicCaptured, MicClosed, Media
  <2>2. Tasks
    <3>1. CASE task' = [task EXCEPT ![k] = [at |-> "done", failed |-> TRUE]]
      <4>1. task' \in [Clicks -> TaskSet]
        BY <1>0, <3>1, DoneIsTask
      <4> QED
        BY <1>18, <4>1 DEF MicCaptured, MicClosed, Tasks, TypeOK
    <3>2. CASE End(k)
      BY <1>18, <1>h, <3>2 DEF MicCaptured, MicClosed
    <3> QED
      BY <1>18, <3>1, <3>2 DEF MicCaptured, MicClosed
  <2> QED
    BY <1>18, <1>b, <1>c, <1>d, <1>f, <1>g, <2>1, <2>2 DEF MicCaptured, MicClosed
<1>19. ASSUME NEW k \in Clicks, Loaded(k) PROVE TypeOK'
  <2>1. task[k].gen \in Nat
    BY <1>0, <1>19, TaskIs DEF Loaded
  <2>2. Addon
    BY <1>0, <1>19, <2>1 DEF Loaded, Addon, TypeOK
  <2>3. Tasks
    BY <1>19, <1>h DEF Loaded
  <2> QED
    BY <1>19, <1>a, <1>c, <1>d, <1>f, <1>g, <2>2, <2>3 DEF Loaded
<1>20. CASE UNCHANGED vars
  BY <1>20, <1>a, <1>b, <1>c, <1>d, <1>e, <1>f, <1>g DEF vars
<1> QED
  BY <1>1, <1>2, <1>3, <1>4, <1>5, <1>6, <1>7, <1>8, <1>9, <1>10, <1>11, <1>12, <1>13, <1>14,
     <1>15, <1>16, <1>17, <1>18, <1>19, <1>20 DEF Next

-----------------------------------------------------------------------------
(* No message leaves twice.                                                 *)

LEMMA PlaceInit == Init => InOnePlace
<1> SUFFICES ASSUME Init PROVE InOnePlace
  OBVIOUS
<1>1. \A m : ~ InSeq(m, <<>>)
  BY DEF InSeq
<1>2. /\ \A r \in Rooms : outbox[r] = <<>>
      /\ \A k \in Clicks : task[k].at # "encoding"
      /\ links = {}
  BY DEF Init, AdapterInit, Idle
<1> QED
  BY <1>1, <1>2 DEF InOnePlace, InBox, InExport

(* What has been published stays so. *)
LEMMA PublishedStays ==
    ASSUME NEW m \in Message, Published(m),
           session.gen \in Nat, session.sent \in Nat, session'.gen \in Nat, session'.sent \in Nat,
           session'.gen > session.gen \/ (session'.gen = session.gen /\ session'.sent >= session.sent)
    PROVE  m[1] < session'.gen \/ (m[1] = session'.gen /\ m[2] <= session'.sent)
<1>1. m[1] \in Nat /\ m[2] \in Nat
  BY DEF Message
<1> QED
  BY <1>1 DEF Published

LEMMA SessionNumbers == TypeOK => session.gen \in Nat /\ session.sent \in Nat
BY DEF TypeOK

(* A step that moves no message. *)
LEMMA NothingMoves ==
    ASSUME TypeOK, TypeOK', InOnePlace, UNCHANGED <<outbox, links>>,
           \A k \in Clicks : task'[k].at = "encoding" => task'[k] = task[k],
           session'.gen > session.gen \/ (session'.gen = session.gen /\ session'.sent >= session.sent)
    PROVE  InOnePlace'
<1>1. session.gen \in Nat /\ session.sent \in Nat /\ session'.gen \in Nat /\ session'.sent \in Nat
  BY DEF TypeOK
<1>2. ASSUME NEW m \in Message, Published(m)
      PROVE  m[1] < session'.gen \/ (m[1] = session'.gen /\ m[2] <= session'.sent)
  BY <1>1, <1>2, PublishedStays
<1> QED
  BY <1>2 DEF InOnePlace, InBox, InExport, Published

(* A step that publishes the session's next message, and sends or replaces it. *)
LEMMA OnePublished ==
    ASSUME TypeOK, TypeOK', InOnePlace, UNCHANGED <<task, links>>,
           outbox' = Publish(outbox, session.room, <<session.gen, session.sent + 1>>),
           session.room \in Rooms,
           session'.gen > session.gen \/ (session'.gen = session.gen /\ session'.sent = session.sent + 1)
    PROVE  InOnePlace'
<1> DEFINE x == <<session.gen, session.sent + 1>>
<1>1. session.gen \in Nat /\ session.sent \in Nat /\ session'.gen \in Nat /\ session'.sent \in Nat
  BY DEF TypeOK
<1>2. x \in Message /\ x[1] = session.gen /\ x[2] = session.sent + 1
  BY <1>1 DEF Message
<1>3. ~ Published(x)
  BY <1>1, <1>2 DEF Published
<1>4. outbox' = [outbox EXCEPT ![session.room] = Append(@, x)]
  BY DEF Publish
<1>5. x[1] < session'.gen \/ (x[1] = session'.gen /\ x[2] <= session'.sent)
  BY <1>1, <1>2
<1> HIDE DEF x
<1>6. outbox \in [Rooms -> Seq(Message)]
  BY DEF TypeOK
<1>7. \A r \in Rooms : \A m : InSeq(m, outbox'[r]) <=> InSeq(m, outbox[r]) \/ (r = session.room /\ m = x)
  <2>1. \A m : InSeq(m, Append(outbox[session.room], x)) <=> InSeq(m, outbox[session.room]) \/ m = x
    BY <1>2, <1>6, AppendIs
  <2> QED
    BY <1>4, <1>6, <2>1
<1>8. ASSUME NEW m \in Message, Published(m)
      PROVE  m[1] < session'.gen \/ (m[1] = session'.gen /\ m[2] <= session'.sent)
  BY <1>1, <1>8, PublishedStays
<1>9. /\ \A r \in Rooms : ~ InSeq(x, outbox[r])
      /\ \A k \in Clicks : task[k].at = "encoding" => ~ InSeq(x, task[k].msgs)
      /\ \A l \in links : ~ InSeq(x, l.msgs)
  BY <1>2, <1>3 DEF InOnePlace, InBox, InExport
<1> SUFFICES ASSUME NEW m \in Message
             PROVE
        /\ \A r \in Rooms : InBox(m, r)' =>
              /\ Published(m)'
              /\ \A q \in Rooms : InBox(m, q)' => q = r
              /\ \A k \in Clicks : ~ InExport(m, k)
              /\ \A l \in links : ~ InSeq(m, l.msgs)
        /\ \A k \in Clicks : InExport(m, k) =>
              /\ Published(m)'
              /\ \A j \in Clicks : InExport(m, j) => j = k
              /\ \A l \in links : ~ InSeq(m, l.msgs)
        /\ \A l \in links : InSeq(m, l.msgs) =>
              /\ Published(m)'
              /\ \A n \in links : InSeq(m, n.msgs) => n = l
  BY DEF InOnePlace, InBox, InExport, Published
<1>10. CASE m = x
  BY <1>5, <1>7, <1>9, <1>10 DEF InBox, InExport, Published
<1>11. CASE m # x
  <2>1. \A r \in Rooms : InBox(m, r)' <=> InBox(m, r)
    BY <1>7, <1>11 DEF InBox
  <2>2. Published(m) => Published(m)'
    BY <1>8 DEF Published
  <2> QED
    BY <2>1, <2>2 DEF InOnePlace
<1> QED
  BY <1>10, <1>11

LEMMA ExportMoves ==
    ASSUME TypeOK, InOnePlace, Export
    PROVE  InOnePlace'
<1> DEFINE r0 == session.room
           t == [uses |-> "links", at |-> "encoding", room |-> r0, msgs |-> outbox[r0]]
<1>1. Begin(t) /\ outbox' = Drain(outbox, r0) /\ UNCHANGED <<session, links>> /\ InRoom
  BY DEF Export
<1>2. PICK c \in Clicks : task[c] = Idle /\ task' = [task EXCEPT ![c] = t]
  BY <1>1 DEF Begin
<1>3. r0 \in Rooms /\ outbox \in [Rooms -> Seq(Message)] /\ task \in [Clicks -> TaskSet]
  BY <1>1 DEF TypeOK, InRoom
<1>4. /\ task'[c].at = "encoding" /\ task'[c].msgs = outbox[r0] /\ task[c].at # "encoding"
      /\ \A k \in Clicks : k # c => task'[k] = task[k]
  BY <1>2, <1>3 DEF Idle
<1>5. /\ outbox'[r0] = <<>> /\ \A r \in Rooms : r # r0 => outbox'[r] = outbox[r]
  BY <1>1, <1>3 DEF Drain
<1>6. \A m : ~ InSeq(m, <<>>)
  BY DEF InSeq
<1> HIDE DEF r0, t
<1>7. \A m : /\ \A r \in Rooms : InSeq(m, outbox'[r]) <=> r # r0 /\ InBox(m, r)
             /\ \A k \in Clicks : (task'[k].at = "encoding" /\ InSeq(m, task'[k].msgs))
                   <=> (k # c /\ InExport(m, k)) \/ (k = c /\ InBox(m, r0))
  BY <1>4, <1>5, <1>6 DEF InBox, InExport
<1> SUFFICES ASSUME NEW m \in Message
             PROVE
        /\ \A r \in Rooms : InBox(m, r)' =>
              /\ Published(m)'
              /\ \A q \in Rooms : InBox(m, q)' => q = r
              /\ \A k \in Clicks : ~ InExport(m, k)'
              /\ \A l \in links : ~ InSeq(m, l.msgs)
        /\ \A k \in Clicks : InExport(m, k)' =>
              /\ Published(m)'
              /\ \A j \in Clicks : InExport(m, j)' => j = k
              /\ \A l \in links : ~ InSeq(m, l.msgs)
        /\ \A l \in links : InSeq(m, l.msgs) =>
              /\ Published(m)'
              /\ \A n \in links : InSeq(m, n.msgs) => n = l
  BY <1>1 DEF InOnePlace, InBox, InExport, Published
<1>8. /\ \A r \in Rooms : InBox(m, r)' <=> r # r0 /\ InBox(m, r)
      /\ \A k \in Clicks : InExport(m, k)' <=> (k # c /\ InExport(m, k)) \/ (k = c /\ InBox(m, r0))
  BY <1>7 DEF InBox, InExport
<1>9. Published(m)' <=> Published(m)
  BY <1>1 DEF Published
<1> QED
  BY <1>3, <1>8, <1>9 DEF InOnePlace

LEMMA LinkMoves ==
    ASSUME TypeOK, InOnePlace, NEW c \in Clicks, LinkMade(c)
    PROVE  InOnePlace'
<1> DEFINE l0 == [invite |-> IsFirstHop, room |-> task[c].room, msgs |-> task[c].msgs]
<1>1. UNCHANGED <<outbox, session>> /\ links' \in {links, links \cup {l0}}
  BY DEF LinkMade, adapterVars
<1>2. task' = [task EXCEPT ![c] = [at |-> "done"]] /\ task[c].at = "encoding"
  BY DEF LinkMade, End
<1>3. task \in [Clicks -> TaskSet]
  BY DEF TypeOK
<1>4. task'[c].at # "encoding" /\ \A k \in Clicks : k # c => task'[k] = task[k]
  BY <1>2, <1>3
<1>5. \A m : InSeq(m, l0.msgs) <=> InExport(m, c)
  BY <1>2 DEF InExport
<1> HIDE DEF l0
<1>6. \A m : \A k \in Clicks : (task'[k].at = "encoding" /\ InSeq(m, task'[k].msgs))
                   <=> (k # c /\ InExport(m, k))
  BY <1>4 DEF InExport
<1>7. CASE links' = links
  BY <1>1, <1>6, <1>7, SMTT(30) DEF InOnePlace, InBox, InExport, Published
<1>8. CASE links' = links \cup {l0}
  <2>1. \A l \in links' : l \in links \/ l = l0
    BY <1>8
  <2> QED
    BY <1>1, <1>5, <1>6, <2>1, SMTT(30) DEF InOnePlace, InBox, InExport, Published
<1> QED
  BY <1>1, <1>7, <1>8

LEMMA PlaceStep == TypeOK /\ TypeOK' /\ InOnePlace /\ [Next]_vars => InOnePlace'
<1> SUFFICES ASSUME TypeOK, TypeOK', InOnePlace, [Next]_vars PROVE InOnePlace'
  OBVIOUS
<1>0. /\ session.gen \in Nat /\ session.sent \in Nat /\ session'.gen \in Nat /\ session'.sent \in Nat
      /\ task \in [Clicks -> TaskSet] /\ session \in SessionSet
  BY SessionNumbers DEF TypeOK, SessionSet
<1>a. ASSUME NEW t, Begin(t), t.at # "encoding"
      PROVE  \A k \in Clicks : task'[k].at = "encoding" => task'[k] = task[k]
  BY <1>0, <1>a DEF Begin
<1>b. ASSUME NEW k \in Clicks, NEW t, task' = [task EXCEPT ![k] = t], t.at # "encoding"
      PROVE  \A j \in Clicks : task'[j].at = "encoding" => task'[j] = task[j]
  BY <1>0, <1>b
<1>c. ASSUME NEW role, NEW room, NEW hs, Attach(role, room, hs)
      PROVE  session'.gen > session.gen
  BY <1>0, <1>c DEF Attach, NewSession
<1>1. CASE CreateRoom
  BY <1>1, <1>c, NothingMoves DEF CreateRoom
<1>2. CASE SessionPublishes
  <2>1. /\ session.room \in Rooms /\ UNCHANGED <<task, links>>
        /\ outbox' = Publish(outbox, session.room, <<session.gen, session.sent + 1>>)
        /\ session' = [session EXCEPT !.sent = @ + 1]
    BY <1>2 DEF SessionPublishes, TypeOK
  <2>2. session'.gen = session.gen /\ session'.sent = session.sent + 1
    BY <1>0, <2>1 DEF SessionSet
  <2> QED
    BY <2>1, <2>2, OnePublished
<1>3. CASE SessionChanges
  <2>1. session'.gen = session.gen /\ session'.sent = session.sent
    BY <1>0, <1>3 DEF SessionChanges, SessionSet
  <2> QED
    BY <1>0, <1>3, <2>1, NothingMoves DEF SessionChanges, adapterVars
<1>4. CASE Retry
  <2>1. session'.gen > session.gen /\ UNCHANGED <<task, links>> /\ session.room \in Rooms
    BY <1>4, <1>c DEF Retry, TypeOK
  <2>2. CASE session.life = "failed"
    BY <1>4, <2>1, <2>2, OnePublished DEF Retry
  <2>3. CASE session.life # "failed"
    BY <1>4, <2>1, <2>3, NothingMoves DEF Retry
  <2> QED
    BY <2>2, <2>3
<1>5. CASE Export
  BY <1>5, ExportMoves
<1>6. ASSUME NEW k \in Clicks, LinkMade(k) PROVE InOnePlace'
  BY <1>6, LinkMoves
<1>7. CASE \/ \E link \in Links : Import(link)
           \/ CallStart \/ MicToggle \/ Load \/ HandoffConfirmed
  <2>1. UNCHANGED <<outbox, links, session>>
    BY <1>7 DEF Import, CallStart, MicToggle, Load, HandoffConfirmed, BeginLoad, adapterVars
  <2>2. \A k \in Clicks : task'[k].at = "encoding" => task'[k] = task[k]
    BY <1>7, <1>a DEF Import, CallStart, MicToggle, Load, HandoffConfirmed, BeginLoad
  <2> QED
    BY <1>0, <2>1, <2>2, NothingMoves
<1>8. CASE CallStop \/ RegistryFetched \/ HandoffAnswered
  <2>1. UNCHANGED <<outbox, links, session, task>>
    BY <1>8 DEF CallStop, RegistryFetched, HandoffAnswered, adapterVars
  <2> QED
    BY <1>0, <2>1, NothingMoves
<1>9. ASSUME NEW k \in Clicks, Parsed(k) PROVE InOnePlace'
  <2>1. UNCHANGED <<outbox, links>> /\ task' = [task EXCEPT ![k].at = "decoding"]
    BY <1>9 DEF Parsed
  <2>2. task[k] \in [uses : {"links"}, at : {"parsing", "decoding"}, room : Rooms]
    BY <1>0, <1>9 DEF Parsed, TaskSet
  <2>3. \A j \in Clicks : task'[j].at = "encoding" => task'[j] = task[j]
    BY <1>0, <2>1, <2>2
  <2>4. session'.gen > session.gen \/ (session'.gen = session.gen /\ session'.sent >= session.sent)
    BY <1>0, <1>9, <1>c DEF Parsed
  <2> QED
    BY <2>1, <2>3, <2>4, NothingMoves
<1>10. ASSUME NEW k \in Clicks,
              \/ Decoded(k) \/ BadLink(k) \/ CallCaptured(k) \/ MicCaptured(k) \/ MicClosed(k)
              \/ CaptureRefused(k) \/ Loaded(k) \/ LoadFails(k)
       PROVE  InOnePlace'
  <2>1. UNCHANGED <<outbox, links>>
    BY <1>10 DEF Decoded, BadLink, CallCaptured, MicCaptured, MicClosed, CaptureRefused, Loaded,
       LoadFails, adapterVars
  <2>2. session'.gen = session.gen /\ session'.sent = session.sent
    BY <1>0, <1>10 DEF Decoded, BadLink, CallCaptured, MicCaptured, MicClosed, CaptureRefused, Loaded,
       LoadFails, SessionSet
  <2>3. task' = [task EXCEPT ![k] = [at |-> "done"]]
        \/ task' = [task EXCEPT ![k] = [at |-> "done", failed |-> TRUE]]
    BY <1>10 DEF Decoded, BadLink, CallCaptured, MicCaptured, MicClosed, CaptureRefused, Loaded,
       LoadFails, End
  <2>4. \A j \in Clicks : task'[j].at = "encoding" => task'[j] = task[j]
    <3>1. [at |-> "done"].at # "encoding" /\ [at |-> "done", failed |-> TRUE].at # "encoding"
      OBVIOUS
    <3> QED
      BY <1>b, <2>3, <3>1
  <2> QED
    BY <1>0, <2>1, <2>2, <2>4, NothingMoves
<1>11. CASE UNCHANGED vars
  BY <1>0, <1>11, NothingMoves DEF vars, adapterVars
<1> QED
  BY <1>1, <1>2, <1>3, <1>4, <1>5, <1>6, <1>7, <1>8, <1>9, <1>10, <1>11 DEF Next

-----------------------------------------------------------------------------
(* What is started can be stopped.                                          *)

LEMMA StopInit == Init => StopInv
<1> SUFFICES ASSUME Init PROVE StopInv
  OBVIOUS
<1>1. \A k \in Clicks : task[k].at = "unused"
  BY DEF Init, Idle
<1>2. Alone
  BY <1>1 DEF Alone, Busy
<1>3. hosts = {} /\ live = {} /\ activeCall = None /\ micPipeline = None
  BY DEF Init
<1>4. OneHost
  BY <1>3 DEF OneHost
<1>5. Starting
  BY <1>1, <1>3, NobodysClick DEF Starting
<1>6. Stoppable
  BY <1>3 DEF Stoppable
<1> QED
  BY <1>2, <1>4, <1>5, <1>6 DEF StopInv

(* A click that begins; what it may race with is remembered. *)
LEMMA BeginAlone ==
    ASSUME TypeOK, Alone, NEW t \in TaskSet, Begin(t), t.at \notin {"unused", "done"}
    PROVE  /\ Alone'
           /\ overlapped \subseteq overlapped' /\ overlapped' \subseteq overlapped \cup {t.uses}
           /\ \E k \in Clicks :
                 /\ task[k].at = "unused" /\ task'[k] = t
                 /\ \A j \in Clicks : j # k => task'[j] = task[j]
                 /\ t.uses \notin overlapped' => \A j \in Clicks : j # k => ~ Busy(j, t.uses)
<1>1. PICK k \in Clicks : task[k] = Idle /\ task' = [task EXCEPT ![k] = t]
  BY DEF Begin
<1>2. overlapped' = IF Running(t.uses) THEN overlapped \cup {t.uses} ELSE overlapped
  BY DEF Begin
<1>3. /\ task'[k] = t /\ \A j \in Clicks : j # k => task'[j] = task[j]
      /\ task[k].at = "unused"
  <2>1. task \in [Clicks -> TaskSet]
    BY DEF TypeOK
  <2>2. task'[k] = t /\ \A j \in Clicks : j # k => task'[j] = task[j]
    BY <1>1, <2>1
  <2>3. Idle.at = "unused"
    BY DEF Idle
  <2> QED
    BY <1>1, <2>2, <2>3
<1>4. t.uses \notin overlapped' => \A j \in Clicks : ~ Busy(j, t.uses)
  BY <1>2 DEF Running, Busy
<1>5. ASSUME NEW uses \in {"call", "mic", "addon"}, uses \notin overlapped',
             NEW i \in Clicks, NEW j \in Clicks, Busy(i, uses)', Busy(j, uses)'
      PROVE  i = j
  <2>1. uses \notin overlapped
    BY <1>2, <1>5
  <2>2. CASE uses = t.uses
    <3>1. \A l \in Clicks : Busy(l, uses)' => l = k
      BY <1>3, <1>4, <1>5, <2>2 DEF Busy
    <3> QED
      BY <1>5, <3>1
  <2>3. CASE uses # t.uses
    <3>1. \A l \in Clicks : Busy(l, uses)' => Busy(l, uses)
      BY <1>3, <2>3 DEF Busy
    <3> QED
      BY <1>5, <2>1, <3>1 DEF Alone
  <2> QED
    BY <2>2, <2>3
<1>6. Alone'
  BY <1>5 DEF Alone, Busy
<1> QED
  BY <1>2, <1>3, <1>4, <1>6

(* A click that goes on, or ends. *)
LEMMA AloneStays ==
    ASSUME Alone, overlapped' = overlapped,
           \A k \in Clicks : \A uses \in {"call", "mic", "addon"} : Busy(k, uses)' => Busy(k, uses)
    PROVE  Alone'
BY DEF Alone, Busy

LEMMA HostsQuiet ==
    ASSUME OneHost, UNCHANGED <<hosts, addonHost>>, overlapped \subseteq overlapped',
           \A k \in Clicks : Busy(k, "addon")' => Busy(k, "addon")
    PROVE  OneHost'
BY DEF OneHost, Busy

LEMMA MediaQuiet ==
    ASSUME TypeOK, Starting, Stoppable, UNCHANGED mediaVars, overlapped \subseteq overlapped',
           \A k \in Clicks : \/ task'[k] = task[k]
                             \/ task[k].at # "done" /\ task'[k].at \notin {"capturing", "stopping"}
    PROVE  Starting' /\ Stoppable'
<1>1. UNCHANGED <<live, activeCall, micPipeline>>
  BY DEF mediaVars
<1>2. Starting'
  BY <1>1 DEF Starting
<1>3. live \subseteq Clicks /\ \A k \in Clicks : "failed" \in DOMAIN task[k] => task[k].at = "done"
  BY TaskIs DEF TypeOK
<1>4. Stoppable'
  BY <1>1, <1>3 DEF Stoppable
<1> QED
  BY <1>2, <1>4

LEMMA StopStep == TypeOK /\ TypeOK' /\ StopInv /\ [Next]_vars => StopInv'
<1> SUFFICES ASSUME TypeOK, TypeOK', StopInv, [Next]_vars PROVE StopInv'
  OBVIOUS
<1>0. /\ Alone /\ OneHost /\ Starting /\ Stoppable
      /\ task \in [Clicks -> TaskSet]
      /\ live \subseteq Clicks /\ hosts \subseteq Clicks
      /\ activeCall \in Clicks \cup {None} /\ micPipeline \in Clicks \cup {None}
  BY DEF StopInv, TypeOK
<1>a. \A k \in Clicks : /\ "failed" \in DOMAIN task[k] => task[k].at = "done"
                        /\ task[k].at = "capturing" => task[k].uses \in {"call", "mic"}
                        /\ task[k].at = "stopping" => task[k].uses = "mic"
                        /\ task[k].at = "loading" => task[k].uses = "addon"
  BY <1>0, TaskIs
(* An end, with the adapter's and the session's steps. *)
<1>b. ASSUME NEW k \in Clicks, NEW t, task' = [task EXCEPT ![k] = t], t.at = "done",
             overlapped' = overlapped
      PROVE  /\ Alone'
             /\ task'[k] = t /\ \A j \in Clicks : j # k => task'[j] = task[j]
             /\ \A j \in Clicks : \A uses \in {"call", "mic", "addon"} :
                   Busy(j, uses)' => Busy(j, uses) /\ j # k
  <2>1. task'[k] = t /\ \A j \in Clicks : j # k => task'[j] = task[j]
    BY <1>0, <1>b
  <2>2. \A j \in Clicks : \A uses \in {"call", "mic", "addon"} :
           Busy(j, uses)' => Busy(j, uses) /\ j # k
    BY <1>b, <2>1 DEF Busy
  <2> QED
    BY <1>0, <1>b, <2>1, <2>2, AloneStays
<1>c. [at |-> "done"].at = "done" /\ [at |-> "done", failed |-> TRUE].at = "done"
      /\ "failed" \in DOMAIN [at |-> "done", failed |-> TRUE]
  OBVIOUS
<1>1. CASE \/ CreateRoom \/ SessionPublishes \/ SessionChanges \/ RegistryFetched
           \/ HandoffAnswered \/ UNCHANGED vars
  <2>1. UNCHANGED <<task, live, activeCall, micPipeline, hosts, addonHost, overlapped>>
    BY <1>1 DEF CreateRoom, SessionPublishes, SessionChanges, RegistryFetched, HandoffAnswered,
       vars, mediaVars, addonVars
  <2> QED
    BY <2>1 DEF StopInv, Alone, OneHost, Starting, Stoppable, Busy
<1>2. CASE Retry
  <2>1. UNCHANGED <<task, live, activeCall, micPipeline, overlapped>>
        /\ hosts' = hosts \ {addonHost} /\ addonHost' = None
    BY <1>2 DEF Retry, mediaVars, ClosedHosts
  <2>2. OneHost'
    BY <1>0, <2>1 DEF OneHost, Busy
  <2> QED
    BY <1>0, <2>1, <2>2 DEF StopInv, Alone, Starting, Stoppable, Busy
<1>3. CASE Export \/ \E link \in Links : Import(link)
  <2>1. PICK t \in TaskSet : Begin(t) /\ t.uses = "links" /\ t.at \in {"encoding", "parsing", "decoding"}
    <3>1. CASE Export
      <4> DEFINE t == [uses |-> "links", at |-> "encoding", room |-> session.room, msgs |-> outbox[session.room]]
      <4>1. t \in TaskSet
        BY <3>1 DEF Export, InRoom, TypeOK, TaskSet
      <4>2. t.uses = "links" /\ t.at = "encoding"
        OBVIOUS
      <4>3. Begin(t)
        BY <3>1 DEF Export
      <4> QED
        BY <4>1, <4>2, <4>3
    <3>2. ASSUME NEW link \in Links, Import(link)
          PROVE  \E t \in TaskSet :
                    Begin(t) /\ t.uses = "links" /\ t.at \in {"encoding", "parsing", "decoding"}
      <4> DEFINE t == [uses |-> "links", at |-> IF link.invite THEN "parsing" ELSE "decoding", room |-> link.room]
      <4>0. link.room \in Rooms
        BY WebPageConstants
      <4>1. t \in TaskSet
        BY <4>0 DEF TaskSet
      <4>2. t.uses = "links" /\ t.at \in {"parsing", "decoding"}
        OBVIOUS
      <4>3. Begin(t)
        BY <3>2 DEF Import
      <4> QED
        BY <4>1, <4>2, <4>3
    <3> QED
      BY <1>3, <3>1, <3>2
  <2>2. UNCHANGED <<mediaVars, hosts, addonHost>>
    BY <1>3 DEF Export, Import, addonVars
  <2>3. t.at \notin {"unused", "done"}
    BY <2>1
  <2>4. PICK k \in Clicks : /\ task[k].at = "unused" /\ task'[k] = t
                            /\ \A j \in Clicks : j # k => task'[j] = task[j]
    BY <1>0, <2>1, <2>3, BeginAlone
  <2>5. Alone' /\ overlapped \subseteq overlapped'
    BY <1>0, <2>1, <2>3, BeginAlone
  <2>6. OneHost'
    BY <1>0, <2>1, <2>2, <2>4, <2>5, HostsQuiet DEF Busy
  <2>7. Starting' /\ Stoppable'
    BY <1>0, <2>1, <2>2, <2>4, <2>5, MediaQuiet
  <2> QED
    BY <2>5, <2>6, <2>7 DEF StopInv
<1>4. CASE CallStart
  <2> DEFINE t == [uses |-> "call", at |-> "capturing"]
  <2>1. t \in TaskSet /\ t.uses = "call" /\ t.at = "capturing"
    BY DEF TaskSet
  <2>2. Begin(t) /\ activeCall = None /\ UNCHANGED <<live, activeCall, micPipeline, hosts, addonHost>>
    BY <1>4 DEF CallStart, mediaVars, addonVars
  <2> HIDE DEF t
  <2>3. PICK k \in Clicks : /\ task[k].at = "unused" /\ task'[k] = t
                            /\ \A j \in Clicks : j # k => task'[j] = task[j]
    BY <1>0, <2>1, <2>2, BeginAlone
  <2>4. Alone' /\ overlapped \subseteq overlapped'
    BY <1>0, <2>1, <2>2, BeginAlone
  <2>5. OneHost'
    BY <1>0, <2>1, <2>2, <2>3, <2>4, HostsQuiet DEF Busy
  <2>6. Starting'
    BY <1>0, <2>1, <2>2, <2>3, <2>4 DEF Starting
  <2>7. Stoppable'
    BY <1>0, <1>a, <2>2, <2>3, <2>4 DEF Stoppable
  <2> QED
    BY <2>4, <2>5, <2>6, <2>7 DEF StopInv
<1>5. CASE CallStop
  <2>1. /\ UNCHANGED <<task, micPipeline, hosts, addonHost, overlapped>>
        /\ live' = live \ {activeCall} /\ activeCall' = None
    BY <1>5 DEF CallStop, Stopped, addonVars
  <2>2. Alone' /\ OneHost'
    BY <1>0, <2>1 DEF Alone, OneHost, Busy
  <2>3. Starting'
    BY <1>0, <2>1, NobodysClick DEF Starting
  <2>4. Stoppable'
    BY <1>0, <2>1 DEF Stoppable
  <2> QED
    BY <2>2, <2>3, <2>4 DEF StopInv
<1>6. CASE MicToggle /\ micPipeline = None
  <2> DEFINE t == [uses |-> "mic", at |-> "capturing"]
  <2>1. t \in TaskSet /\ t.uses = "mic" /\ t.at = "capturing"
    BY DEF TaskSet
  <2>2. Begin(t) /\ UNCHANGED <<live, activeCall, micPipeline, hosts, addonHost>>
    BY <1>6 DEF MicToggle, mediaVars, addonVars
  <2> HIDE DEF t
  <2>3. PICK k \in Clicks : /\ task[k].at = "unused" /\ task'[k] = t
                            /\ \A j \in Clicks : j # k => task'[j] = task[j]
    BY <1>0, <2>1, <2>2, BeginAlone
  <2>4. Alone' /\ overlapped \subseteq overlapped'
    BY <1>0, <2>1, <2>2, BeginAlone
  <2>5. OneHost'
    BY <1>0, <2>1, <2>2, <2>3, <2>4, HostsQuiet DEF Busy
  <2>6. Starting'
    BY <1>0, <1>6, <2>1, <2>2, <2>3, <2>4 DEF Starting
  <2>7. Stoppable'
    BY <1>0, <1>a, <2>2, <2>3, <2>4 DEF Stoppable
  <2> QED
    BY <2>4, <2>5, <2>6, <2>7 DEF StopInv
<1>7. CASE MicToggle /\ micPipeline # None
  <2> DEFINE t == [uses |-> "mic", at |-> "stopping"]
  <2>1. t \in TaskSet /\ t.uses = "mic" /\ t.at = "stopping"
    BY DEF TaskSet
  <2>2. Begin(t) /\ UNCHANGED <<activeCall, micPipeline, hosts, addonHost>>
        /\ live' = live \ {micPipeline}
    BY <1>7 DEF MicToggle, addonVars, Stopped
  <2> HIDE DEF t
  <2>3. PICK k \in Clicks : /\ task[k].at = "unused" /\ task'[k] = t
                            /\ \A j \in Clicks : j # k => task'[j] = task[j]
    BY <1>0, <2>1, <2>2, BeginAlone
  <2>4. Alone' /\ overlapped \subseteq overlapped'
    BY <1>0, <2>1, <2>2, BeginAlone
  <2>5. OneHost'
    BY <1>0, <2>1, <2>2, <2>3, <2>4, HostsQuiet DEF Busy
  <2>6. Starting'
    BY <1>0, <2>1, <2>2, <2>3, <2>4 DEF Starting
  <2>7. Stoppable'
    BY <1>0, <1>a, <2>2, <2>3, <2>4 DEF Stoppable
  <2> QED
    BY <2>4, <2>5, <2>6, <2>7 DEF StopInv
<1>8. CASE Load \/ HandoffConfirmed
  <2> DEFINE t == [uses |-> "addon", at |-> "loading", gen |-> session.gen]
  <2>1. t \in TaskSet /\ t.uses = "addon" /\ t.at = "loading"
    BY DEF TaskSet, TypeOK
  <2>2. Begin(t) /\ UNCHANGED mediaVars /\ hosts' = hosts \ {addonHost} /\ addonHost' = None
    BY <1>8 DEF Load, HandoffConfirmed, BeginLoad, ClosedHosts
  <2> HIDE DEF t
  <2>3. PICK k \in Clicks : /\ task[k].at = "unused" /\ task'[k] = t
                            /\ \A j \in Clicks : j # k => task'[j] = task[j]
    BY <1>0, <2>1, <2>2, BeginAlone
  <2>4. Alone' /\ overlapped \subseteq overlapped'
    BY <1>0, <2>1, <2>2, BeginAlone
  <2>5. OneHost'
    BY <1>0, <2>2, <2>4 DEF OneHost
  <2>6. Starting' /\ Stoppable'
    BY <1>0, <2>1, <2>2, <2>3, <2>4, MediaQuiet
  <2> QED
    BY <2>4, <2>5, <2>6 DEF StopInv
<1>9. ASSUME NEW k \in Clicks, Parsed(k) PROVE StopInv'
  <2>1. /\ task' = [task EXCEPT ![k].at = "decoding"] /\ task[k].at = "parsing"
        /\ UNCHANGED <<mediaVars, hosts, addonHost, overlapped>>
    BY <1>9 DEF Parsed, addonVars
  <2>2. task[k] \in [uses : {"links"}, at : {"parsing", "decoding"}, room : Rooms]
    BY <1>0, <2>1 DEF TaskSet
  <2>3. /\ task'[k].at = "decoding" /\ task'[k].uses = "links"
        /\ \A j \in Clicks : j # k => task'[j] = task[j]
    BY <1>0, <2>1, <2>2
  <2>4. \A j \in Clicks : \A uses \in {"call", "mic", "addon"} : Busy(j, uses)' => Busy(j, uses)
    BY <2>3 DEF Busy
  <2>5. Alone' /\ OneHost'
    BY <1>0, <2>1, <2>4, AloneStays, HostsQuiet
  <2>6. Starting' /\ Stoppable'
    BY <1>0, <2>1, <2>3, MediaQuiet
  <2> QED
    BY <2>5, <2>6 DEF StopInv
<1>10. ASSUME NEW k \in Clicks,
              \/ LinkMade(k) \/ Decoded(k) \/ BadLink(k) \/ CaptureRefused(k) \/ LoadFails(k)
       PROVE  StopInv'
  <2>1. /\ task' = [task EXCEPT ![k] = [at |-> "done"]] /\ task[k].at # "done"
        /\ UNCHANGED <<mediaVars, hosts, addonHost, overlapped>>
    BY <1>10 DEF LinkMade, Decoded, BadLink, CaptureRefused, LoadFails, End, addonVars
  <2>2. /\ Alone' /\ task'[k].at = "done" /\ \A j \in Clicks : j # k => task'[j] = task[j]
        /\ \A j \in Clicks : Busy(j, "addon")' => Busy(j, "addon")
    BY <1>b, <1>c, <2>1
  <2>3. OneHost'
    BY <1>0, <2>1, <2>2, HostsQuiet
  <2>4. Starting' /\ Stoppable'
    BY <1>0, <2>1, <2>2, MediaQuiet
  <2> QED
    BY <2>2, <2>3, <2>4 DEF StopInv
<1>11. ASSUME NEW k \in Clicks, CallCaptured(k) PROVE StopInv'
  <2>1. /\ task[k].at = "capturing" /\ task[k].uses = "call" /\ live' = live \cup {k}
        /\ UNCHANGED <<micPipeline, hosts, addonHost, overlapped>>
    BY <1>11 DEF CallCaptured, addonVars
  <2>2. PICK t : /\ task' = [task EXCEPT ![k] = t] /\ t.at = "done"
                 /\ \/ activeCall' = activeCall /\ "failed" \in DOMAIN t
                    \/ activeCall' = k
    BY <1>11, <1>c DEF CallCaptured, End
  <2>3. /\ Alone' /\ task'[k] = t /\ \A j \in Clicks : j # k => task'[j] = task[j]
        /\ \A j \in Clicks : \A uses \in {"call", "mic", "addon"} :
              Busy(j, uses)' => Busy(j, uses) /\ j # k
    BY <1>b, <2>1, <2>2
  <2>4. OneHost'
    BY <1>0, <2>1, <2>3, HostsQuiet
  <2>5. "call" \in overlapped \/ activeCall = None
    BY <1>0, <2>1 DEF Starting
  <2>6. "call" \in overlapped \/ \A j \in Clicks : task'[j].at = "capturing" => task'[j].uses # "call"
    <3> SUFFICES ASSUME "call" \notin overlapped, NEW j \in Clicks,
                        task'[j].at = "capturing", task'[j].uses = "call"
                 PROVE  FALSE
      OBVIOUS
    <3>1. Busy(j, "call")'
      BY DEF Busy
    <3>2. Busy(j, "call") /\ j # k /\ Busy(k, "call")
      BY <2>1, <2>3, <3>1 DEF Busy
    <3> QED
      BY <1>0, <3>2 DEF Alone
  <2>7. Starting'
    <3>1. \A j \in Clicks : j = micPipeline' \/ j = activeCall' => task'[j].at = "done"
      BY <1>0, <2>1, <2>2, <2>3 DEF Starting
    <3>2. \A j \in Clicks : task'[j].at = "capturing" /\ task'[j].uses = "call" =>
             "call" \in overlapped' \/ activeCall' = None
      BY <2>1, <2>6
    <3>3. \A j \in Clicks : task'[j].at = "capturing" /\ task'[j].uses = "mic" =>
             "mic" \in overlapped' \/ micPipeline' = None
      BY <1>0, <2>1, <2>2, <2>3 DEF Starting
    <3>4. \A j \in Clicks : task'[j].at = "stopping" =>
             "mic" \in overlapped' \/ micPipeline' \notin live'
      <4>1. k # micPipeline
        BY <1>0, <2>1 DEF Starting
      <4> QED
        BY <1>0, <2>1, <2>2, <2>3, <4>1 DEF Starting
    <3> QED
      BY <3>1, <3>2, <3>3, <3>4 DEF Starting
  <2>8. Stoppable'
    <3>1. ASSUME NEW j \in live
          PROVE  \/ j \in {activeCall', micPipeline'}
                 \/ "failed" \in DOMAIN task'[j]
                 \/ {"call", "mic"} \cap overlapped' # {}
      <4>1. CASE j = activeCall /\ activeCall' # activeCall
        <5>1. "call" \in overlapped
          BY <1>0, <2>5, <3>1, <4>1, NobodysClick
        <5> QED
          BY <2>1, <5>1
      <4>2. CASE "failed" \in DOMAIN task[j]
        <5>1. j # k
          BY <1>a, <2>1, <4>2
        <5> QED
          BY <1>0, <2>3, <3>1, <4>2, <5>1
      <4>3. CASE j \in {activeCall, micPipeline} /\ ~ (j = activeCall /\ activeCall' # activeCall)
        BY <2>1, <4>3
      <4> QED
        BY <1>0, <2>1, <3>1, <4>1, <4>2, <4>3 DEF Stoppable
    <3>2. k \in {activeCall', micPipeline'} \/ "failed" \in DOMAIN task'[k]
      BY <2>2, <2>3
    <3> QED
      BY <2>1, <3>1, <3>2 DEF Stoppable
  <2> QED
    BY <2>3, <2>4, <2>7, <2>8 DEF StopInv
<1>12. ASSUME NEW k \in Clicks, MicCaptured(k) PROVE StopInv'
  <2>1. /\ task[k].at = "capturing" /\ task[k].uses = "mic" /\ live' = live \cup {k}
        /\ UNCHANGED <<activeCall, hosts, addonHost, overlapped>>
    BY <1>12 DEF MicCaptured, addonVars
  <2>2. PICK t : /\ task' = [task EXCEPT ![k] = t] /\ t.at = "done"
                 /\ \/ micPipeline' = micPipeline /\ "failed" \in DOMAIN t
                    \/ micPipeline' = k
    BY <1>12, <1>c DEF MicCaptured, End
  <2>3. /\ Alone' /\ task'[k] = t /\ \A j \in Clicks : j # k => task'[j] = task[j]
        /\ \A j \in Clicks : \A uses \in {"call", "mic", "addon"} :
              Busy(j, uses)' => Busy(j, uses) /\ j # k
    BY <1>b, <2>1, <2>2
  <2>4. OneHost'
    BY <1>0, <2>1, <2>3, HostsQuiet
  <2>5. "mic" \in overlapped \/ micPipeline = None
    BY <1>0, <2>1 DEF Starting
  <2>6. "mic" \in overlapped \/ \A j \in Clicks : ~ Busy(j, "mic")'
    BY <1>0, <2>1, <2>3 DEF Alone, Busy
  <2>7. Starting'
    <3>1. \A j \in Clicks : j = micPipeline' \/ j = activeCall' => task'[j].at = "done"
      BY <1>0, <2>1, <2>2, <2>3 DEF Starting
    <3>2. \A j \in Clicks : task'[j].at = "capturing" /\ task'[j].uses = "call" =>
             "call" \in overlapped' \/ activeCall' = None
      BY <1>0, <2>1, <2>2, <2>3 DEF Starting
    <3>3. \A j \in Clicks : task'[j].at = "capturing" /\ task'[j].uses = "mic" =>
             "mic" \in overlapped' \/ micPipeline' = None
      BY <2>1, <2>6 DEF Busy
    <3>4. \A j \in Clicks : task'[j].at = "stopping" =>
             "mic" \in overlapped' \/ micPipeline' \notin live'
      <4>1. \A j \in Clicks : task'[j].at = "stopping" => task'[j].uses = "mic"
        BY <1>a, <2>2, <2>3
      <4> QED
        BY <2>1, <2>6, <4>1 DEF Busy
    <3> QED
      BY <3>1, <3>2, <3>3, <3>4 DEF Starting
  <2>8. Stoppable'
    <3>1. ASSUME NEW j \in live
          PROVE  \/ j \in {activeCall', micPipeline'}
                 \/ "failed" \in DOMAIN task'[j]
                 \/ {"call", "mic"} \cap overlapped' # {}
      <4>1. CASE j = micPipeline /\ micPipeline' # micPipeline
        <5>1. "mic" \in overlapped
          BY <1>0, <2>5, <3>1, <4>1, NobodysClick
        <5> QED
          BY <2>1, <5>1
      <4>2. CASE "failed" \in DOMAIN task[j]
        <5>1. j # k
          BY <1>a, <2>1, <4>2
        <5> QED
          BY <1>0, <2>3, <3>1, <4>2, <5>1
      <4>3. CASE j \in {activeCall, micPipeline} /\ ~ (j = micPipeline /\ micPipeline' # micPipeline)
        BY <2>1, <4>3
      <4> QED
        BY <1>0, <2>1, <3>1, <4>1, <4>2, <4>3 DEF Stoppable
    <3>2. k \in {activeCall', micPipeline'} \/ "failed" \in DOMAIN task'[k]
      BY <2>2, <2>3
    <3> QED
      BY <2>1, <3>1, <3>2 DEF Stoppable
  <2> QED
    BY <2>3, <2>4, <2>7, <2>8 DEF StopInv
<1>13. ASSUME NEW k \in Clicks, MicClosed(k) PROVE StopInv'
  <2>1. /\ task[k].at = "stopping" /\ micPipeline' = None
        /\ task' = [task EXCEPT ![k] = [at |-> "done"]]
        /\ UNCHANGED <<live, activeCall, hosts, addonHost, overlapped>>
    BY <1>13 DEF MicClosed, End, addonVars
  <2>3. /\ Alone' /\ task'[k].at = "done" /\ \A j \in Clicks : j # k => task'[j] = task[j]
        /\ \A j \in Clicks : \A uses \in {"call", "mic", "addon"} :
              Busy(j, uses)' => Busy(j, uses) /\ j # k
    BY <1>b, <1>c, <2>1
  <2>4. OneHost'
    BY <1>0, <2>1, <2>3, HostsQuiet
  <2>5. "mic" \in overlapped \/ micPipeline \notin live
    BY <1>0, <2>1 DEF Starting
  <2>6. Starting'
    <3>1. \A j \in Clicks : j = micPipeline' \/ j = activeCall' => task'[j].at = "done"
      BY <1>0, <2>1, <2>3, NobodysClick DEF Starting
    <3>2. \A j \in Clicks : task'[j].at = "stopping" =>
             "mic" \in overlapped' \/ micPipeline' \notin live'
      BY <1>0, <2>1, NobodysClick
    <3>3. \A j \in Clicks : task'[j].at = "capturing" => task'[j] = task[j]
      BY <2>3
    <3> QED
      BY <1>0, <2>1, <3>1, <3>2, <3>3 DEF Starting
  <2>7. Stoppable'
    <3>1. ASSUME NEW j \in live
          PROVE  \/ j \in {activeCall', micPipeline'}
                 \/ "failed" \in DOMAIN task'[j]
                 \/ {"call", "mic"} \cap overlapped' # {}
      <4>1. CASE j = micPipeline
        BY <2>1, <2>5, <3>1, <4>1
      <4>2. CASE "failed" \in DOMAIN task[j]
        <5>1. j # k
          BY <1>a, <2>1, <4>2
        <5> QED
          BY <1>0, <2>3, <3>1, <4>2, <5>1
      <4> QED
        BY <1>0, <2>1, <3>1, <4>1, <4>2 DEF Stoppable
    <3> QED
      BY <2>1, <3>1 DEF Stoppable
  <2> QED
    BY <2>3, <2>4, <2>6, <2>7 DEF StopInv
<1>14. ASSUME NEW k \in Clicks, Loaded(k) PROVE StopInv'
  <2>1. /\ task[k].at = "loading" /\ hosts' = hosts \cup {k} /\ addonHost' = k
        /\ task' = [task EXCEPT ![k] = [at |-> "done"]]
        /\ UNCHANGED <<mediaVars, overlapped>>
    BY <1>14 DEF Loaded, End
  <2>3. /\ Alone' /\ task'[k].at = "done" /\ \A j \in Clicks : j # k => task'[j] = task[j]
        /\ \A j \in Clicks : \A uses \in {"call", "mic", "addon"} :
              Busy(j, uses)' => Busy(j, uses) /\ j # k
    BY <1>b, <1>c, <2>1
  <2>4. Busy(k, "addon")
    BY <1>a, <2>1 DEF Busy
  <2>5. "addon" \notin overlapped => hosts = {} /\ \A j \in Clicks : ~ Busy(j, "addon")'
    BY <1>0, <2>3, <2>4 DEF OneHost, Alone
  <2>6. OneHost'
    BY <2>1, <2>5 DEF OneHost
  <2>7. Starting' /\ Stoppable'
    BY <1>0, <2>1, <2>3, MediaQuiet
  <2> QED
    BY <2>3, <2>6, <2>7 DEF StopInv
<1> QED
  BY <1>1, <1>2, <1>3, <1>4, <1>5, <1>6, <1>7, <1>8, <1>9, <1>10, <1>11, <1>12, <1>13, <1>14
     DEF Next

-----------------------------------------------------------------------------
(* The invariant holds, and with it the properties of the page. *)
THEOREM PageHolds == Spec => []WInv
<1>1. Init => WInv
  BY TypeInit, PlaceInit, StopInit DEF WInv
<1>2. WInv /\ [Next]_vars => WInv'
  BY TypeStep, PlaceStep, StopStep DEF WInv
<1> QED
  BY <1>1, <1>2, PTL DEF Spec

LEMMA AtMostOne ==
    ASSUME NEW S, \A a, b \in S : a = b
    PROVE  Cardinality(S) \in {0, 1} /\ (Cardinality(S) = 0 <=> S = {})
<1>1. CASE S = {}
  BY <1>1, FS_EmptySet
<1>2. CASE S # {}
  <2>1. PICK a \in S : TRUE
    BY <1>2
  <2>2. S = {a}
    BY <2>1
  <2>3. Cardinality(S) = 1
    BY <2>2, FS_Singleton
  <2> QED
    BY <1>2, <2>3
<1> QED
  BY <1>1, <1>2

(* However export and share clicks overlap, no message leaves the page twice
   (apps/web/src/main.ts, composeExportUrl; exportBundle of the adapter). *)
THEOREM NothingLeavesTwice == Spec => []LeavesOnce
<1>1. WInv => LeavesOnce
  <2> SUFFICES ASSUME WInv, NEW m \in Messages
               PROVE  Cardinality({r \in Rooms : InSeq(m, outbox[r])})
                      + Cardinality({k \in Exporting : InSeq(m, task[k].msgs)})
                      + Cardinality({l \in links : InSeq(m, l.msgs)}) <= 1
    BY DEF LeavesOnce
  <2> DEFINE A == {r \in Rooms : InSeq(m, outbox[r])}
             B == {k \in Exporting : InSeq(m, task[k].msgs)}
             C == {l \in links : InSeq(m, l.msgs)}
  <2>1. m \in Message
    <3>1. MaxSessions \in Nat /\ MaxSent \in Nat
      BY WebPageConstants, Zenon
    <3>2. 1 .. MaxSessions \subseteq Nat /\ 1 .. (MaxSent + 1) \subseteq Nat
      BY <3>1
    <3> QED
      BY <3>2 DEF Messages, Message
  <2>2. InOnePlace
    BY DEF WInv
  <2>3. \A r, q \in A : r = q
    BY <2>1, <2>2 DEF InOnePlace, InBox
  <2>4. \A j, k \in B : j = k
    BY <2>1, <2>2 DEF InOnePlace, InExport, Exporting
  <2>5. \A l, n \in C : l = n
    BY <2>1, <2>2 DEF InOnePlace
  <2>6. /\ A = {} \/ (B = {} /\ C = {})
        /\ B = {} \/ C = {}
    BY <2>1, <2>2 DEF InOnePlace, InBox, InExport, Exporting
  <2> HIDE DEF A, B, C
  <2>7. /\ Cardinality(A) \in {0, 1} /\ (Cardinality(A) = 0 <=> A = {})
        /\ Cardinality(B) \in {0, 1} /\ (Cardinality(B) = 0 <=> B = {})
        /\ Cardinality(C) \in {0, 1} /\ (Cardinality(C) = 0 <=> C = {})
    BY <2>3, <2>4, <2>5, AtMostOne
  <2>8. Cardinality(A) + Cardinality(B) + Cardinality(C) <= 1
    BY <2>6, <2>7
  <2> QED
    BY <2>8 DEF A, B, C
<1> QED
  BY <1>1, PageHolds, PTL

(* A live host is the page's and a live microphone is the call's or the meter's, unless
   two handlers of a kind overlapped or the session ended while the microphone was asked
   for (apps/web/src/main.ts, loadAddonByManifest, btn-call-start, btn-mic-toggle). *)
THEOREM PageCanStop == Spec => []CanStopWhatItStarted
<1>1. WInv => CanStopWhatItStarted
  BY DEF WInv, StopInv, OneHost, Stoppable, CanStopWhatItStarted
<1> QED
  BY <1>1, PageHolds, PTL

=============================================================================
