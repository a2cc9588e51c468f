--------------------------- MODULE OfficialAddons ---------------------------
(***************************************************************************)
(* The official add-ons (apps/web/public/addons) on two connected pages    *)
(* that have loaded the same one: each in its iframe, with the SDK         *)
(* (packages/addon-sdk/runtime) or its own copy of the bridge's client,    *)
(* storage calls to its page and payloads to the other's add-on.           *)
(*                                                                         *)
(* AddonHost is where the bridge is modelled; here a payload arrives in    *)
(* order, or is dropped by a host that is not active, and a storage call   *)
(* is answered when its transaction has run (module AddonStorage). An      *)
(* add-on's state st[p] has the fields of its own variables. A page may be *)
(* reloaded: what is stored stays, everything else begins again.           *)
(***************************************************************************)
EXTENDS AddonStorage, FiniteSets, FiniteSetsExt

CONSTANTS
    Pages,       \* the two pages
    Apps,        \* the add-ons tried, of "whiteboard", "presence", "echo",
                 \* "vault", "voice-call", "voice-meter"
    Chars,       \* the characters of ids and names
    VaultId,     \* the id of the add-on, a sequence of characters
    OtherId,     \* the id of another one, with a record in the same store
    OtherName,   \* the name of that record
    Theirs,      \* what is in it, which no file here has
    Names,       \* names of files, as keys
    Contents,    \* contents of files
    Snapshot,    \* SNAPSHOT_KEY of the whiteboard
    MaxActs,     \* bound: what the user of a page does, by add-on
    MaxReloads   \* bound: reloads

(* ADDON_ID_PATTERN, as far as it matters here: no space in it.             *)
AddonId(id) == id \in Seq(Chars) /\ \A i \in DOMAIN id : id[i] # Separator

ASSUME AddonConstants ==
    /\ \E p, q \in Pages : p # q /\ Pages = {p, q}
    /\ Separator \in Chars
    /\ AddonId(VaultId) /\ AddonId(OtherId) /\ VaultId # OtherId
    /\ Names \subseteq Seq(Chars) /\ Snapshot \in Seq(Chars)
    /\ OtherName \in Seq(Chars) /\ Theirs \notin Contents
    /\ Apps \subseteq {"whiteboard", "presence", "echo", "vault", "voice-call", "voice-meter"}
    /\ MaxActs \in [Apps -> Nat] /\ MaxReloads \in Nat

VARIABLES
    app,        \* the add-on both pages have loaded
    st,         \* its state on each page
    link,       \* payloads on their way to a page, in order
    db,         \* the store of each page
    conn,       \* dbPromise: "none", "opening", "open" or "failed", which is cached
    calls,      \* storage calls of a page whose answer is awaited, in order;
                \* "then" is what their handler goes on with
    acts,       \* what each user has done
    reloads,
    missed,     \* pages a payload has been dropped for (history)
    disturbed   \* pages whose last refreshList() stopped half way, or began
                \* beside another (history)

storageVars == <<db, conn, calls>>
boundVars == <<acts, reloads, missed, disturbed>>
vars == <<app, st, link, storageVars, boundVars>>

Other(p) == CHOOSE q \in Pages : q # p

Fresh(a) ==
    CASE a = "whiteboard" -> [initialized |-> FALSE, strokes |-> <<>>, ownCount |-> 0, peerCount |-> 0]
      [] a = "presence" -> [initialized |-> FALSE, me |-> 0, pendingState |-> <<>>, window |-> 0,
                            waiting |-> FALSE, timers |-> <<>>, peer |-> 0]
      [] a = "vault" -> [initialized |-> FALSE, list |-> <<>>, inbox |-> {}]
      [] a = "voice-call" -> [initialized |-> FALSE, sending |-> FALSE, listening |-> FALSE]
      [] a = "voice-meter" -> [initialized |-> FALSE, level |-> 0]
      [] OTHER -> [initialized |-> FALSE, log |-> {}]

(* The other add-on's record, under a key like one of this one's.           *)
OtherRecord == [k \in {NamespaceKey(OtherId, OtherName)} |-> Theirs]

Init ==
    /\ app \in Apps
    /\ st = [p \in Pages |-> Fresh(app)]
    /\ link = [p \in Pages |-> <<>>]
    /\ db = [p \in Pages |-> OtherRecord]
    /\ conn = [p \in Pages |-> "none"]
    /\ calls = [p \in Pages |-> <<>>]
    /\ acts = [p \in Pages |-> 0]
    /\ reloads = 0 /\ missed = {} /\ disturbed = {}

-----------------------------------------------------------------------------
(* senn.storage and senn.peer.                                              *)

(* rpcStorage() to handleStorage() and AddonStorageImpl: a call that is not *)
(* valid is refused and its handler ends; the first one opens the database. *)
Call(op, then) == [addon |-> VaultId, op |-> op, then |-> then]
CallOn(op, key, then) == [addon |-> VaultId, op |-> op, key |-> key, then |-> then]
CallPut(key, value, then) == [addon |-> VaultId, op |-> "put", key |-> key, value |-> value, then |-> then]

Asked(queue, c) == IF ValidCall(c) THEN Append(queue, c) ELSE queue

Rpc(p, c) ==
    /\ calls' = [calls EXCEPT ![p] = IF conn[p] = "failed" THEN @ ELSE Asked(@, c)]
    /\ conn' = [conn EXCEPT ![p] = IF @ = "none" THEN "opening" ELSE @]
    /\ UNCHANGED db

Acts(p) == acts[p] < MaxActs[app] /\ acts' = [acts EXCEPT ![p] = @ + 1]

SendTo(p, payload) == link' = [link EXCEPT ![Other(p)] = Append(@, payload)]

(* openDb(), once for a page. A failure is kept: every call waiting and     *)
(* every later one is refused.                                              *)
DbOpens(p) ==
    /\ conn[p] = "opening"
    /\ \/ conn' = [conn EXCEPT ![p] = "open"] /\ UNCHANGED calls
       \/ conn' = [conn EXCEPT ![p] = "failed"] /\ calls' = [calls EXCEPT ![p] = <<>>]
    /\ UNCHANGED <<app, st, link, db, boundVars>>

-----------------------------------------------------------------------------
(* The local vault. Its keys are "vault/" and a name; names stand for them. *)

(* A slip: the rows are not cleared first.                                  *)
Slip_Cleared(list) == list

(* listEl.replaceChildren()                                                 *)
Cleared(list) == <<>>

(* refreshList() gets the files one after the other, in the order of keys.  *)
Rows(queue, names) ==
    IF names = {} THEN queue
    ELSE LET first == CHOOSE n \in names : TRUE
         IN  Append(queue, CallOn("get", first, [do |-> "row", rest |-> names \ {first}]))

Refreshing(queue) == \E i \in DOMAIN queue : queue[i].then.do \in {"listed", "row"}

(* What an answered call's handler does, to the add-on's state and to its   *)
(* calls.                                                                   *)
VaultGoesOn(s, queue, c, answer) ==
    CASE c.then.do = "refresh" -> [s |-> s, queue |-> Asked(queue, Call("list", [do |-> "listed"]))]
      [] c.then.do = "listed" -> [s |-> [s EXCEPT !.list = Cleared(@)], queue |-> Rows(queue, answer)]
      [] c.then.do = "row" ->
            [s |-> [s EXCEPT !.list = @ \o SetToSeq({<<c.key, v>> : v \in answer})],
             queue |-> Rows(queue, c.then.rest)]

VaultActs(p) ==
    /\ Acts(p)
    /\ \/ \* btn-add
          /\ st[p].initialized
          /\ \E n \in Names, v \in Contents : Rpc(p, CallPut(n, v, [do |-> "refresh"]))
          /\ UNCHANGED <<st, link>>
       \/ \* delete, in the row of a file
          /\ \E i \in DOMAIN st[p].list : Rpc(p, CallOn("delete", st[p].list[i][1], [do |-> "refresh"]))
          /\ UNCHANGED <<st, link>>
       \/ \* send to peer, in the row: what the row was made of
          /\ \E i \in DOMAIN st[p].list : SendTo(p, st[p].list[i])
          /\ UNCHANGED <<st, storageVars>>
       \/ \* save to vault, of a received file
          /\ \E f \in st[p].inbox : Rpc(p, CallPut(f[1], f[2], [do |-> "refresh"]))
          /\ UNCHANGED <<st, link>>
    /\ UNCHANGED <<app, reloads, missed, disturbed>>

(* sendToPeer()'s frame and handleIncoming()'s reading of it: two bytes of  *)
(* length, the name, the file. Nothing is read of a frame that is too short.*)
Frame(name, body) == <<Len(name) % 256, Len(name) \div 256>> \o name \o body
Unframed(frame) ==
    {<<SubSeq(frame, 3, 2 + n), SubSeq(frame, 3 + n, Len(frame))>> :
        n \in {m \in {IF Len(frame) < 2 THEN Len(frame) ELSE frame[1] + 256 * frame[2]} : 2 + m <= Len(frame)}}

-----------------------------------------------------------------------------
(* The whiteboard.                                                          *)

WhiteboardGoesOn(s, queue, c, answer) ==
    [s |-> IF c.then.do = "load" /\ answer # {}
           THEN LET snap == CHOOSE v \in answer : TRUE
                IN  [s EXCEPT !.strokes = snap, !.ownCount = Len(snap), !.peerCount = 0]
           ELSE s,
     queue |-> queue]

WhiteboardActs(p) ==
    /\ Acts(p)
    /\ \/ \* emitOwn(), by the demo button or by drawing
          /\ st' = [st EXCEPT ![p].strokes = Append(@, p), ![p].ownCount = @ + 1]
          /\ SendTo(p, [type |-> "stroke", segment |-> p])
          /\ UNCHANGED storageVars
       \/ \* btn-clear, of one's own board
          /\ st' = [st EXCEPT ![p].strokes = <<>>, ![p].ownCount = 0, ![p].peerCount = 0]
          /\ UNCHANGED <<link, storageVars>>
       \/ Rpc(p, CallPut(Snapshot, st[p].strokes, [do |-> "saved"])) /\ UNCHANGED <<st, link>>
       \/ Rpc(p, CallOn("get", Snapshot, [do |-> "load"])) /\ UNCHANGED <<st, link>>
    /\ UNCHANGED <<app, reloads, missed, disturbed>>

-----------------------------------------------------------------------------
(* Presence: a change is sent at once, or when the throttle allows. A timer *)
(* is due when the window it was set in has passed.                         *)

(* A slip: a change that finds a timer set leaves the payload as it is.     *)
Slip_Pending(s) == IF s.pendingState # <<>> THEN s.pendingState ELSE <<s.me>>

(* emitStateChange(): the whole state replaces what is pending.             *)
Pending(s) == <<s.me>>

(* flushState(), if there is anything to send.                              *)
Flushed(s) == [s EXCEPT !.pendingState = <<>>, !.window = @ + 1, !.waiting = TRUE]

PresenceChange(p) ==
    LET changed == [st[p] EXCEPT !.me = @ + 1]
        s == [changed EXCEPT !.pendingState = Pending(changed)] IN
    /\ st[p].initialized
    /\ Acts(p)
    /\ IF st[p].waiting
       THEN st' = [st EXCEPT ![p] = [s EXCEPT !.timers = Append(@, s.window)]] /\ UNCHANGED link
       ELSE st' = [st EXCEPT ![p] = Flushed(s)] /\ SendTo(p, [type |-> "state", state |-> s.pendingState[1]])
    /\ UNCHANGED <<app, storageVars, reloads, missed, disturbed>>

(* STATE_THROTTLE_MS since the last send have passed.                       *)
WindowPasses(p) ==
    /\ app = "presence" /\ st[p].waiting
    /\ st' = [st EXCEPT ![p].waiting = FALSE]
    /\ UNCHANGED <<app, link, storageVars, boundVars>>

(* A timer sends what is pending, even if another has just sent.            *)
TimerFires(p) ==
    /\ app = "presence" /\ st[p].timers # <<>>
    /\ Head(st[p].timers) < st[p].window \/ ~st[p].waiting
    /\ LET s == [st[p] EXCEPT !.timers = Tail(@)] IN
       IF s.pendingState = <<>>
       THEN st' = [st EXCEPT ![p] = s] /\ UNCHANGED link
       ELSE /\ st' = [st EXCEPT ![p] = Flushed(s)]
            /\ SendTo(p, [type |-> "state", state |-> s.pendingState[1]])
    /\ UNCHANGED <<app, storageVars, boundVars>>

-----------------------------------------------------------------------------
(* Echo, voice-call and voice-meter.                                        *)

EchoActs(p) ==
    /\ Acts(p)
    /\ SendTo(p, [type |-> "text", echoed |-> FALSE])
    /\ UNCHANGED <<app, st, storageVars, reloads, missed, disturbed>>

(* The buttons show by the host's media.track messages, the meter by its    *)
(* audio.level ones, which come in any order here (module AddonHost).       *)
VoiceShows(p) ==
    /\ Acts(p)
    /\ \/ app = "voice-call" /\ \E on \in BOOLEAN : st' = [st EXCEPT ![p].sending = on]
       \/ app = "voice-call" /\ \E on \in BOOLEAN : st' = [st EXCEPT ![p].listening = on]
       \/ app = "voice-meter" /\ st[p].initialized /\ \E n \in 0 .. 1 : st' = [st EXCEPT ![p].level = n]
    /\ UNCHANGED <<app, link, storageVars, reloads, missed, disturbed>>

-----------------------------------------------------------------------------
(* The host's messages.                                                     *)

(* "init" answers "ready"; the vault renders its list then.                 *)
Initialize(p) ==
    /\ ~st[p].initialized
    /\ st' = [st EXCEPT ![p].initialized = TRUE]
    /\ IF app = "vault" THEN Rpc(p, Call("list", [do |-> "listed"])) ELSE UNCHANGED storageVars
    /\ UNCHANGED <<app, link, boundVars>>

(* The state of an add-on that has got a payload.                           *)
Received(s, m) ==
    CASE app = "whiteboard" -> [s EXCEPT !.strokes = Append(@, m.segment), !.peerCount = @ + 1]
      [] app = "presence" -> [s EXCEPT !.peer = m.state]
      [] app = "vault" -> [s EXCEPT !.inbox = @ \cup {m}]
      [] OTHER -> [s EXCEPT !.log = @ \cup {m.echoed}]

(* "deliver" and "deliver-bin"; the echo add-on answers what is no echo.    *)
Deliver(p) ==
    LET m == Head(link[p]) IN
    /\ link[p] # <<>>
    /\ IF ~st[p].initialized
       THEN /\ missed' = missed \cup {p}
            /\ link' = [link EXCEPT ![p] = Tail(@)]
            /\ UNCHANGED st
       ELSE /\ UNCHANGED missed
            /\ st' = [st EXCEPT ![p] = Received(@, m)]
            /\ link' = IF app = "echo" /\ ~m.echoed
                       THEN [link EXCEPT ![p] = Tail(@),
                                         ![Other(p)] = Append(@, [type |-> "text", echoed |-> TRUE])]
                       ELSE [link EXCEPT ![p] = Tail(@)]
    /\ UNCHANGED <<app, storageVars, acts, reloads, disturbed>>

(* A refreshList() that begins to show rows shows them right if it is the   *)
(* only one, whatever became of those before it.                            *)
Disturbed(p, c, queue) ==
    CASE c.then.do = "refresh" /\ Refreshing(queue) -> disturbed \cup {p}
      [] c.then.do = "listed" /\ ~Refreshing(queue) -> disturbed \ {p}
      [] OTHER -> disturbed

(* "storage.result": the transaction has run, and the handler goes on.      *)
StorageResult(p) ==
    \E i \in DOMAIN calls[p] :
        LET c == calls[p][i]
            queue == RemoveAt(calls[p], i)
            next == CASE c.then.do \in {"saved", "load"} -> WhiteboardGoesOn(st[p], queue, c, Resolved(db[p], c))
                      [] OTHER -> VaultGoesOn(st[p], queue, c, Resolved(db[p], c))
        IN  /\ conn[p] = "open" /\ MayRun(calls[p], i)
            /\ db' = [db EXCEPT ![p] = After(@, c)]
            /\ st' = [st EXCEPT ![p] = next.s]
            /\ calls' = [calls EXCEPT ![p] = next.queue]
            /\ disturbed' = Disturbed(p, c, queue)
            /\ UNCHANGED <<app, link, conn, acts, reloads, missed>>

(* The same message with an error: the transaction could not begin, or its  *)
(* request failed, a write's for the quota. The handler ends there; a       *)
(* refreshList() leaves the list as it was, cleared or with some rows.      *)
StorageFails(p) ==
    \E i \in DOMAIN calls[p] :
        /\ conn[p] = "open"
        /\ calls' = [calls EXCEPT ![p] = RemoveAt(@, i)]
        /\ disturbed' = IF calls[p][i].then.do \in {"listed", "row"} THEN disturbed \cup {p} ELSE disturbed
        /\ UNCHANGED <<app, st, link, db, conn, acts, reloads, missed>>

(* The page is reloaded; a call that was not answered has run or not.       *)
Reload(p) ==
    /\ reloads < MaxReloads
    /\ reloads' = reloads + 1
    /\ st' = [st EXCEPT ![p] = Fresh(app)]
    /\ link' = [link EXCEPT ![p] = <<>>]
    /\ missed' = missed \cup Pages
    /\ \/ UNCHANGED db
       \/ conn[p] = "open" /\ calls[p] # <<>> /\ db' = [db EXCEPT ![p] = After(@, Head(calls[p]))]
    /\ calls' = [calls EXCEPT ![p] = <<>>]
    /\ conn' = [conn EXCEPT ![p] = "none"]
    /\ disturbed' = disturbed \ {p}
    /\ UNCHANGED <<app, acts>>

UserActs(p) ==
    \/ app = "vault" /\ VaultActs(p)
    \/ app = "whiteboard" /\ WhiteboardActs(p)
    \/ app = "presence" /\ PresenceChange(p)
    \/ app = "echo" /\ EchoActs(p)
    \/ VoiceShows(p)

Next == \E p \in Pages :
    \/ UserActs(p) \/ Initialize(p) \/ Deliver(p) \/ Reload(p)
    \/ DbOpens(p) \/ StorageResult(p) \/ StorageFails(p) \/ WindowPasses(p) \/ TimerFires(p)

Spec == Init /\ [][Next]_vars

-----------------------------------------------------------------------------
(* Properties.                                                              *)

(* The vault lists what is stored, each file once, when nothing is under    *)
(* way: whatever adds, deletes, saves and reloads there were, and whichever *)
(* calls failed, unless the database did not open. The exceptions are a     *)
(* refreshList() that began while another was running, after which files    *)
(* are shown twice, and one that a failed call ended (refreshList); both    *)
(* are made good by the next that runs alone.                               *)
ListMatchesStore ==
    \A p \in Pages :
        app = "vault" /\ st[p].initialized /\ conn[p] = "open" /\ calls[p] = <<>> /\ p \notin disturbed =>
            /\ IsInjective(st[p].list)
            /\ ToSet(st[p].list) =
                  {<<k, db[p][NamespaceKey(VaultId, k)]>> : k \in ListedKeys(db[p], VaultId)}

(* The last state of a peer is what the other shows once the throttle's     *)
(* timers have fired and nothing is on its way, however many changes the    *)
(* throttle has merged, if no payload came to a page that was not ready.    *)
LastStateShown ==
    \A p \in Pages :
        app = "presence" /\ st[Other(p)].timers = <<>> /\ link[p] = <<>> /\ missed = {} =>
            st[p].peer = st[Other(p)].me

(* No call of an add-on reads or changes a record of another                *)
(* (docs/addon-storage-spec.md: "storage.clear MUST only affect the calling *)
(* add-on's namespace").                                                    *)
OthersUntouched ==
    \A p \in Pages :
        /\ \A k \in DOMAIN OtherRecord : k \in DOMAIN db[p] /\ db[p][k] = Theirs
        /\ app = "vault" => \A i \in DOMAIN st[p].list : st[p].list[i][2] # Theirs

=============================================================================
