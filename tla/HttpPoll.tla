------------------------------ MODULE HttpPoll ------------------------------
(***************************************************************************)
(* Signaling over HTTP polling: the adapters of a room                     *)
(* (packages/signaling-http-poll/src/index.ts) and a reference endpoint    *)
(* (examples/signaling-http-poll-server: node/server.mjs, php/signal.php). *)
(*                                                                         *)
(* The two endpoints compute the same thing. The Node one answers a        *)
(* request in one turn of its event loop; the PHP one runs each request in *)
(* a process of its own, which loads the queue and later saves it back.    *)
(***************************************************************************)
EXTENDS Integers, Sequences, FiniteSets, SequencesExt

CONSTANTS
    Clients,        \* the adapters, one per peer, all on one room
    Handlers,       \* the handlers a peer may subscribe
    Messages,       \* a message stands for its id too: the server gives each its own
    Author,         \* the adapter that publishes a message, [Messages -> Clients]
    Endpoints,      \* the endpoints a behaviour may start with
    Ttl,            \* ticks a message is kept for
    MaxFailures,    \* bound: requests and responses lost, [Endpoints -> Nat]
    MaxSubscribes,  \* bound: subscribe() calls per client
    Leavers,        \* bound: the clients that may unsubscribe or close
    None            \* no cursor, nobody, a queue not loaded

ASSUME MessagesAssumption == IsFiniteSet(Messages)
ASSUME AuthorIsClient == Author \in [Messages -> Clients]
ASSUME EndpointsAssumption == Endpoints \subseteq {"node", "php"}
ASSUME BoundsAssumption == 
    /\ Ttl \in Nat /\ MaxFailures \in [Endpoints -> Nat] /\ MaxSubscribes \in Nat
    /\ Leavers \subseteq Clients
ASSUME NoneAssumption == None \notin Messages \cup Clients

VARIABLES
    \* the endpoint
    endpoint,   \* "node" or "php"; never changes
    queue,      \* the room's queue
    age,        \* ticks since a message was stored, up to Ttl + 1
    requests,   \* requests on their way, or in a PHP process
    \* the adapters
    life,       \* "open", "closing" while close() awaits the loop, "closed"
    post,       \* each publish(): "new", "posting", "answered", "resolved", "rejected"
    handlers,   \* RoomState.handlers; there is a RoomState while some handler is there
    delivered,  \* RoomState.delivered
    cursor,     \* RoomState.cursor
    loop,       \* the poll loop: "none", "waiting", "fetching", "replied"
    reply,      \* the messages of the response that awaits the loop
    failures,
    subscribes,
    \* history
    log,        \* messages in the order the endpoint stored them
    given,      \* what each handler was given since it subscribed, in order
    heard       \* messages ever handed to some handler of a client

server == <<endpoint, queue, age, requests>>
rooms == <<handlers, delivered, cursor, loop, reply>>
history == <<log, given, heard>>
vars == <<server, life, post, rooms, failures, subscribes, history>>

Get(c) == [kind |-> "get", of |-> c, since |-> cursor[c], snapshot |-> None]
Post(m) == [kind |-> "post", of |-> m, since |-> None, snapshot |-> None]

(* A request whose client has aborted: the endpoint may answer it all the same. *)
Orphaned(rs, c) ==
    {IF r.kind = "get" /\ r.of = c THEN [r EXCEPT !.of = None] ELSE r : r \in rs}

Init ==
    /\ endpoint \in Endpoints
    /\ queue = <<>>
    /\ age = [m \in Messages |-> 0]
    /\ requests = {}
    /\ life = [c \in Clients |-> "open"]
    /\ post = [m \in Messages |-> "new"]
    /\ handlers = [c \in Clients |-> {}]
    /\ delivered = [c \in Clients |-> {}]
    /\ cursor = [c \in Clients |-> None]
    /\ loop = [c \in Clients |-> "none"]
    /\ reply = [c \in Clients |-> <<>>]
    /\ failures = 0
    /\ subscribes = [c \in Clients |-> 0]
    /\ log = <<>>
    /\ given = [c \in Clients |-> [h \in Handlers |-> <<>>]]
    /\ heard = [c \in Clients |-> {}]

-----------------------------------------------------------------------------
(* The endpoint *)

Stored == ToSet(log)
Expired(m) == age[m] > Ttl

(* What a filter() keeps of a list, the messages of ms, in their order. *)
Only(ms, items) ==
    LET kept[i \in 0..Len(items)] ==
            IF i = 0 THEN <<>>
            ELSE IF items[i] \in ms THEN Append(kept[i - 1], items[i]) ELSE kept[i - 1]
    IN  kept[Len(items)]

(* pruneTtl, load_queue *)
Pruned(items) == Only({m \in Messages : ~Expired(m)}, items)

(* Everything after the cursor; everything when the cursor is not there. *)
Newer(items, since) ==
    IF since \in ToSet(items)
    THEN SubSeq(items, 1 + CHOOSE i \in DOMAIN items : items[i] = since, Len(items))
    ELSE items

(* What a request leaves in the queue. A GET saves the list it returns. *)
Saved(r, items) == IF r.kind = "post" THEN Append(items, r.of) ELSE Newer(items, r.since)

(* The request handler from the queue it has loaded to the response. *)
Answer(r, items) ==
    /\ queue' = Saved(r, items)
    /\ requests' = requests \ {r}
    /\ IF r.kind = "post"
       THEN /\ log' = Append(log, r.of)
            /\ post' = [post EXCEPT ![r.of] = IF @ = "posting" THEN "answered" ELSE @]
            /\ UNCHANGED <<loop, reply>>
       ELSE /\ IF r.of = None
               THEN UNCHANGED <<loop, reply>>
               ELSE /\ loop' = [loop EXCEPT ![r.of] = "replied"]
                    /\ reply' = [reply EXCEPT ![r.of] = Saved(r, items)]
            /\ UNCHANGED <<log, post>>
    /\ UNCHANGED <<endpoint, age, life, handlers, delivered, cursor, failures, subscribes,
                   given, heard>>

(* node/server.mjs, POST and GET *)
Serve(r) ==
    /\ endpoint = "node"
    /\ Answer(r, Pruned(queue))

(* php/signal.php, up to load_queue *)
Load(r) ==
    /\ endpoint = "php"
    /\ r.snapshot = None
    /\ requests' = (requests \ {r}) \cup {[r EXCEPT !.snapshot = Pruned(queue)]}
    /\ UNCHANGED <<endpoint, queue, age, life, post, rooms, failures, subscribes, history>>

(* php/signal.php, from save_queue *)
Save(r) ==
    /\ endpoint = "php"
    /\ r.snapshot # None
    /\ Answer(r, r.snapshot)

Tick ==
    /\ \E m \in Stored : ~Expired(m)
    /\ age' = [m \in Messages |->
                  IF m \in Stored /\ ~Expired(m) THEN age[m] + 1 ELSE age[m]]
    /\ UNCHANGED <<endpoint, queue, requests, life, post, rooms, failures, subscribes, history>>

-----------------------------------------------------------------------------
(* publish *)
Publish(m) ==
    /\ post[m] = "new"
    /\ IF life[Author[m]] = "open"
       THEN /\ post' = [post EXCEPT ![m] = "posting"]
            /\ requests' = requests \cup {Post(m)}
       ELSE /\ post' = [post EXCEPT ![m] = "rejected"]
            /\ UNCHANGED requests
    /\ UNCHANGED <<endpoint, queue, age, life, rooms, failures, subscribes, history>>

(* Definitions named Slip_* are plausible mistakes: each replaces the definition
   it stands before to show that a property notices the difference. *)
Slip_Resolve(m) ==
    /\ post[m] = "answered"
    /\ post' = [post EXCEPT ![m] = "resolved"]
    /\ cursor' = [cursor EXCEPT ![Author[m]] = m]
    /\ UNCHANGED <<server, life, handlers, delivered, loop, reply, failures, subscribes,
                   history>>

(* publish() after its await, with res.ok *)
Resolve(m) ==
    /\ post[m] = "answered"
    /\ post' = [post EXCEPT ![m] = "resolved"]
    /\ UNCHANGED <<server, life, rooms, failures, subscribes, history>>

(* fetch fails, or the response is an error: the message may be stored or not. *)
Reject(m) ==
    /\ post[m] \in {"posting", "answered"}
    /\ failures < MaxFailures[endpoint]
    /\ failures' = failures + 1
    /\ post' = [post EXCEPT ![m] = "rejected"]
    /\ requests' \in {requests, requests \ {Post(m)}}
    /\ UNCHANGED <<endpoint, queue, age, life, rooms, subscribes, history>>

-----------------------------------------------------------------------------
(* subscribe and its Unsubscribe *)

(* A first handler makes a new RoomState and starts its loop. *)
Subscribe(c, h) ==
    /\ life[c] = "open"
    /\ subscribes[c] < MaxSubscribes
    /\ h \notin handlers[c]
    /\ subscribes' = [subscribes EXCEPT ![c] = @ + 1]
    /\ handlers' = [handlers EXCEPT ![c] = @ \cup {h}]
    /\ given' = [given EXCEPT ![c][h] = <<>>]
    /\ IF handlers[c] = {}
       THEN /\ delivered' = [delivered EXCEPT ![c] = {}]
            /\ cursor' = [cursor EXCEPT ![c] = None]
            /\ loop' = [loop EXCEPT ![c] = "waiting"]
       ELSE UNCHANGED <<delivered, cursor, loop>>
    /\ UNCHANGED <<server, life, post, reply, failures, log, heard>>

(* The last handler to go takes the RoomState and its loop along. *)
Unsubscribe(c, h) ==
    /\ c \in Leavers
    /\ life[c] = "open"
    /\ h \in handlers[c]
    /\ handlers' = [handlers EXCEPT ![c] = @ \ {h}]
    /\ IF handlers[c] = {h}
       THEN /\ loop' = [loop EXCEPT ![c] = "none"]
            /\ reply' = [reply EXCEPT ![c] = <<>>]
            /\ requests' = Orphaned(requests, c)
       ELSE UNCHANGED <<loop, reply, requests>>
    /\ UNCHANGED <<endpoint, queue, age, life, post, delivered, cursor, failures, subscribes,
                   history>>

-----------------------------------------------------------------------------
(* runPollLoop and pollOnce *)

Poll(c) ==
    /\ loop[c] = "waiting"
    /\ life[c] = "open"
    /\ loop' = [loop EXCEPT ![c] = "fetching"]
    /\ requests' = requests \cup {Get(c)}
    /\ UNCHANGED <<endpoint, queue, age, life, post, handlers, delivered, cursor, reply,
                   failures, subscribes, history>>

Slip_PollFails(c) ==
    /\ loop[c] \in {"fetching", "replied"}
    /\ failures < MaxFailures[endpoint]
    /\ failures' = failures + 1
    /\ loop' = [loop EXCEPT ![c] = "none"]
    /\ requests' = Orphaned(requests, c)
    /\ UNCHANGED <<endpoint, queue, age, life, post, handlers, delivered, cursor, reply,
                   subscribes, history>>

(* The fetch fails, or its response is lost: the error is swallowed. *)
PollFails(c) ==
    /\ loop[c] \in {"fetching", "replied"}
    /\ failures < MaxFailures[endpoint]
    /\ failures' = failures + 1
    /\ loop' = [loop EXCEPT ![c] = IF life[c] = "open" THEN "waiting" ELSE "none"]
    /\ reply' = [reply EXCEPT ![c] = <<>>]
    /\ requests' \in {Orphaned(requests, c),
                      {r \in requests : ~(r.kind = "get" /\ r.of = c)}}
    /\ UNCHANGED <<endpoint, queue, age, life, post, handlers, delivered, cursor, subscribes,
                   history>>

Slip_Fresh(c) == reply[c]

(* The de-duplication by id. *)
Fresh(c) == Only(Messages \ delivered[c], reply[c])

(* pollOnce after the body has arrived. *)
Process(c) ==
    /\ loop[c] = "replied"
    /\ delivered' = [delivered EXCEPT ![c] = @ \cup ToSet(reply[c])]
    /\ given' = [given EXCEPT ![c] = [h \in Handlers |->
                    IF h \in handlers[c] THEN @[h] \o Fresh(c) ELSE @[h]]]
    /\ heard' = [heard EXCEPT ![c] = @ \cup ToSet(Fresh(c))]
    /\ cursor' = [cursor EXCEPT ![c] = IF reply[c] = <<>> THEN @ ELSE Last(reply[c])]
    /\ reply' = [reply EXCEPT ![c] = <<>>]
    /\ loop' = [loop EXCEPT ![c] = IF life[c] = "open" THEN "waiting" ELSE "none"]
    /\ UNCHANGED <<server, life, post, handlers, failures, subscribes, log>>

-----------------------------------------------------------------------------
(* close(): the loops are aborted; a body that has arrived may still be handled. *)
Close(c) ==
    /\ c \in Leavers
    /\ life[c] = "open"
    /\ life' = [life EXCEPT ![c] = "closing"]
    /\ requests' = Orphaned(requests, c)
    /\ \/ /\ loop' = [loop EXCEPT ![c] = "none"]
          /\ reply' = [reply EXCEPT ![c] = <<>>]
       \/ /\ loop[c] = "replied"
          /\ UNCHANGED <<loop, reply>>
    /\ UNCHANGED <<endpoint, queue, age, post, handlers, delivered, cursor, failures,
                   subscribes, history>>

(* close() after its await: every loop has ended. *)
Closed(c) ==
    /\ life[c] = "closing"
    /\ loop[c] = "none"
    /\ life' = [life EXCEPT ![c] = "closed"]
    /\ UNCHANGED <<server, post, rooms, failures, subscribes, history>>

-----------------------------------------------------------------------------
Next ==
    \/ Tick
    \/ \E r \in requests : Serve(r) \/ Load(r) \/ Save(r)
    \/ \E m \in Messages : Publish(m) \/ Resolve(m) \/ Reject(m)
    \/ \E c \in Clients, h \in Handlers : Subscribe(c, h) \/ Unsubscribe(c, h)
    \/ \E c \in Clients : Poll(c) \/ PollFails(c) \/ Process(c) \/ Close(c) \/ Closed(c)

Spec == Init /\ [][Next]_vars

(* The loop of an open adapter polls again and again, and a request that is not
   lost is answered. Nothing obliges anybody to publish, to subscribe or to close,
   nor the clock to advance. *)
Fairness ==
    /\ \A c \in Clients : WF_vars(Poll(c)) /\ WF_vars(Process(c))
    /\ \A c \in Clients :
          WF_vars(\E r \in requests : r.kind = "get" /\ r.of = c /\ (Serve(r) \/ Save(r)))

FairSpec == Spec /\ Fairness

-----------------------------------------------------------------------------
Request ==
    [kind: {"get"}, of: Clients \cup {None}, since: Messages \cup {None},
     snapshot: Seq(Messages) \cup {None}]
    \cup [kind: {"post"}, of: Messages, since: {None}, snapshot: Seq(Messages) \cup {None}]

(* Every variable has its type. *)
TypeOK ==
    /\ endpoint \in {"node", "php"}
    /\ queue \in Seq(Messages)
    /\ age \in [Messages -> 0..(Ttl + 1)]
    /\ requests \subseteq Request
    /\ life \in [Clients -> {"open", "closing", "closed"}]
    /\ post \in [Messages -> {"new", "posting", "answered", "resolved", "rejected"}]
    /\ handlers \in [Clients -> SUBSET Handlers]
    /\ delivered \in [Clients -> SUBSET Messages]
    /\ cursor \in [Clients -> Messages \cup {None}]
    /\ loop \in [Clients -> {"none", "waiting", "fetching", "replied"}]
    /\ reply \in [Clients -> Seq(Messages)]
    /\ failures \in Nat
    /\ subscribes \in [Clients -> Nat]
    /\ log \in Seq(Messages)
    /\ given \in [Clients -> [Handlers -> Seq(Messages)]]
    /\ heard \in [Clients -> SUBSET Messages]

(* The adapter keeps the promises of the SignalingTransport interface, over either
   endpoint: no message twice to one subscription, none before it was stored,
   none after close(), no publish() resolved before its message was stored. *)
Transport == INSTANCE SignalingTransport WITH
    outcome <- [m \in Messages |->
                   CASE post[m] = "new" -> "none"
                     [] post[m] \in {"posting", "answered"} -> "pending"
                     [] OTHER -> post[m]],
    reached <- Stored

KeepsContract == Transport!Spec

(* A promise the interface does not make, and the Node endpoint does: each handler
   is given the messages in the order in which they were stored, whatever
   other clients' GETs remove from the queue in between. *)
Position(m) == CHOOSE i \in DOMAIN log : log[i] = m

StoredOrder ==
    endpoint = "node" =>
        \A c \in Clients, h \in Handlers : \A i, j \in DOMAIN given[c][h] :
            i < j => Position(given[c][h][i]) < Position(given[c][h][j])

(* A message leaves the Node endpoint's queue before its time only once some
   client's handlers have been given it. *)
RemovedOnceHeard ==
    [][endpoint = "node" =>
          \A m \in ToSet(queue) \ ToSet(queue') :
              Expired(m) \/ \E c \in Clients : m \in heard[c]]_vars

(* Something gets through: while somebody stays subscribed, a stored message is
   given to some client, unless it expires first. *)
SomebodyHears ==
    \A m \in Messages :
        (endpoint = "node" /\ m \in Stored)
            ~> \/ \E c \in Clients : m \in heard[c]
               \/ Expired(m)
               \/ \A c \in Clients : handlers[c] = {} \/ life[c] # "open"

(* "TTL: 60 seconds, swept lazily on every read/write" (node/server.mjs): a
   message leaves the queue because its time is over, and for nothing else.
   Violated: a GET drops what its own client has read. *)
OnlyTimeRemoves ==
    [][\A m \in ToSet(queue) \ ToSet(queue') : Expired(m)]_vars

=============================================================================
