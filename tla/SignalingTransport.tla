------------------------- MODULE SignalingTransport -------------------------
(***************************************************************************)
(* What a SignalingTransport promises (packages/protocol/src/signaling.ts, *)
(* the conformance comment of the interface): publish() resolves only once *)
(* the message has reached the transport; a handler is given each message  *)
(* of its room once, and none that was never published; close() ends       *)
(* every delivery. Nothing is promised about order, nor that a message     *)
(* reaches anybody.                                                        *)
(***************************************************************************)
EXTENDS Naturals, Sequences, FiniteSets, SequencesExt

CONSTANTS
    Clients,    \* the adapters, one per peer, on one room
    Handlers,   \* the handlers a peer subscribes
    Messages,
    Author      \* the adapter that publishes a message, [Messages -> Clients]

VARIABLES
    life,       \* "open", "closing" while close() is pending, "closed"
    outcome,    \* of each message's publish(): "none", "pending", "resolved", "rejected"
    reached,    \* messages that have reached the transport
    handlers,   \* subscribed handlers
    given       \* what each handler has been given since it subscribed, in order

vars == <<life, outcome, reached, handlers, given>>

Init ==
    /\ life = [c \in Clients |-> "open"]
    /\ outcome = [m \in Messages |-> "none"]
    /\ reached = {}
    /\ handlers = [c \in Clients |-> {}]
    /\ given = [c \in Clients |-> [h \in Handlers |-> <<>>]]

Publish(m) ==
    /\ outcome[m] = "none"
    /\ outcome' = [outcome EXCEPT
                   ![m] = IF life[Author[m]] = "open" THEN "pending" ELSE "rejected"]
    /\ UNCHANGED <<life, reached, handlers, given>>

(* A publish() that its author gave up may still reach the transport. *)
Reach(m) ==
    /\ outcome[m] \in {"pending", "rejected"}
    /\ reached' = reached \cup {m}
    /\ UNCHANGED <<life, outcome, handlers, given>>

(* One event may settle several: they wait for one socket, say. *)
Settle(ms) ==
    /\ \A m \in ms : outcome[m] = "pending"
    /\ \E result \in [ms -> {"resolved", "rejected"}] :
          /\ \A m \in ms : result[m] = "resolved" => m \in reached
          /\ outcome' = [m \in Messages |-> IF m \in ms THEN result[m] ELSE outcome[m]]
    /\ UNCHANGED <<life, reached, handlers, given>>

Subscribe(c, h) ==
    /\ life[c] = "open"
    /\ h \notin handlers[c]
    /\ handlers' = [handlers EXCEPT ![c] = @ \cup {h}]
    /\ given' = [given EXCEPT ![c][h] = <<>>]
    /\ UNCHANGED <<life, outcome, reached>>

Unsubscribe(c, h) ==
    /\ life[c] = "open"
    /\ handlers' = [handlers EXCEPT ![c] = @ \ {h}]
    /\ UNCHANGED <<life, outcome, reached, given>>

(* Some messages are handed to every handler of an adapter, in any order. *)
Hand(c, ms) ==
    /\ ToSet(ms) \subseteq reached
    /\ IsInjective(ms)
    /\ \A h \in handlers[c] : ToSet(ms) \cap ToSet(given[c][h]) = {}
    /\ given' = [given EXCEPT ![c] = [h \in Handlers |->
                    IF h \in handlers[c] THEN @[h] \o ms ELSE @[h]]]
    /\ UNCHANGED <<life, outcome, reached, handlers>>

Handle(c, ms) == life[c] # "closed" /\ Hand(c, ms)

Close(c) ==
    /\ life[c] = "open"
    /\ life' = [life EXCEPT ![c] = "closing"]
    /\ UNCHANGED <<outcome, reached, handlers, given>>

Closed(c) ==
    /\ life[c] = "closing"
    /\ life' = [life EXCEPT ![c] = "closed"]
    /\ UNCHANGED <<outcome, reached, handlers, given>>

Next ==
    \/ \E m \in Messages : Publish(m) \/ Reach(m)
    \/ \E ms \in SUBSET Messages : Settle(ms)
    \/ \E c \in Clients, h \in Handlers : Subscribe(c, h) \/ Unsubscribe(c, h)
    \/ \E c \in Clients, ms \in SeqOf(Messages, Cardinality(Messages)) : Handle(c, ms)
    \/ \E c \in Clients : Close(c) \/ Closed(c)

Spec == Init /\ [][Next]_vars

=============================================================================
