------------------------------ MODULE MCNostr ------------------------------
(* One message crosses two relays to a peer that subscribes, leaves and    *)
(* comes back.                                                             *)
EXTENDS Nostr

CONSTANTS alice, bob, m1

TheAuthor == [m \in Messages |-> alice]
(* A v1 peer and a v2 peer, or two v2 peers. *)
TheModes == {[c \in {alice, bob} |-> IF c = alice THEN v ELSE "v2"] : v \in {"v1", "v2"}}

TwoRelays == <<"r1", "r2">>

(* The author closes only in behaviours in which nobody listens: its close *)
(* is a hazard to its own publish(), not to what others receive.           *)
OneLeaves == life[alice] # "open" => used[bob] = 0 /\ life[bob] = "open"
=============================================================================
