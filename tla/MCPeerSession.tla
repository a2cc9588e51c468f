---------------------------- MODULE MCPeerSession ----------------------------
(* Model values and bounds for PeerSession. *)
EXTENDS PeerSession

CONSTANTS alice, bob, carol

\* The bounds on track changes.
InviterChanges == [p \in Peers |-> IF p = alice THEN 1 ELSE 0]
JoinerChanges == [p \in Peers |-> IF p = bob THEN 1 ELSE 0]
BothChange == [p \in Peers |-> 1]

(* The bounds of MCNegotiation.cfg: a track change of the joiner's and a publish()
   that fails, or else candidates and a path that may break; or a track change of
   each and two offers of each, with nothing that fails or closes. All of it together
   is beyond TLC, and two negotiations that overlap may go on for ever. Every fair
   behaviour of the constrained graph is one of PeerSession. *)
Undisturbed ==
    /\ lost = 0
    /\ broken = {}
    /\ \A p \in Peers : gathered[p] = 0 /\ state[p] # "closed" /\ offers[p] <= 2

OneDisturbance ==
    /\ \/ wanted[bob] = 0 /\ lost = 0
       \/ broken = {} /\ \A p \in Peers : gathered[p] = 0
    /\ wanted[alice] = 2 => Undisturbed

=============================================================================
