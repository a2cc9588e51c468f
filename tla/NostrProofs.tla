---------------------------- MODULE NostrProofs ----------------------------
(***************************************************************************)
(* publish() counts the relays it has sent its event to while it walks,    *)
(* and the refusals as they come. That a rejection for refusals means a    *)
(* refusal of every one of those relays rests, for an event no relay has   *)
(* refused twice over, on each refusal that is counted being a relay's of  *)
(* its own: one it sent, or one a failing send stands for, wherever the    *)
(* answers meet the walk (IInv). What reaches the handlers rests on one    *)
(* rooms entry having handlers at a time and on its set of seen ids, where *)
(* an event is put before it is decoded (DInv), and on nothing being sent, *)
(* answered or forwarded before the known-answer test and a relay have     *)
(* passed it (SInv). Together they show that the adapter implements the    *)
(* SignalingTransport contract.                                            *)
(***************************************************************************)
EXTENDS Nostr, FiniteSetTheorems, WellFoundedInduction, SequenceTheorems, TLAPS

Frames ==
    [type : {"OK"}, event : Messages, ok : BOOLEAN]
    \cup [type : {"EVENT"}, sub : Subs, event : Events]

PubTypes ==
    [phase : {"idle", "encoding", "walking", "acking", "resolved", "rejected"},
     ack : {"open", "ok", "nacked", "timeout"}, relayCount : Int, nacked : Nat]

RelayTypes ==
    /\ inbox \in [Clients -> [Relays -> SUBSET Messages]]
    /\ wire \in [Clients -> [Relays -> SUBSET Frames]]
    /\ subscribed \in [Clients -> [Relays -> SUBSET Subs]]
    /\ refusals \in [Messages -> SUBSET Relays]

TypeOK ==
    /\ RelayTypes
    /\ subId \in [Clients -> Subs \cup {None}]
    /\ used \in [Clients -> Nat]
    /\ walk \in [Walks -> 1 .. Done]
    /\ pub \in [Messages -> PubTypes]

Nack(m) == [type |-> "OK", event |-> m, ok |-> FALSE]

(* A message is at relay r, or has been refused by it.                      *)
Seen(m, r) == m \in inbox[Author[m]][r] \/ r \in refusals[m]

(* Only publish() sends a message: to relays it has walked past.            *)
Behind ==
    \A m \in Messages, i \in 1 .. Len(RelayOrder) : Seen(m, RelayOrder[i]) =>
        pub[m].phase \notin {"idle", "encoding"} /\ i < walk[m]

WalkingWaits == \A m \in Messages : walk[m] # Done => pub[m].phase = "walking"

(* A relay answers a message when it takes it; to refuse it again it need   *)
(* not have it.                                                             *)
AnsweredOnce ==
    \A c \in Clients, r \in Relays, m \in Messages :
        /\ m \in inbox[c][r] => c = Author[m] /\ r \notin refusals[m]
        /\ Nack(m) \in wire[c][r] => c = Author[m] /\ r \in refusals[m]

(* The refusals that are not on their way any more.                         *)
Arrived(m) == {r \in refusals[m] : Nack(m) \notin wire[Author[m]][r]}
Counted == \A m \in Messages \ repeated : pub[m].nacked <= Cardinality(Arrived(m))

Refused ==
    \A m \in Messages : pub[m].ack = "nacked" =>
        /\ pub[m].phase = "rejected"
        /\ m \in repeated \/ Cardinality(refusals[m]) >= pub[m].relayCount

IInv == TypeOK /\ Behind /\ WalkingWaits /\ AnsweredOnce /\ Counted /\ Refused

-----------------------------------------------------------------------------
(* The constants: relays are the numbers of the order, and finitely many.   *)
LEMMA Order ==
    /\ RelayOrder \in [1 .. Len(RelayOrder) -> Relays]
    /\ Len(RelayOrder) \in Nat
    /\ \A r \in Relays : \E i \in 1 .. Len(RelayOrder) : r = RelayOrder[i]
    /\ \A i, j \in 1 .. Len(RelayOrder) : RelayOrder[i] = RelayOrder[j] => i = j
<1>1. RelayOrder \in Seq(STRING) /\ IsInjective(RelayOrder)
  BY NostrConstants
<1>2. Len(RelayOrder) \in Nat /\ DOMAIN RelayOrder = 1 .. Len(RelayOrder)
      /\ RelayOrder = [i \in DOMAIN RelayOrder |-> RelayOrder[i]]
  BY <1>1
<1> QED
  BY <1>1, <1>2 DEF Relays, ToSet, IsInjective

LEMMA RelaysFinite == IsFiniteSet(Relays)
<1>1. RelayOrder \in Surjection(1 .. Len(RelayOrder), Relays)
  BY Order DEF Surjection
<1>2. IsFiniteSet(1 .. Len(RelayOrder))
  BY Order, FS_Interval
<1> QED
  BY <1>1, <1>2, FS_Surjection

LEMMA Finite ==
    ASSUME NEW S, S \subseteq Relays
    PROVE  IsFiniteSet(S) /\ Cardinality(S) \in Nat
BY RelaysFinite, FS_Subset, FS_CardinalityType

(* Induction: a set of numbers has a least one.                             *)
LEMMA LeastNumber ==
    ASSUME NEW W, W \subseteq Nat, W # {}
    PROVE  \E n \in W : \A k \in W : n <= k
<1>1. PICK top \in W : TRUE
  OBVIOUS
<1> DEFINE B == {0 .. n : n \in W \cap 0 .. top}
<1>2. IsWellFoundedOn(StrictSubsetOrdering(0 .. top), SUBSET (0 .. top))
  <2>1. IsFiniteSet(0 .. top)
    BY <1>1, FS_Interval
  <2> QED
    BY <2>1, FS_StrictSubsetOrderingWellFounded, FS_FiniteSubsetsOfFinite
<1>3. B \subseteq SUBSET (0 .. top) /\ B # {}
  BY <1>1
<1>4. PICK T \in B : \A U \in B : ~ (<<U, T>> \in StrictSubsetOrdering(0 .. top))
  <2> HIDE DEF B
  <2> QED
    BY <1>2, <1>3, WFMin
<1>5. PICK n \in W \cap 0 .. top : T = 0 .. n
  OBVIOUS
<1>6. ASSUME NEW k \in W, ~ (n <= k) PROVE FALSE
  <2>1. k \in Nat /\ n \in Nat /\ top \in Nat /\ k < n /\ k \in 0 .. top
    BY <1>1, <1>5, <1>6
  <2>2. 0 .. k \subseteq 0 .. n /\ 0 .. k # 0 .. n /\ 0 .. n \subseteq 0 .. top
    BY <1>5, <2>1
  <2>3. 0 .. k \in B /\ <<0 .. k, 0 .. n>> \in StrictSubsetOrdering(0 .. top)
    BY <1>6, <2>1, <2>2 DEF StrictSubsetOrdering
  <2> QED
    BY <1>4, <1>5, <2>3
<1> QED
  BY <1>5, <1>6

(* A walk that is at relay i next waits at a relay from i on, if at any.    *)
LEMMA NextWaitRange ==
    ASSUME NEW socks, NEW i \in 1 .. Done
    PROVE  NextWait(socks, i) \in i .. Done
<1> DEFINE S == {j \in i .. Len(RelayOrder) : socks[RelayOrder[j]] # "open"} \cup {Done}
<1>1. S \subseteq Nat /\ S # {} /\ S \subseteq i .. Done
  BY Order DEF Done
<1>3. PICK x \in S : \A y \in S : x <= y
  BY <1>1, LeastNumber
<1>4. Min(S) \in S
  BY <1>3 DEF Min
<1> QED
  BY <1>1, <1>4 DEF NextWait

LEMMA Authors ==
    /\ Author \in [Messages -> Clients]
    /\ \A m \in Messages, c \in Clients, s \in Subs : <<c, s>> # m
<1> SUFFICES ASSUME NEW m \in Messages, NEW c \in Clients, NEW s \in Subs
             PROVE  <<c, s>> # m
  BY NostrConstants
<1>1. <<c, s>> \in Clients \X (1 .. MaxSubscribes)
  BY DEF Subs
<1> QED
  BY <1>1, NostrConstants

-----------------------------------------------------------------------------
LEMMA InitHolds == Init => IInv
<1> SUFFICES ASSUME Init PROVE IInv
  OBVIOUS
<1> USE DEF Init
<1>1. Done \in 1 .. Done
  BY Order DEF Done
<1>2. TypeOK
  BY <1>1 DEF TypeOK, RelayTypes, PubTypes
<1>3. \A m \in Messages : m \in Walks /\ refusals[m] = {} /\ Author[m] \in Clients
  BY Authors DEF Walks
<1>4. Behind
  BY <1>3, Order DEF Behind, Seen
<1>5. WalkingWaits /\ AnsweredOnce /\ Refused
  BY <1>3 DEF WalkingWaits, AnsweredOnce, Refused
<1>6. Counted
  <2> SUFFICES ASSUME NEW m \in Messages PROVE pub[m].nacked <= Cardinality(Arrived(m))
    BY DEF Counted
  <2>1. Cardinality(Arrived(m)) \in Nat
    BY <1>3, Finite DEF Arrived
  <2> QED
    BY <2>1
<1> QED
  BY <1>2, <1>4, <1>5, <1>6 DEF IInv
-----------------------------------------------------------------------------
(* A record of pub.                                                         *)
SameCounts(p, q) == q.relayCount = p.relayCount /\ q.nacked = p.nacked

LEMMA Settles ==
    ASSUME NEW p \in PubTypes
    PROVE  /\ Settled(p) \in PubTypes /\ SameCounts(p, Settled(p))
           /\ Settled(p).ack = p.ack
           /\ Settled(p).phase = IF p.phase # "acking" \/ p.ack = "open" THEN p.phase
                                 ELSE IF p.ack = "ok" THEN "resolved" ELSE "rejected"
BY DEF Settled, SameCounts, PubTypes

LEMMA Ends ==
    ASSUME NEW p \in PubTypes, p.ack # "nacked"
    PROVE  /\ Ended(p) \in PubTypes /\ SameCounts(p, Ended(p))
           /\ Ended(p).phase \in {"acking", "resolved", "rejected"}
           /\ Ended(p).ack = "nacked" => Ended(p).phase = "rejected" /\ p.nacked >= p.relayCount
           /\ Ended(p).ack \in {p.ack, "nacked"}
           /\ Ended(p).phase = "resolved" => Ended(p).ack = "ok"
<1> DEFINE q == [p EXCEPT !.phase = "acking",
                          !.ack = IF @ = "open" /\ AllRefused(p, TRUE) THEN "nacked" ELSE @]
<1>1. q \in PubTypes /\ SameCounts(p, q) /\ q.phase = "acking"
      /\ (q.ack = "nacked" => p.nacked >= p.relayCount) /\ q.ack \in {p.ack, "nacked"}
  BY DEF PubTypes, SameCounts, AllRefused
<1>2. Settled(q) \in PubTypes /\ SameCounts(q, Settled(q)) /\ Settled(q).ack = q.ack
      /\ Settled(q).phase = IF q.ack = "open" THEN "acking"
                            ELSE IF q.ack = "ok" THEN "resolved" ELSE "rejected"
  BY <1>1, Settles, ZenonT(30)
<1>3. CASE p.relayCount = 0
  BY <1>3 DEF Ended, PubTypes, SameCounts
<1>4. CASE p.relayCount # 0
  <2>1. Ended(p) = Settled(q)
    BY <1>4 DEF Ended
  <2> QED
    BY <1>1, <1>2, <2>1 DEF SameCounts
<1> QED
  BY <1>3, <1>4

LEMMA Finishes ==
    ASSUME NEW p \in PubTypes, NEW ok \in BOOLEAN
    PROVE  /\ Finish(p, ok) \in PubTypes
           /\ Finish(p, ok).relayCount = p.relayCount
           /\ Finish(p, ok).nacked \in {p.nacked} \cup (IF ok THEN {} ELSE {p.nacked + 1})
           /\ \/ Finish(p, ok).phase = p.phase
              \/ p.phase = "acking" /\ Finish(p, ok).phase \in {"resolved", "rejected"}
           /\ Finish(p, ok).ack = "nacked" =>
                  \/ Finish(p, ok) = p
                  \/ Finish(p, ok).phase = "rejected" /\ Finish(p, ok).nacked >= p.relayCount
           /\ Finish(p, ok).ack = "ok" => p.ack = "ok" \/ ok
           /\ Finish(p, ok).phase = "resolved" => p.phase = "resolved" \/ Finish(p, ok).ack = "ok"
<1>1. CASE p.phase \notin {"walking", "acking"} \/ p.ack # "open"
  BY <1>1 DEF Finish
<1>2. CASE ok /\ ~ (p.phase \notin {"walking", "acking"} \/ p.ack # "open")
  <2>1. [p EXCEPT !.ack = "ok"] \in PubTypes
    BY DEF PubTypes
  <2> QED
    BY <1>2, <2>1, Settles DEF Finish, SameCounts, PubTypes
<1>3. CASE ~ok /\ ~ (p.phase \notin {"walking", "acking"} \/ p.ack # "open")
  <2> DEFINE n == [p EXCEPT !.nacked = @ + 1]
             q == [n EXCEPT !.ack = "nacked"]
  <2>0. p.nacked + 1 \in Nat
    BY DEF PubTypes
  <2>1. n \in PubTypes /\ q \in PubTypes /\ n.nacked = p.nacked + 1 /\ n.phase = p.phase
        /\ n.ack = "open" /\ q.ack = "nacked" /\ q.phase = p.phase /\ q.nacked = p.nacked + 1
        /\ n.relayCount = p.relayCount /\ q.relayCount = p.relayCount
    BY <1>3, <2>0 DEF PubTypes
  <2>2. Finish(p, ok) = IF AllRefused(n, p.phase = "acking") THEN Settled(q) ELSE n
    BY <1>3 DEF Finish
  <2>3. CASE AllRefused(n, p.phase = "acking")
    <3>1. p.phase = "acking" /\ n.nacked >= n.relayCount
      BY <2>3 DEF AllRefused
    <3>2. Settled(q) \in PubTypes /\ SameCounts(q, Settled(q)) /\ Settled(q).phase = "rejected"
          /\ Settled(q).ack = "nacked"
      BY <2>1, <3>1, Settles
    <3> QED
      BY <1>3, <2>1, <2>2, <2>3, <3>1, <3>2 DEF SameCounts
  <2>4. CASE ~ AllRefused(n, p.phase = "acking")
    BY <1>3, <2>1, <2>2, <2>4
  <2> QED
    BY <2>3, <2>4
<1> QED
  BY <1>1, <1>2, <1>3

-----------------------------------------------------------------------------
(* The walks of an adapter go on.                                           *)
LEMMA ArrivedBound ==
    ASSUME TypeOK, NEW m \in Messages
    PROVE  /\ IsFiniteSet(Arrived(m)) /\ IsFiniteSet(refusals[m])
           /\ Cardinality(Arrived(m)) \in Nat /\ Cardinality(refusals[m]) \in Nat
           /\ Cardinality(Arrived(m)) <= Cardinality(refusals[m])
<1>1. refusals[m] \subseteq Relays /\ Arrived(m) \in SUBSET refusals[m]
  BY DEF TypeOK, RelayTypes, Arrived
<1> QED
  BY <1>1, Finite, FS_Subset

(* What a message's publish() is after the walks of a step.                 *)
Went(m) ==
    \/ pub'[m] = pub[m] /\ \A r \in Relays : Seen(m, r)' => Seen(m, r)
    \/ /\ pub[m].phase \in {"encoding", "walking"}
       /\ pub'[m].phase \in {"walking", "acking", "resolved", "rejected"}
       /\ pub'[m].ack \in {pub[m].ack, "nacked"}
       /\ pub'[m].phase = "resolved" => pub'[m].ack = "ok"

LEMMA WalkedCounts ==
    ASSUME NEW p \in PubTypes, NEW sent \in Int, NEW threw \in Nat
    PROVE  LET w == Walked(p, sent, threw)
           IN  /\ w \in PubTypes /\ w.phase = "walking" /\ w.ack = p.ack
               /\ w.nacked \in {p.nacked, p.nacked + threw}
<1>1. p.relayCount + sent \in Int /\ p.nacked + threw \in Nat
  BY DEF PubTypes
<1> QED
  BY <1>1 DEF Walked, PubTypes

LEMMA ProceedStep ==
    ASSUME IInv, NEW c \in Clients, NEW ws \in SUBSET Walks, NEW from, NEW socks, NEW broken,
           \A w \in ws : from[w] \in 1 .. Done,
           \A m \in ws \cap Messages :
               /\ Author[m] = c /\ pub[m].phase \in {"encoding", "walking"}
               /\ \A i \in 1 .. Len(RelayOrder) : Seen(m, RelayOrder[i]) => i < from[m],
           Proceed(c, ws, from, socks, broken), UNCHANGED <<wire, repeated>>
    PROVE  /\ walk' \in [Walks -> 1 .. Done]
           /\ pub' \in [Messages -> PubTypes]
           /\ inbox' \in [Clients -> [Relays -> SUBSET Messages]]
           /\ refusals' \in [Messages -> SUBSET Relays]
           /\ Behind' /\ WalkingWaits' /\ AnsweredOnce' /\ Counted' /\ Refused'
           /\ \A m \in Messages : Went(m)
<1> DEFINE to(w) == NextWait(socks, from[w])
           reached(w) == Sent(from[w], to(w))
<1>0. TypeOK /\ RelayTypes /\ Behind /\ WalkingWaits /\ AnsweredOnce /\ Counted /\ Refused
  BY DEF IInv, TypeOK
<1>1. \A w \in ws : to(w) \in from[w] .. Done /\ to(w) \in 1 .. Done /\ from[w] \in Int
  <2> SUFFICES ASSUME NEW w \in ws
               PROVE  to(w) \in from[w] .. Done /\ to(w) \in 1 .. Done /\ from[w] \in Int
    OBVIOUS
  <2>1. from[w] \in 1 .. Done
    OBVIOUS
  <2>2. to(w) \in from[w] .. Done
    BY <2>1, NextWaitRange
  <2>3. Done \in Nat
    BY Order DEF Done
  <2> QED
    BY <2>1, <2>2, <2>3
<1>2. PICK thrown \in SUBSET UNION {reached(m) : m \in ws \cap Messages} :
        /\ walk' = [w \in Walks |-> IF w \in ws THEN to(w) ELSE walk[w]]
        /\ inbox' = [inbox EXCEPT ![c] = [r \in Relays |->
                        @[r] \cup {m \in ws \cap Messages : r \in reached(m) \ thrown}]]
        /\ refusals' = [m \in Messages |->
              IF m \in ws THEN refusals[m] \cup (reached(m) \cap thrown) ELSE refusals[m]]
        /\ pub' = [m \in Messages |->
              IF m \notin ws THEN pub[m]
              ELSE LET p == Walked(pub[m], to(m) - from[m], Cardinality(reached(m) \cap thrown))
                   IN  IF to(m) = Done THEN Ended(p) ELSE p]
  BY DEF Proceed
<1> DEFINE threw(m) == reached(m) \cap thrown
           start(m) == Walked(pub[m], to(m) - from[m], Cardinality(threw(m)))
<1>3. walk' \in [Walks -> 1 .. Done]
  BY <1>0, <1>1, <1>2 DEF TypeOK
<1>4. inbox' \in [Clients -> [Relays -> SUBSET Messages]]
  BY <1>0, <1>2 DEF RelayTypes
<1>a. ASSUME NEW m \in Messages, m \in ws, NEW r \in reached(m)
      PROVE  /\ r \in Relays /\ r \notin refusals[m]
             /\ \A i \in 1 .. Len(RelayOrder) : r = RelayOrder[i] => i < to(m)
  <2>1. PICK k \in from[m] .. (to(m) - 1) : r = RelayOrder[k]
    BY DEF Sent
  <2>2. k \in 1 .. Len(RelayOrder) /\ k < to(m) /\ from[m] <= k /\ k \in Nat
    BY <1>1, <1>a, Order DEF Done
  <2>3. r \notin refusals[m]
    BY <1>1, <1>a, <2>1, <2>2 DEF Seen
  <2> QED
    BY <2>1, <2>2, <2>3, Order
<1>b. ASSUME NEW m \in Messages, m \in ws
      PROVE  /\ threw(m) \subseteq Relays /\ threw(m) \cap refusals[m] = {}
             /\ Cardinality(threw(m)) \in Nat
  BY <1>a, <1>b, Finite
<1>c. refusals' \in [Messages -> SUBSET Relays]
  BY <1>0, <1>2, <1>b DEF RelayTypes
<1>5. ASSUME NEW m \in Messages, m \in ws
      PROVE  /\ start(m) \in PubTypes /\ start(m).ack # "nacked" /\ start(m).phase = "walking"
             /\ start(m).nacked \in {pub[m].nacked, pub[m].nacked + Cardinality(threw(m))}
             /\ start(m).ack = pub[m].ack
  <2>1. pub[m] \in PubTypes /\ pub[m].ack # "nacked"
    BY <1>0, <1>5 DEF TypeOK, Refused
  <2>2. to(m) - from[m] \in Int /\ Cardinality(threw(m)) \in Nat
    BY <1>1, <1>5, <1>b
  <2> QED
    BY <2>1, <2>2, WalkedCounts
<1>6. ASSUME NEW m \in Messages, m \in ws
      PROVE  /\ pub'[m] \in PubTypes
             /\ pub'[m].nacked \in {pub[m].nacked, pub[m].nacked + Cardinality(threw(m))}
             /\ pub'[m].phase \notin {"idle", "encoding"}
             /\ to(m) # Done => pub'[m].phase = "walking"
             /\ pub'[m].ack = "nacked" =>
                    pub'[m].phase = "rejected" /\ pub'[m].nacked >= pub'[m].relayCount
             /\ pub'[m].phase \in {"walking", "acking", "resolved", "rejected"}
             /\ pub'[m].ack \in {pub[m].ack, "nacked"}
             /\ pub'[m].phase = "resolved" => pub'[m].ack = "ok"
  <2> DEFINE p == start(m)
  <2>1. pub'[m] = IF to(m) = Done THEN Ended(p) ELSE p
    BY <1>2, <1>6
  <2>2. /\ p \in PubTypes /\ p.ack # "nacked" /\ p.phase = "walking"
        /\ p.nacked \in {pub[m].nacked, pub[m].nacked + Cardinality(threw(m))}
        /\ p.ack = pub[m].ack
    BY <1>5, <1>6
  <2> HIDE DEF p
  <2> QED
    BY <2>1, <2>2, Ends DEF SameCounts
<1>7. pub' \in [Messages -> PubTypes]
  BY <1>0, <1>2, <1>6 DEF TypeOK
<1>8. \A m \in Messages : m \notin ws => pub'[m] = pub[m] /\ refusals'[m] = refusals[m]
  BY <1>2
<1>9. ASSUME NEW m \in Messages \ repeated PROVE pub'[m].nacked <= Cardinality(Arrived(m)')
  <2>0. pub[m].nacked <= Cardinality(Arrived(m)) /\ pub[m].nacked \in Nat
    BY <1>0 DEF Counted, TypeOK, PubTypes
  <2>1. CASE m \notin ws
    <3>1. Arrived(m)' = Arrived(m)
      BY <1>8, <2>1 DEF Arrived
    <3> QED
      BY <1>8, <2>0, <2>1, <3>1
  <2>2. CASE m \in ws
    <3>1. Arrived(m)' = Arrived(m) \cup threw(m) /\ Arrived(m) \cap threw(m) = {}
      <4>1. refusals'[m] = refusals[m] \cup threw(m)
        BY <1>2, <2>2
      <4>2. \A r \in threw(m) : r \in Relays /\ Nack(m) \notin wire[Author[m]][r]
        BY <1>0, <1>b, <2>2, Authors DEF AnsweredOnce
      <4>3. threw(m) \cap refusals[m] = {}
        BY <1>b, <2>2
      <4> HIDE DEF threw
      <4> QED
        BY <4>1, <4>2, <4>3 DEF Arrived
    <3>2. IsFiniteSet(Arrived(m)) /\ IsFiniteSet(threw(m)) /\ Cardinality(threw(m)) \in Nat
          /\ Cardinality(Arrived(m)) \in Nat
      BY <1>0, <1>b, <2>2, ArrivedBound, Finite
    <3> HIDE DEF threw
    <3>3. Cardinality(Arrived(m) \cup threw(m)) = Cardinality(Arrived(m)) + Cardinality(threw(m))
      <4>1. Cardinality(Arrived(m) \cap threw(m)) = 0
        BY <3>1, FS_EmptySet
      <4>2. Cardinality(Arrived(m) \cup threw(m)) =
              Cardinality(Arrived(m)) + Cardinality(threw(m)) - Cardinality(Arrived(m) \cap threw(m))
        BY <3>2, FS_Union
      <4> QED
        BY <3>2, <4>1, <4>2
    <3> QED
      BY <1>6, <2>0, <2>2, <3>1, <3>2, <3>3
  <2> QED
    BY <2>1, <2>2
<1>d. Counted'
  BY <1>9 DEF Counted
<1>10. Refused'
  <2> SUFFICES ASSUME NEW m \in Messages, pub'[m].ack = "nacked"
               PROVE  /\ pub'[m].phase = "rejected"
                      /\ m \in repeated \/ Cardinality(refusals'[m]) >= pub'[m].relayCount
    BY DEF Refused
  <2>1. CASE m \notin ws
    BY <1>0, <1>8, <2>1 DEF Refused
  <2>2. CASE m \in ws /\ m \notin repeated
    <3>1. pub'[m].nacked <= Cardinality(Arrived(m)') /\ pub'[m].nacked >= pub'[m].relayCount
          /\ pub'[m].phase = "rejected" /\ pub'[m].nacked \in Nat /\ pub'[m].relayCount \in Int
      BY <1>6, <1>7, <1>9, <2>2 DEF PubTypes
    <3>2. Arrived(m)' \in SUBSET (refusals'[m]) /\ refusals'[m] \subseteq Relays
      BY <1>c DEF Arrived
    <3>3. Cardinality(Arrived(m)') <= Cardinality(refusals'[m])
          /\ Cardinality(Arrived(m)') \in Nat /\ Cardinality(refusals'[m]) \in Nat
      BY <3>2, Finite, FS_Subset
    <3> QED
      BY <3>1, <3>3
  <2>3. CASE m \in ws /\ m \in repeated
    BY <1>6, <2>3
  <2> QED
    BY <2>1, <2>2, <2>3
<1>11. WalkingWaits'
  BY <1>0, <1>2, <1>6, <1>8 DEF WalkingWaits, Walks
<1>12. ASSUME NEW m \in Messages, NEW d \in Clients, NEW r \in Relays, m \in inbox'[d][r]
       PROVE  m \in inbox[d][r] \/ (m \in ws /\ d = c /\ r \in reached(m) \ thrown)
  BY <1>0, <1>2, <1>12 DEF RelayTypes
<1>14. AnsweredOnce'
  <2> SUFFICES ASSUME NEW d \in Clients, NEW r \in Relays, NEW m \in Messages
               PROVE  /\ m \in inbox'[d][r] => d = Author[m] /\ r \notin refusals'[m]
                      /\ Nack(m) \in wire'[d][r] => d = Author[m] /\ r \in refusals'[m]
    BY DEF AnsweredOnce
  <2>1. refusals[m] \subseteq refusals'[m] /\ refusals'[m] \subseteq refusals[m] \cup threw(m)
    BY <1>2
  <2>2. CASE m \notin ws
    BY <1>0, <1>8, <1>12, <2>2 DEF AnsweredOnce
  <2>3. CASE m \in ws
    <3>1. refusals'[m] = refusals[m] \cup (reached(m) \cap thrown)
      BY <1>2, <2>3
    <3>2. r \in reached(m) => m \notin inbox[d][r] /\ r \notin refusals[m]
      <4>1. ASSUME r \in reached(m), m \in inbox[d][r] PROVE FALSE
        <5>1. PICK k \in from[m] .. (to(m) - 1) : r = RelayOrder[k]
          BY <4>1 DEF Sent
        <5>2. k \in 1 .. Len(RelayOrder) /\ from[m] <= k /\ k \in Nat
          BY <1>1, <2>3, <5>1, Order DEF Done
        <5>3. Seen(m, RelayOrder[k])
          BY <1>0, <4>1, <5>1 DEF AnsweredOnce, Seen
        <5> QED
          BY <1>1, <2>3, <5>2, <5>3
      <4> QED
        BY <1>a, <2>3, <4>1
    <3>3. m \in inbox'[d][r] => d = Author[m] /\ r \notin refusals'[m]
      BY <1>0, <1>12, <2>3, <3>1, <3>2 DEF AnsweredOnce
    <3>4. Nack(m) \in wire'[d][r] => d = Author[m] /\ r \in refusals'[m]
      BY <1>0, <2>1 DEF AnsweredOnce
    <3> QED
      BY <3>3, <3>4
  <2> QED
    BY <2>2, <2>3
<1>15. Behind'
  <2> SUFFICES ASSUME NEW m \in Messages, NEW i \in 1 .. Len(RelayOrder), Seen(m, RelayOrder[i])'
               PROVE  pub'[m].phase \notin {"idle", "encoding"} /\ i < walk'[m]
    BY DEF Behind
  <2>1. Author[m] \in Clients /\ RelayOrder[i] \in Relays /\ m \in Walks
    BY Authors, Order DEF Walks
  <2>2. Seen(m, RelayOrder[i]) \/ (m \in ws /\ RelayOrder[i] \in reached(m))
    BY <1>2, <1>12, <2>1 DEF Seen
  <2>3. CASE m \in ws
    <3>1. walk'[m] = to(m) /\ pub'[m].phase \notin {"idle", "encoding"}
      BY <1>2, <1>6, <2>1, <2>3
    <3>2. i < to(m)
      <4>1. CASE RelayOrder[i] \in reached(m)
        BY <1>a, <2>3, <4>1
      <4>2. CASE Seen(m, RelayOrder[i])
        <5>1. i < from[m]
          BY <2>3, <4>2
        <5> QED
          BY <1>1, <2>3, <5>1
      <4> QED
        BY <2>2, <4>1, <4>2
    <3> QED
      BY <3>1, <3>2
  <2>4. CASE m \notin ws
    <3>1. walk'[m] = walk[m] /\ pub'[m] = pub[m]
      BY <1>2, <2>1, <2>4
    <3> QED
      BY <1>0, <2>2, <2>4, <3>1 DEF Behind
  <2> QED
    BY <2>3, <2>4
<1>16. ASSUME NEW m \in Messages PROVE Went(m)
  <2>1. CASE m \in ws
    BY <1>0, <1>6, <2>1 DEF Went
  <2>2. CASE m \notin ws
    <3>1. Author[m] \in Clients
      BY Authors
    <3>2. \A r \in Relays : Seen(m, r)' => Seen(m, r)
      BY <1>8, <1>12, <2>2, <3>1 DEF Seen
    <3> QED
      BY <1>8, <2>2, <3>2 DEF Went
  <2> QED
    BY <2>1, <2>2
<1> QED
  BY <1>3, <1>4, <1>7, <1>c, <1>d, <1>10, <1>11, <1>14, <1>15, <1>16

-----------------------------------------------------------------------------
(* Frames get lost, and those that are not refusals come and go.            *)
Rest == Behind /\ WalkingWaits /\ AnsweredOnce /\ Counted /\ Refused

LEMMA FramesStep ==
    ASSUME IInv, UNCHANGED <<refusals, repeated, walk, pub>>, RelayTypes',
           \A c \in Clients, r \in Relays : inbox'[c][r] \subseteq inbox[c][r],
           \A c \in Clients, r \in Relays, m \in Messages :
               Nack(m) \in wire'[c][r] => Nack(m) \in wire[c][r]
    PROVE  Rest'
<1>0. TypeOK /\ Behind /\ WalkingWaits /\ AnsweredOnce /\ Counted /\ Refused
  BY DEF IInv
<1>1. ASSUME NEW m \in Messages, NEW i \in 1 .. Len(RelayOrder), Seen(m, RelayOrder[i])'
      PROVE  Seen(m, RelayOrder[i])
  BY <1>1, Authors, Order DEF Seen
<1>2. Behind' /\ WalkingWaits' /\ AnsweredOnce' /\ Refused'
  BY <1>0, <1>1 DEF Behind, WalkingWaits, AnsweredOnce, Refused
<1>3. Counted'
  <2> SUFFICES ASSUME NEW m \in Messages \ repeated PROVE pub[m].nacked <= Cardinality(Arrived(m)')
    BY DEF Counted
  <2>1. refusals[m] \subseteq Relays /\ Author[m] \in Clients
    BY <1>0, Authors DEF TypeOK, RelayTypes
  <2>2. Arrived(m) \in SUBSET (Arrived(m)') /\ Arrived(m)' \subseteq Relays
    BY <2>1 DEF Arrived
  <2>3. Cardinality(Arrived(m)) <= Cardinality(Arrived(m)') /\ Cardinality(Arrived(m)) \in Nat
        /\ Cardinality(Arrived(m)') \in Nat
    BY <2>2, Finite, FS_Subset
  <2>4. pub[m].nacked <= Cardinality(Arrived(m)) /\ pub[m].nacked \in Nat
    BY <1>0 DEF Counted, TypeOK, PubTypes
  <2> QED
    BY <2>3, <2>4
<1> QED
  BY <1>2, <1>3 DEF Rest

(* A publish() that counts nothing goes on, or fails before its walk.       *)
LEMMA PublishGoesOn ==
    ASSUME IInv, NEW m \in Messages, UNCHANGED <<relayVars, subId, used, walk>>,
           \A n \in Messages \ {m} : pub'[n] = pub[n],
           pub' \in [Messages -> PubTypes],
           pub'[m].nacked = pub[m].nacked, pub'[m].ack # "nacked",
           pub'[m].phase \in {"idle", "encoding"} => pub[m].phase \in {"idle", "encoding"},
           walk[m] # Done => pub'[m].phase = "walking"
    PROVE  IInv'
<1>0. TypeOK /\ RelayTypes /\ Behind /\ WalkingWaits /\ AnsweredOnce /\ Counted /\ Refused
  BY DEF IInv, TypeOK
<1>1. TypeOK'
  BY <1>0 DEF TypeOK, RelayTypes, relayVars
<1>2. Behind' /\ WalkingWaits' /\ AnsweredOnce' /\ Refused'
  BY <1>0 DEF Behind, WalkingWaits, AnsweredOnce, Refused, relayVars, Seen
<1>3. \A n \in Messages : Arrived(n)' = Arrived(n) /\ pub'[n].nacked = pub[n].nacked
  BY DEF Arrived, relayVars
<1>4. Counted'
  BY <1>0, <1>3 DEF Counted, relayVars
<1> QED
  BY <1>1, <1>2, <1>4 DEF IInv

-----------------------------------------------------------------------------
(* publish()                                                                *)
LEMMA PublishStep == ASSUME IInv, NEW m \in Messages, Publish(m) PROVE IInv'
<1>1. pub \in [Messages -> PubTypes] /\ pub[m].phase = "idle" /\ pub[m].ack # "nacked" /\ walk[m] = Done
  BY DEF IInv, TypeOK, Publish, Refused, WalkingWaits
<1>2. PICK ph \in {"encoding", "rejected"} : pub' = [pub EXCEPT ![m].phase = ph]
  BY DEF Publish
<1>3. pub' \in [Messages -> PubTypes] /\ pub'[m].nacked = pub[m].nacked /\ pub'[m].ack # "nacked"
      /\ pub'[m].phase = ph
  BY <1>1, <1>2 DEF PubTypes
<1>4. UNCHANGED <<relayVars, subId, used, walk>> /\ \A n \in Messages \ {m} : pub'[n] = pub[n]
  BY <1>1, <1>2 DEF Publish, adapterVars
<1> QED
  BY <1>1, <1>3, <1>4, PublishGoesOn

LEMMA StartWalkStep == ASSUME IInv, NEW m \in Messages, StartWalk(m)
    PROVE  /\ IInv'
           /\ \/ kat[Author[m]] = "ok" /\ \A n \in Messages : Went(n)
              \/ pub' = [pub EXCEPT ![m].phase = "rejected"] /\ UNCHANGED <<inbox, refusals>>
<1>1. TypeOK /\ pub \in [Messages -> PubTypes] /\ pub[m].phase = "encoding" /\ pub[m].ack # "nacked"
      /\ walk[m] = Done /\ Author[m] \in Clients /\ m \in Walks
  BY Authors DEF IInv, TypeOK, StartWalk, Refused, WalkingWaits, Walks
<1>2. UNCHANGED <<wire, repeated, subscribed, subId, used>>
  BY DEF StartWalk, adapterVars
<1>3. CASE kat[Author[m]] = "ok" /\ Proceed(Author[m], {m}, [w \in Walks |-> 1], sockets[Author[m]], 0)
  <2> DEFINE from == [w \in Walks |-> 1]
  <2>1. \A w \in {m} : from[w] \in 1 .. Done
    BY <1>1, Order DEF Done
  <2>2. \A n \in {m} \cap Messages :
            /\ Author[n] = Author[m] /\ pub[n].phase \in {"encoding", "walking"}
            /\ \A i \in 1 .. Len(RelayOrder) : Seen(n, RelayOrder[i]) => i < from[n]
    BY <1>1 DEF IInv, Behind
  <2>3. /\ walk' \in [Walks -> 1 .. Done]
        /\ pub' \in [Messages -> PubTypes]
        /\ inbox' \in [Clients -> [Relays -> SUBSET Messages]]
        /\ refusals' \in [Messages -> SUBSET Relays]
        /\ Behind' /\ WalkingWaits' /\ AnsweredOnce' /\ Counted' /\ Refused'
        /\ \A n \in Messages : Went(n)
    <3>1. {m} \in SUBSET Walks /\ {m} \cap Messages = {m}
      BY <1>1
    <3>2. Proceed(Author[m], {m}, from, sockets[Author[m]], 0)
      BY <1>3
    <3> DEFINE socks == sockets[Author[m]]
    <3>3. PICK c \in Clients, ws \in SUBSET Walks : c = Author[m] /\ ws = {m}
      BY <1>1, <3>1
    <3>4. Proceed(c, ws, from, socks, 0) /\ UNCHANGED <<wire, repeated>>
      BY <1>2, <3>2, <3>3
    <3> HIDE DEF from, socks
    <3> QED
      BY <2>1, <2>2, <3>3, <3>4, ProceedStep, ZenonT(30)
  <2>4. TypeOK'
    BY <1>1, <1>2, <2>3 DEF TypeOK, RelayTypes
  <2> QED
    BY <1>3, <2>3, <2>4 DEF IInv
<1>4. CASE pub' = [pub EXCEPT ![m].phase = "rejected"] /\ UNCHANGED <<walk, sockets, inbox, refusals>>
  <2>1. pub' \in [Messages -> PubTypes] /\ pub'[m].nacked = pub[m].nacked
        /\ pub'[m].ack # "nacked" /\ pub'[m].phase = "rejected"
        /\ \A n \in Messages \ {m} : pub'[n] = pub[n]
    BY <1>1, <1>4 DEF PubTypes
  <2>2. UNCHANGED <<relayVars, subId, used, walk>>
    BY <1>2, <1>4 DEF StartWalk, relayVars
  <2> QED
    BY <1>1, <1>4, <2>1, <2>2, PublishGoesOn
<1> QED
  BY <1>3, <1>4 DEF StartWalk

LEMMA AckTimeoutStep == ASSUME IInv, NEW m \in Messages, AckTimeout(m) PROVE IInv'
<1> DEFINE p == [pub[m] EXCEPT !.ack = "timeout"]
<1>1. pub \in [Messages -> PubTypes] /\ pub[m].phase \in {"walking", "acking"}
      /\ (walk[m] # Done => pub[m].phase = "walking")
  BY DEF IInv, TypeOK, AckTimeout, WalkingWaits
<1>2. p \in PubTypes /\ p.nacked = pub[m].nacked /\ p.phase = pub[m].phase /\ p.ack = "timeout"
  BY <1>1 DEF PubTypes
<1>3. Settled(p) \in PubTypes /\ Settled(p).nacked = pub[m].nacked /\ Settled(p).ack = "timeout"
      /\ Settled(p).phase \in {"walking", "rejected"}
      /\ (pub[m].phase = "walking" => Settled(p).phase = "walking")
  BY <1>1, <1>2, Settles DEF SameCounts
<1>4. pub' = [pub EXCEPT ![m] = Settled(p)] /\ UNCHANGED <<relayVars, subId, used, walk>>
  BY DEF AckTimeout, adapterVars
<1> HIDE DEF p
<1>5. /\ pub' \in [Messages -> PubTypes] /\ pub'[m] = Settled(p)
      /\ \A n \in Messages \ {m} : pub'[n] = pub[n]
  BY <1>1, <1>3, <1>4
<1> QED
  BY <1>1, <1>3, <1>4, <1>5, PublishGoesOn

-----------------------------------------------------------------------------
(* Sockets                                                                  *)

(* The walks that wait for a relay go on from it or from the one after it.  *)
LEMMA WaitingGoOn ==
    ASSUME IInv, NEW c \in Clients, NEW r \in Relays, NEW from, NEW socks, NEW broken,
           \A w \in Walks : from[w] = walk[w] \/ from[w] = walk[w] + 1,
           Proceed(c, Waiting(c, r), from, socks, broken), UNCHANGED <<wire, repeated, subId, used>>,
           subscribed' \in [Clients -> [Relays -> SUBSET Subs]]
    PROVE  IInv' /\ \A m \in Messages : Went(m)
<1>0. TypeOK /\ Waiting(c, r) \in SUBSET Walks
  BY DEF IInv, Waiting
<1>1. ASSUME NEW w \in Waiting(c, r) PROVE from[w] \in 1 .. Done /\ walk[w] <= from[w] /\ walk[w] \in Nat
  <2>1. walk[w] \in 1 .. Done /\ walk[w] # Done /\ (from[w] = walk[w] \/ from[w] = walk[w] + 1)
    BY <1>0 DEF Waiting, TypeOK
  <2>2. Done \in Nat
    BY Order DEF Done
  <2> QED
    BY <2>1, <2>2
<1>2. ASSUME NEW m \in Waiting(c, r) \cap Messages
      PROVE  /\ Author[m] = c /\ pub[m].phase \in {"encoding", "walking"}
             /\ \A i \in 1 .. Len(RelayOrder) : Seen(m, RelayOrder[i]) => i < from[m]
  <2>1. Author[m] = c /\ walk[m] # Done
    BY DEF Waiting, Walker
  <2>2. pub[m].phase = "walking"
    BY <2>1 DEF IInv, WalkingWaits
  <2>3. \A i \in 1 .. Len(RelayOrder) : Seen(m, RelayOrder[i]) => i < walk[m]
    BY DEF IInv, Behind
  <2>4. from[m] \in Nat /\ walk[m] <= from[m] /\ walk[m] \in Nat
    BY <1>1
  <2> QED
    BY <2>1, <2>2, <2>3, <2>4
<1>3. /\ walk' \in [Walks -> 1 .. Done] /\ pub' \in [Messages -> PubTypes]
      /\ inbox' \in [Clients -> [Relays -> SUBSET Messages]]
      /\ refusals' \in [Messages -> SUBSET Relays]
      /\ Behind' /\ WalkingWaits' /\ AnsweredOnce' /\ Counted' /\ Refused'
      /\ \A m \in Messages : Went(m)
  BY <1>0, <1>1, <1>2, ProceedStep
<1>4. TypeOK'
  BY <1>0, <1>3 DEF TypeOK, RelayTypes
<1> QED
  BY <1>3, <1>4 DEF IInv

LEMMA SocketsStep ==
    ASSUME IInv, NEW c \in Clients, NEW r \in Relays,
           SocketOpens(c, r) \/ SocketFails(c, r) \/ SocketDrops(c, r)
    PROVE  IInv' /\ \A m \in Messages : Went(m)
<1>0. TypeOK /\ RelayTypes
  BY DEF IInv, TypeOK
<1>1. CASE SocketOpens(c, r)
  <2> DEFINE socks == [sockets[c] EXCEPT ![r] = "open"]
  <2>1. Proceed(c, Waiting(c, r), walk, socks, 0) /\ UNCHANGED <<wire, repeated, subId, used>>
    BY <1>1 DEF SocketOpens, adapterVars
  <2>2. \A q \in Relays : Requested(c, Waiting(c, r), walk, socks, q) \subseteq Subs
    BY DEF Requested
  <2>3. {subId[c]} \ {None} \subseteq Subs
    BY <1>0 DEF TypeOK
  <2>4. subscribed' = [subscribed EXCEPT ![c] = [q \in Relays |->
            @[q] \cup Requested(c, Waiting(c, r), walk, socks, q)
                 \cup (IF q = r THEN {subId[c]} \ {None} ELSE {})]]
    BY <1>1 DEF SocketOpens
  <2> HIDE DEF socks
  <2>5. subscribed' \in [Clients -> [Relays -> SUBSET Subs]]
    BY <1>0, <2>2, <2>3, <2>4 DEF RelayTypes
  <2> QED
    BY <2>1, <2>5, WaitingGoOn
<1>2. CASE SocketFails(c, r)
  <2> DEFINE socks == [sockets[c] EXCEPT ![r] = "none"]
             onward == [w \in Walks |-> walk[w] + 1]
  <2>1. /\ \E broken \in {0, 1} : Proceed(c, Waiting(c, r), onward, socks, broken)
        /\ UNCHANGED <<wire, repeated, subId, used>>
    BY <1>2 DEF SocketFails, adapterVars
  <2>2. \A q \in Relays : Requested(c, Waiting(c, r), onward, socks, q) \subseteq Subs
    BY DEF Requested
  <2>3. subscribed' = [subscribed EXCEPT ![c] = [q \in Relays |->
            @[q] \cup Requested(c, Waiting(c, r), onward, socks, q)]]
    BY <1>2 DEF SocketFails
  <2>4. \A w \in Walks : onward[w] = walk[w] + 1
    OBVIOUS
  <2> HIDE DEF socks, onward
  <2>5. subscribed' \in [Clients -> [Relays -> SUBSET Subs]]
    BY <1>0, <2>2, <2>3 DEF RelayTypes
  <2> QED
    BY <2>1, <2>4, <2>5, WaitingGoOn
<1>3. CASE SocketDrops(c, r)
  <2>1. /\ inbox' = [inbox EXCEPT ![c][r] = {}] /\ wire' = [wire EXCEPT ![c][r] = {}]
        /\ subscribed' = [subscribed EXCEPT ![c][r] = {}]
        /\ UNCHANGED <<refusals, repeated, walk, pub, subId, used>>
    BY <1>3 DEF SocketDrops, adapterVars
  <2>2. RelayTypes'
    BY <1>0, <2>1 DEF RelayTypes
  <2>3. \A d \in Clients, q \in Relays :
            inbox'[d][q] \subseteq inbox[d][q] /\ wire'[d][q] \subseteq wire[d][q]
    BY <1>0, <2>1 DEF RelayTypes
  <2>4. Rest'
    BY <2>1, <2>2, <2>3, FramesStep
  <2>5. \A m \in Messages : Went(m)
    BY <2>1, <2>3, Authors DEF Went, Seen
  <2> QED
    BY <1>0, <2>1, <2>2, <2>4, <2>5 DEF IInv, Rest, TypeOK
<1> QED
  BY <1>1, <1>2, <1>3

-----------------------------------------------------------------------------
(* subscribe(), unsubscribe(), close() and the known-answer test            *)
LEMMA SubscribeStep == ASSUME IInv, NEW c \in Clients, NEW h, Subscribe(c, h)
    PROVE  IInv' /\ \A m \in Messages : Went(m)
<1>0. TypeOK /\ RelayTypes
  BY DEF IInv, TypeOK
<1>1. CASE UNCHANGED <<subId, used, relayVars, walk, pub>>
  <2>1. RelayTypes' /\ Rest'
    BY <1>0, <1>1, FramesStep DEF RelayTypes, relayVars
  <2>2. \A m \in Messages : Went(m)
    BY <1>1 DEF Went, Seen, relayVars
  <2> QED
    BY <1>0, <1>1, <2>1, <2>2 DEF IInv, Rest, TypeOK
<1>2. ASSUME NEW s, s = used[c] + 1, s <= MaxSubscribes,
             used' = [used EXCEPT ![c] = s], subId' = [subId EXCEPT ![c] = s],
             Proceed(c, {<<c, s>>}, [w \in Walks |-> 1], sockets[c], 0),
             subscribed' = [subscribed EXCEPT ![c] = [r \in Relays |->
                 @[r] \cup Requested(c, {<<c, s>>}, [w \in Walks |-> 1], sockets[c], r)]],
             UNCHANGED <<wire, accepted, repeated>>
      PROVE  IInv' /\ \A m \in Messages : Went(m)
  <2> DEFINE from == [w \in Walks |-> 1]
  <2>1. s \in Subs /\ s \in Nat
    <3>1. used[c] \in Nat
      BY <1>0 DEF TypeOK
    <3>2. MaxSubscribes \in Nat
      BY NostrConstants
    <3> QED
      BY <1>2, <3>1, <3>2 DEF Subs
  <2>2. <<c, s>> \in Walks /\ {<<c, s>>} \cap Messages = {}
    BY <2>1, Authors DEF Walks
  <2>3. \A w \in {<<c, s>>} : from[w] \in 1 .. Done
    BY <2>2, Order DEF Done
  <2>4. \A q \in Relays : Requested(c, {<<c, s>>}, from, sockets[c], q) \subseteq Subs
    BY DEF Requested
  <2>5. subscribed' = [subscribed EXCEPT ![c] = [r \in Relays |->
            @[r] \cup Requested(c, {<<c, s>>}, from, sockets[c], r)]]
        /\ Proceed(c, {<<c, s>>}, from, sockets[c], 0)
    BY <1>2
  <2> HIDE DEF from
  <2>6. subscribed' \in [Clients -> [Relays -> SUBSET Subs]]
    BY <1>0, <2>4, <2>5 DEF RelayTypes
  <2>7. {<<c, s>>} \in SUBSET Walks
    BY <2>2
  <2>8. /\ walk' \in [Walks -> 1 .. Done] /\ pub' \in [Messages -> PubTypes]
        /\ inbox' \in [Clients -> [Relays -> SUBSET Messages]]
        /\ refusals' \in [Messages -> SUBSET Relays]
        /\ Behind' /\ WalkingWaits' /\ AnsweredOnce' /\ Counted' /\ Refused'
        /\ \A m \in Messages : Went(m)
    BY <1>2, <2>2, <2>3, <2>5, <2>7, ProceedStep, ZenonT(30)
  <2>9. TypeOK'
    BY <1>0, <1>2, <2>1, <2>6, <2>8 DEF TypeOK, RelayTypes
  <2> QED
    BY <2>8, <2>9 DEF IInv
<1> QED
  BY <1>1, <1>2 DEF Subscribe

(* Steps that send nothing and count nothing.                               *)
LEMMA QuietStep ==
    ASSUME IInv, UNCHANGED <<inbox, wire, refusals, repeated, walk, pub>>,
           subscribed' \in [Clients -> [Relays -> SUBSET Subs]],
           subId' \in [Clients -> Subs \cup {None}], UNCHANGED used
    PROVE  IInv'
<1>0. TypeOK /\ RelayTypes
  BY DEF IInv, TypeOK
<1>1. RelayTypes'
  BY <1>0 DEF RelayTypes
<1>2. Rest'
  BY <1>1, FramesStep
<1> QED
  BY <1>0, <1>1, <1>2 DEF IInv, Rest, TypeOK

LEMMA LeavingStep ==
    ASSUME IInv, NEW c \in Clients,
           (\E h \in Handlers : Unsubscribe(c, h)) \/ Close(c) \/ CloseResolves(c) \/ KatSettles(c)
    PROVE  IInv'
<1>0. TypeOK /\ RelayTypes
  BY DEF IInv, TypeOK
<1>1. ASSUME NEW h \in Handlers, Unsubscribe(c, h) PROVE IInv'
  <2>1. UNCHANGED <<inbox, wire, refusals, repeated, walk, pub, used>>
    BY <1>1 DEF Unsubscribe
  <2>2. \/ UNCHANGED <<subscribed, subId>>
        \/ /\ subId' = [subId EXCEPT ![c] = None]
           /\ subscribed' = [subscribed EXCEPT ![c] = [r \in Relays |-> @[r] \ {subId[c]}]]
    BY <1>1 DEF Unsubscribe, CloseReq
  <2>3. subscribed' \in [Clients -> [Relays -> SUBSET Subs]] /\ subId' \in [Clients -> Subs \cup {None}]
    <3>1. subscribed \in [Clients -> [Relays -> SUBSET Subs]] /\ subId \in [Clients -> Subs \cup {None}]
      BY <1>0 DEF TypeOK, RelayTypes
    <3>2. [subscribed EXCEPT ![c] = [r \in Relays |-> @[r] \ {subId[c]}]]
              \in [Clients -> [Relays -> SUBSET Subs]]
      BY <3>1
    <3> QED
      BY <2>2, <3>1, <3>2
  <2> QED
    BY <2>1, <2>3, QuietStep
<1>2. CASE Close(c)
  <2>1. /\ inbox' = [inbox EXCEPT ![c] = [r \in Relays |-> {}]]
        /\ wire' = [wire EXCEPT ![c] = [r \in Relays |-> {}]]
        /\ subscribed' = [subscribed EXCEPT ![c] = [r \in Relays |-> {}]]
        /\ subId' = [subId EXCEPT ![c] = None]
        /\ UNCHANGED <<refusals, repeated, walk, pub, used>>
    BY <1>2 DEF Close
  <2>2. RelayTypes' /\ subId' \in [Clients -> Subs \cup {None}]
    BY <1>0, <2>1 DEF RelayTypes, TypeOK
  <2>3. \A d \in Clients, q \in Relays :
            inbox'[d][q] \subseteq inbox[d][q] /\ wire'[d][q] \subseteq wire[d][q]
    BY <1>0, <2>1 DEF RelayTypes
  <2>4. Rest'
    BY <2>1, <2>2, <2>3, FramesStep
  <2> QED
    BY <1>0, <2>1, <2>2, <2>4 DEF IInv, Rest, TypeOK
<1>3. CASE CloseResolves(c) \/ KatSettles(c)
  <2>1. UNCHANGED <<relayVars, subId, used, walk, pub>>
    BY <1>3 DEF CloseResolves, KatSettles
  <2> QED
    BY <1>0, <2>1, QuietStep DEF relayVars, TypeOK, RelayTypes
<1> QED
  BY <1>1, <1>2, <1>3

-----------------------------------------------------------------------------
(* Frames                                                                   *)
LEMMA ReceiveOKStep ==
    ASSUME IInv, NEW c \in Clients, NEW r \in Relays, ReceiveOK(c, r)
    PROVE  IInv'
<1>0. TypeOK /\ RelayTypes /\ Behind /\ WalkingWaits /\ AnsweredOnce /\ Counted /\ Refused
  BY DEF IInv, TypeOK
<1>1. PICK f \in wire[c][r] :
        /\ f.type = "OK"
        /\ pub' = [pub EXCEPT ![f.event] = Finish(@, f.ok)]
        /\ wire' = [wire EXCEPT ![c][r] = @ \ {f}]
        /\ UNCHANGED <<subId, used, inbox, subscribed, refusals, repeated, walk>>
  BY DEF ReceiveOK, adapterVars
<1>2. f \in [type : {"OK"}, event : Messages, ok : BOOLEAN]
  BY <1>0, <1>1 DEF RelayTypes, Frames
<1> DEFINE m == f.event
           p == pub[m]
           q == Finish(p, f.ok)
<1>3. m \in Messages /\ f.ok \in BOOLEAN /\ p \in PubTypes /\ pub' = [pub EXCEPT ![m] = q]
  BY <1>0, <1>1, <1>2 DEF TypeOK
<1>4. /\ q \in PubTypes /\ q.relayCount = p.relayCount
      /\ q.nacked \in {p.nacked} \cup (IF f.ok THEN {} ELSE {p.nacked + 1})
      /\ q.phase = p.phase \/ (p.phase = "acking" /\ q.phase \in {"resolved", "rejected"})
      /\ q.ack = "nacked" => q = p \/ (q.phase = "rejected" /\ q.nacked >= p.relayCount)
  BY <1>3, Finishes
<1> HIDE DEF q
<1>5. pub' \in [Messages -> PubTypes] /\ pub'[m] = q /\ \A n \in Messages \ {m} : pub'[n] = pub[n]
  BY <1>0, <1>3, <1>4 DEF TypeOK
<1>6. RelayTypes' /\ \A d \in Clients, s \in Relays : wire'[d][s] \subseteq wire[d][s]
  BY <1>0, <1>1 DEF RelayTypes
<1>7. TypeOK'
  BY <1>0, <1>1, <1>5, <1>6 DEF TypeOK
<1>8. \A n \in Messages, s \in Relays : Seen(n, s)' = Seen(n, s)
  BY <1>1 DEF Seen
<1>9. Behind' /\ WalkingWaits'
  BY <1>0, <1>1, <1>3, <1>4, <1>5, <1>8, Order DEF Behind, WalkingWaits
<1>10. AnsweredOnce'
  BY <1>0, <1>1, <1>6 DEF AnsweredOnce
<1>11. \A n \in Messages : Arrived(n) \in SUBSET (Arrived(n)') /\ Arrived(n)' \subseteq Relays
  BY <1>0, <1>1, <1>6, Authors DEF Arrived, RelayTypes
<1>12. \A n \in Messages : Cardinality(Arrived(n)) <= Cardinality(Arrived(n)')
                           /\ Cardinality(Arrived(n)) \in Nat /\ Cardinality(Arrived(n)') \in Nat
  BY <1>11, Finite, FS_Subset
<1>13. ~f.ok => Cardinality(Arrived(m)') >= Cardinality(Arrived(m)) + 1
  <2> SUFFICES ASSUME ~f.ok PROVE Cardinality(Arrived(m)') >= Cardinality(Arrived(m)) + 1
    OBVIOUS
  <2>1. f = Nack(m)
    BY <1>2 DEF Nack
  <2>2. c = Author[m] /\ r \in refusals[m] /\ r \notin Arrived(m)
    BY <1>0, <1>1, <1>3, <2>1 DEF AnsweredOnce, Arrived
  <2>3. r \in Arrived(m)'
    BY <1>0, <1>1, <2>1, <2>2 DEF Arrived, RelayTypes
  <2>4. Arrived(m) \cup {r} \in SUBSET (Arrived(m)') /\ Arrived(m) \subseteq Relays
    BY <1>3, <1>11, <2>3
  <2>5. Cardinality(Arrived(m) \cup {r}) = Cardinality(Arrived(m)) + 1
    BY <2>2, <2>4, Finite, FS_AddElement
  <2>6. Cardinality(Arrived(m) \cup {r}) <= Cardinality(Arrived(m)')
    BY <1>3, <1>11, <2>4, Finite, FS_Subset
  <2> QED
    BY <2>5, <2>6
<1>14. Counted'
  <2> SUFFICES ASSUME NEW n \in Messages \ repeated PROVE pub'[n].nacked <= Cardinality(Arrived(n)')
    BY <1>1 DEF Counted
  <2>1. pub[n].nacked <= Cardinality(Arrived(n)) /\ pub[n].nacked \in Nat /\ pub'[n].nacked \in Nat
    BY <1>0, <1>5 DEF Counted, TypeOK, PubTypes
  <2>2. CASE n = m
    BY <1>3, <1>4, <1>5, <1>12, <1>13, <2>1, <2>2
  <2>3. CASE n # m
    BY <1>5, <1>12, <2>1, <2>3
  <2> QED
    BY <2>2, <2>3
<1>15. Refused'
  <2> SUFFICES ASSUME NEW n \in Messages, pub'[n].ack = "nacked"
               PROVE  /\ pub'[n].phase = "rejected"
                      /\ n \in repeated \/ Cardinality(refusals[n]) >= pub'[n].relayCount
    BY <1>1 DEF Refused
  <2>1. CASE pub'[n] = pub[n]
    BY <1>0, <2>1 DEF Refused
  <2>2. CASE pub'[n] # pub[n]
    <3>1. n = m /\ q.phase = "rejected" /\ q.nacked >= q.relayCount
      BY <1>3, <1>4, <1>5, <2>2
    <3>2. m \notin repeated => q.nacked <= Cardinality(Arrived(m)')
      BY <1>1, <1>3, <1>5, <1>14 DEF Counted
    <3>a. q.nacked \in Nat /\ q.relayCount \in Int
      BY <1>4 DEF PubTypes
    <3>3. Arrived(m)' \in SUBSET refusals[m] /\ refusals[m] \subseteq Relays
      BY <1>0, <1>1, <1>3 DEF Arrived, RelayTypes
    <3>4. Cardinality(Arrived(m)') <= Cardinality(refusals[m])
          /\ Cardinality(Arrived(m)') \in Nat /\ Cardinality(refusals[m]) \in Nat
      BY <1>3, <1>12, <3>3, Finite, FS_Subset
    <3> QED
      BY <1>5, <3>1, <3>2, <3>4, <3>a
  <2> QED
    BY <2>1, <2>2
<1> QED
  BY <1>7, <1>9, <1>10, <1>14, <1>15 DEF IInv

LEMMA ReceiveEventStep ==
    ASSUME IInv, NEW c \in Clients, NEW r \in Relays, ReceiveEvent(c, r)
    PROVE  IInv'
<1>0. TypeOK /\ RelayTypes
  BY DEF IInv, TypeOK
<1>1. PICK f \in wire[c][r] : wire' = [wire EXCEPT ![c][r] = @ \ {f}]
  BY DEF ReceiveEvent
<1>2. UNCHANGED <<subId, used, inbox, subscribed, refusals, repeated, walk, pub>>
  BY DEF ReceiveEvent
<1>3. RelayTypes' /\ \A d \in Clients, s \in Relays : wire'[d][s] \subseteq wire[d][s]
  BY <1>0, <1>1, <1>2 DEF RelayTypes
<1>4. Rest'
  BY <1>2, <1>3, FramesStep
<1> QED
  BY <1>0, <1>2, <1>3, <1>4 DEF IInv, Rest, TypeOK

(* What a relay sends to an adapter, besides the answer of a refusal.       *)
LEMMA Forwarded ==
    ASSUME TypeOK, NEW r \in Relays, NEW e \in Events, NEW d \in Clients
    PROVE  Forward(r, e)[d] \in SUBSET Frames /\ \A m \in Messages : Nack(m) \notin Forward(r, e)[d]
<1>1. Forward(r, e)[d] = {[type |-> "EVENT", sub |-> s, event |-> e] : s \in subscribed[d][r]}
  BY DEF Forward
<1>2. subscribed[d][r] \subseteq Subs
  BY DEF TypeOK, RelayTypes
<1>3. ASSUME NEW s \in Subs PROVE [type |-> "EVENT", sub |-> s, event |-> e] \in Frames
  BY DEF Frames
<1>4. ASSUME NEW m \in Messages, NEW s, Nack(m) = [type |-> "EVENT", sub |-> s, event |-> e] PROVE FALSE
  <2>1. Nack(m).type = "OK"
    BY DEF Nack
  <2> QED
    BY <1>4, <2>1
<1> QED
  BY <1>1, <1>2, <1>3, <1>4

LEMMA AcceptStep == ASSUME IInv, NEW r \in Relays, Accept(r) PROVE IInv'
<1>0. TypeOK /\ RelayTypes
  BY DEF IInv, TypeOK
<1>1. PICK c \in Clients, m \in Messages :
        /\ m \in inbox[c][r]
        /\ inbox' = [inbox EXCEPT ![c][r] = @ \ {m}]
        /\ wire' = [d \in Clients |-> [Answer(r, m, TRUE)[d] EXCEPT ![r] = @ \cup Forward(r, m)[d]]]
        /\ UNCHANGED <<subId, used, subscribed, refusals, repeated, walk, pub>>
  BY DEF Accept, adapterVars
<1> DEFINE yes == [type |-> "OK", event |-> m, ok |-> TRUE]
           W == [wire EXCEPT ![c][r] = @ \cup {yes}]
<1>2. wire' = [d \in Clients |-> [W[d] EXCEPT ![r] = @ \cup Forward(r, m)[d]]]
  <2>1. c = Author[m]
    BY <1>1 DEF IInv, AnsweredOnce
  <2> QED
    BY <1>1, <2>1 DEF Answer
<1>3. yes \in Frames /\ m \in Events /\ \A n \in Messages : Nack(n) # yes
  BY DEF Frames, Events, Nack
<1> HIDE DEF yes, W
<1>4. /\ W \in [Clients -> [Relays -> SUBSET Frames]]
      /\ \A d \in Clients, q \in Relays : W[d][q] \subseteq wire[d][q] \cup {yes}
  BY <1>0, <1>3 DEF RelayTypes, W
<1>5. /\ wire' \in [Clients -> [Relays -> SUBSET Frames]]
      /\ \A d \in Clients, q \in Relays :
            wire'[d][q] \subseteq wire[d][q] \cup {yes} \cup Forward(r, m)[d]
  <2>1. \A d \in Clients : Forward(r, m)[d] \in SUBSET Frames
    BY <1>0, <1>3, Forwarded
  <2> QED
    BY <1>2, <1>4, <2>1
<1>6. RelayTypes' /\ \A d \in Clients, q \in Relays : inbox'[d][q] \subseteq inbox[d][q]
  <2>1. inbox' \in [Clients -> [Relays -> SUBSET Messages]]
        /\ \A d \in Clients, q \in Relays : inbox'[d][q] \subseteq inbox[d][q]
    BY <1>0, <1>1 DEF RelayTypes
  <2> QED
    BY <1>0, <1>1, <1>5, <2>1 DEF RelayTypes
<1>7. \A d \in Clients, q \in Relays, n \in Messages : Nack(n) \in wire'[d][q] => Nack(n) \in wire[d][q]
  BY <1>0, <1>3, <1>5, Forwarded
<1>8. Rest'
  BY <1>1, <1>6, <1>7, FramesStep
<1> QED
  BY <1>0, <1>1, <1>6, <1>8 DEF IInv, Rest, TypeOK

LEMMA InjectStep == ASSUME IInv, NEW r \in Relays, Inject(r) PROVE IInv'
<1>0. TypeOK /\ RelayTypes
  BY DEF IInv, TypeOK
<1>1. PICK c \in Clients, e \in Foreign : wire' = [wire EXCEPT ![c][r] = @ \cup Forward(r, e)[c]]
  BY DEF Inject
<1>2. UNCHANGED <<subId, used, inbox, subscribed, refusals, repeated, walk, pub>>
  BY DEF Inject, adapterVars
<1>3. Forward(r, e)[c] \in SUBSET Frames /\ \A n \in Messages : Nack(n) \notin Forward(r, e)[c]
  BY <1>0, Forwarded DEF Events
<1>4. RelayTypes'
  BY <1>0, <1>1, <1>2, <1>3 DEF RelayTypes
<1>5. \A d \in Clients, q \in Relays, n \in Messages : Nack(n) \in wire'[d][q] => Nack(n) \in wire[d][q]
  BY <1>0, <1>1, <1>3 DEF RelayTypes
<1>6. Rest'
  BY <1>2, <1>4, <1>5, FramesStep
<1> QED
  BY <1>0, <1>2, <1>4, <1>6 DEF IInv, Rest, TypeOK

(* A refusal is on its way until it arrives: none has arrived by it.        *)
LEMMA RefuseStep == ASSUME IInv, NEW r \in Relays, Refuse(r) PROVE IInv'
<1>0. TypeOK /\ RelayTypes /\ Behind /\ WalkingWaits /\ AnsweredOnce /\ Counted /\ Refused
  BY DEF IInv, TypeOK
<1>1. PICK c \in Clients, m \in Messages :
        /\ m \in inbox[c][r]
        /\ inbox' = [inbox EXCEPT ![c][r] = @ \ {m}]
        /\ refusals' = [refusals EXCEPT ![m] = @ \cup {r}]
        /\ wire' = Answer(r, m, FALSE)
        /\ UNCHANGED <<subId, used, subscribed, repeated, walk, pub>>
  BY DEF Refuse, adapterVars
<1>2. c = Author[m] /\ r \notin refusals[m]
  BY <1>0, <1>1 DEF AnsweredOnce
<1>3. wire' = [wire EXCEPT ![c][r] = @ \cup {Nack(m)}] /\ Nack(m) \in Frames
  BY <1>1, <1>2 DEF Answer, Nack, Frames
<1>4. RelayTypes'
  <2>1. inbox' \in [Clients -> [Relays -> SUBSET Messages]]
    BY <1>0, <1>1 DEF RelayTypes
  <2>2. wire' \in [Clients -> [Relays -> SUBSET Frames]]
    BY <1>0, <1>3 DEF RelayTypes
  <2>3. refusals' \in [Messages -> SUBSET Relays]
    BY <1>0, <1>1 DEF RelayTypes
  <2> QED
    BY <1>0, <1>1, <2>1, <2>2, <2>3 DEF RelayTypes
<1>5. \A n, k \in Messages : Nack(n) = Nack(k) => n = k
  <2> SUFFICES ASSUME NEW n \in Messages, NEW k \in Messages, Nack(n) = Nack(k) PROVE n = k
    OBVIOUS
  <2>1. Nack(n).event = n /\ Nack(k).event = k
    BY DEF Nack
  <2> QED
    BY <2>1
<1>6. ASSUME NEW n \in Messages, NEW q \in Relays PROVE Seen(n, q)' => Seen(n, q)
  BY <1>0, <1>1, <1>2, Authors DEF Seen, RelayTypes
<1>7. Behind' /\ WalkingWaits'
  BY <1>0, <1>1, <1>6, Order DEF Behind, WalkingWaits
<1>8. AnsweredOnce'
  <2> SUFFICES ASSUME NEW d \in Clients, NEW q \in Relays, NEW n \in Messages
               PROVE  /\ n \in inbox'[d][q] => d = Author[n] /\ q \notin refusals'[n]
                      /\ Nack(n) \in wire'[d][q] => d = Author[n] /\ q \in refusals'[n]
    BY DEF AnsweredOnce
  <2>1. n \in inbox'[d][q] => n \in inbox[d][q] /\ ~ (d = c /\ q = r /\ n = m)
    BY <1>0, <1>1 DEF RelayTypes
  <2>2. Nack(n) \in wire'[d][q] => Nack(n) \in wire[d][q] \/ (d = c /\ q = r /\ n = m)
    BY <1>0, <1>3, <1>5 DEF RelayTypes
  <2>3. refusals'[n] = IF n = m THEN refusals[n] \cup {r} ELSE refusals[n]
    BY <1>0, <1>1 DEF RelayTypes
  <2> QED
    BY <1>0, <1>2, <2>1, <2>2, <2>3 DEF AnsweredOnce
<1>9. \A n \in Messages : Arrived(n)' = Arrived(n)
  <2> SUFFICES ASSUME NEW n \in Messages, NEW q \in Relays
               PROVE  q \in Arrived(n)' <=> q \in Arrived(n)
    BY <1>0, <1>4 DEF Arrived, RelayTypes
  <2>1. refusals'[n] = IF n = m THEN refusals[n] \cup {r} ELSE refusals[n]
    BY <1>0, <1>1 DEF RelayTypes
  <2>2. Nack(n) \in wire'[Author[n]][q] <=> Nack(n) \in wire[Author[n]][q] \/ (q = r /\ n = m)
    BY <1>0, <1>2, <1>3, <1>5, Authors DEF RelayTypes
  <2> QED
    BY <1>2, <2>1, <2>2 DEF Arrived
<1>10. Counted'
  BY <1>0, <1>1, <1>9 DEF Counted
<1>11. Refused'
  <2> SUFFICES ASSUME NEW n \in Messages, pub[n].ack = "nacked"
               PROVE  /\ pub[n].phase = "rejected"
                      /\ n \in repeated \/ Cardinality(refusals'[n]) >= pub[n].relayCount
    BY <1>1 DEF Refused
  <2>1. refusals[n] \in SUBSET (refusals'[n]) /\ refusals'[n] \subseteq Relays
    BY <1>0, <1>1, <1>4 DEF RelayTypes
  <2>2. Cardinality(refusals[n]) <= Cardinality(refusals'[n])
        /\ Cardinality(refusals[n]) \in Nat /\ Cardinality(refusals'[n]) \in Nat
    BY <2>1, Finite, FS_Subset
  <2>3. pub[n].relayCount \in Int
    BY <1>0 DEF TypeOK, PubTypes
  <2> QED
    BY <1>0, <2>2, <2>3 DEF Refused
<1>12. TypeOK'
  BY <1>0, <1>1, <1>4 DEF TypeOK
<1> QED
  BY <1>7, <1>8, <1>10, <1>11, <1>12 DEF IInv

(* One more refusal of what the relay has refused, or was not sent: of such *)
(* a message no count is claimed.                                           *)
LEMMA RefuseAgainStep == ASSUME IInv, NEW r \in Relays, RefuseAgain(r) PROVE IInv'
<1>0. TypeOK /\ RelayTypes /\ Behind /\ WalkingWaits /\ AnsweredOnce /\ Counted /\ Refused
  BY DEF IInv, TypeOK
<1>1. PICK m \in Messages :
        /\ r \in refusals[m] /\ repeated' = repeated \cup {m}
        /\ wire' = Answer(r, m, FALSE)
        /\ UNCHANGED <<subId, used, inbox, subscribed, refusals, walk, pub>>
  BY DEF RefuseAgain, adapterVars
<1>2. wire' = [wire EXCEPT ![Author[m]][r] = @ \cup {Nack(m)}] /\ Nack(m) \in Frames
  BY <1>1 DEF Answer, Nack, Frames
<1>3. RelayTypes' /\ TypeOK'
  <2>1. wire' \in [Clients -> [Relays -> SUBSET Frames]]
    BY <1>0, <1>2, Authors DEF RelayTypes
  <2> QED
    BY <1>0, <1>1, <2>1 DEF TypeOK, RelayTypes
<1>4. Behind' /\ WalkingWaits' /\ Refused'
  BY <1>0, <1>1 DEF Behind, WalkingWaits, Refused, Seen
<1>5. \A n, k \in Messages : Nack(n) = Nack(k) => n = k
  <2> SUFFICES ASSUME NEW n \in Messages, NEW k \in Messages, Nack(n) = Nack(k) PROVE n = k
    OBVIOUS
  <2>1. Nack(n).event = n /\ Nack(k).event = k
    BY DEF Nack
  <2> QED
    BY <2>1
<1>6. \A d \in Clients, q \in Relays, n \in Messages :
        Nack(n) \in wire'[d][q] => Nack(n) \in wire[d][q] \/ (d = Author[m] /\ q = r /\ n = m)
  BY <1>0, <1>2, <1>5 DEF RelayTypes
<1>7. AnsweredOnce'
  <2> SUFFICES ASSUME NEW d \in Clients, NEW q \in Relays, NEW n \in Messages
               PROVE  /\ n \in inbox'[d][q] => d = Author[n] /\ q \notin refusals'[n]
                      /\ Nack(n) \in wire'[d][q] => d = Author[n] /\ q \in refusals'[n]
    BY DEF AnsweredOnce
  <2>1. n \in inbox[d][q] => d = Author[n] /\ q \notin refusals[n]
    BY <1>0 DEF AnsweredOnce
  <2>2. Nack(n) \in wire[d][q] => d = Author[n] /\ q \in refusals[n]
    BY <1>0 DEF AnsweredOnce
  <2> QED
    BY <1>1, <1>6, <2>1, <2>2
<1>8. Counted'
  <2> SUFFICES ASSUME NEW n \in Messages \ repeated'
               PROVE  pub[n].nacked <= Cardinality(Arrived(n)')
    BY <1>1 DEF Counted
  <2>1. n \notin repeated /\ n # m
    BY <1>1
  <2>2. \A q \in Relays : Nack(n) \in wire'[Author[n]][q] <=> Nack(n) \in wire[Author[n]][q]
    BY <1>0, <1>2, <1>6, <2>1, Authors DEF RelayTypes
  <2>3. Arrived(n)' = Arrived(n)
    BY <1>0, <1>1, <2>2 DEF Arrived, RelayTypes
  <2> QED
    BY <1>0, <2>1, <2>3 DEF Counted
<1> QED
  BY <1>3, <1>4, <1>7, <1>8 DEF IInv

-----------------------------------------------------------------------------
LEMMA Step == IInv /\ [Next]_vars => IInv'
<1> SUFFICES ASSUME IInv, [Next]_vars PROVE IInv'
  OBVIOUS
<1>1. ASSUME NEW m \in Messages, Publish(m) \/ StartWalk(m) \/ AckTimeout(m) PROVE IInv'
  BY <1>1, PublishStep, StartWalkStep, AckTimeoutStep
<1>2. ASSUME NEW c \in Clients, KatSettles(c) \/ Close(c) \/ CloseResolves(c) PROVE IInv'
  BY <1>2, LeavingStep
<1>3. ASSUME NEW c \in Clients, NEW r \in Relays,
             SocketOpens(c, r) \/ SocketFails(c, r) \/ SocketDrops(c, r)
             \/ ReceiveOK(c, r) \/ ReceiveEvent(c, r)
      PROVE  IInv'
  BY <1>3, SocketsStep, ReceiveOKStep, ReceiveEventStep
<1>4. ASSUME NEW c \in Clients, NEW h \in Handlers, Subscribe(c, h) \/ Unsubscribe(c, h) PROVE IInv'
  BY <1>4, SubscribeStep, LeavingStep
<1>5. ASSUME NEW r \in Relays, Accept(r) \/ Refuse(r) \/ RefuseAgain(r) \/ Inject(r) PROVE IInv'
  BY <1>5, AcceptStep, RefuseStep, RefuseAgainStep, InjectStep
<1>6. CASE UNCHANGED vars
  <2>1. UNCHANGED <<relayVars, subId, used, walk, pub>>
    BY <1>6 DEF vars, adapterVars
  <2> QED
    BY <2>1, QuietStep DEF relayVars, IInv, TypeOK, RelayTypes
<1> QED
  BY <1>1, <1>2, <1>3, <1>4, <1>5, <1>6 DEF Next

(* Of a publish() that has failed for refusals, every relay it was to be    *)
(* sent to has refused the event or its socket threw, or some relay has     *)
(* refused it again: for any relays, messages, failures, sends that throw   *)
(* and order of frames (tryReject, loopFinalized and the catch of the walk  *)
(* in packages/signaling-nostr/src/index.ts).                               *)
THEOREM RefusedByEveryRelay == Spec => []RefusedByAll
<1>1. IInv => RefusedByAll
  BY DEF IInv, Refused, RefusedByAll
<1> QED
  BY <1>1, InitHolds, Step, PTL DEF Spec

-----------------------------------------------------------------------------
(* Flattened sequences.                                                     *)
(* The function that FlattenSeq is defined by.                              *)
Flat(flat, seqs, n) ==
    flat = [i \in 1 .. n |-> IF i = 1 THEN seqs[i] ELSE flat[i - 1] \o seqs[i]]

LEMMA FlatExists ==
    ASSUME NEW seqs, NEW len \in Nat
    PROVE  \E flat : Flat(flat, seqs, len)
<1> DEFINE W == {n \in Nat : ~ \E flat : Flat(flat, seqs, n)}
<1> SUFFICES ASSUME W # {} PROVE FALSE
  OBVIOUS
<1>1. W \subseteq Nat
  OBVIOUS
<1> HIDE DEF W
<1>2. PICK n \in W : \A k \in W : n <= k
  BY <1>1, LeastNumber
<1> USE DEF W
<1>3. CASE n = 0
  <2> DEFINE h == [i \in 1 .. 0 |-> <<>>]
  <2>1. h = [i \in 1 .. 0 |-> IF i = 1 THEN seqs[i] ELSE h[i - 1] \o seqs[i]]
    OBVIOUS
  <2> HIDE DEF h
  <2>2. Flat(h, seqs, 0)
    BY <2>1 DEF Flat
  <2> QED
    BY <1>2, <1>3, <2>2
<1>4. CASE n # 0
  <2>1. n \in Nat /\ n - 1 \in Nat /\ n - 1 \notin W
    BY <1>1, <1>2, <1>4
  <2>2. PICK flat : Flat(flat, seqs, n - 1)
    BY <2>1
  <2>3. \A i \in 1 .. (n - 1) : flat[i] = IF i = 1 THEN seqs[i] ELSE flat[i - 1] \o seqs[i]
    BY <2>2, Zenon DEF Flat
  <2> DEFINE h == [i \in 1 .. n |->
                     IF i = n THEN IF n = 1 THEN seqs[1] ELSE flat[n - 1] \o seqs[n] ELSE flat[i]]
  <2>4. \A i \in 1 .. n :
            /\ i # 1 => i - 1 \in 1 .. (n - 1) /\ i - 1 \in 1 .. n /\ i - 1 # n
            /\ i # n => i \in 1 .. (n - 1)
    BY <2>1
  <2>5. \A i \in 1 .. n : h[i] = IF i = 1 THEN seqs[i] ELSE h[i - 1] \o seqs[i]
    BY <1>4, <2>3, <2>4
  <2>6. h = [i \in 1 .. n |-> h[i]]
    OBVIOUS
  <2> HIDE DEF h
  <2>7. Flat(h, seqs, n)
    BY <2>5, <2>6 DEF Flat
  <2> QED
    BY <1>2, <2>7
<1> QED
  BY <1>3, <1>4

(* Those of n things that are in P, in their order.                         *)
Singles(n, P, e) == [i \in 1 .. n |-> IF i \in P THEN <<e[i]>> ELSE <<>>]

(* s is made of e[i] for numbers i up to k in P, in their order.            *)
TakenFrom(s, k, P, e) ==
    /\ \A a \in DOMAIN s : \E i \in P \cap 1 .. k : e[i] = s[a]
    /\ \A a, b \in DOMAIN s : a < b =>
          \E i, j \in P \cap 1 .. k : i < j /\ e[i] = s[a] /\ e[j] = s[b]

LEMMA FlattenSingles ==
    ASSUME NEW M, NEW n \in Nat, NEW P, NEW e, \A i \in P \cap 1 .. n : e[i] \in M
    PROVE  /\ FlattenSeq(Singles(n, P, e)) \in Seq(M)
           /\ TakenFrom(FlattenSeq(Singles(n, P, e)), n, P, e)
<1> DEFINE seqs == Singles(n, P, e)
           flat == CHOOSE f : Flat(f, seqs, n)
           Good(s, k) == s \in Seq(M) /\ TakenFrom(s, k, P, e)
<1> USE DEF TakenFrom
<1>1. /\ seqs \in Seq(Seq(M)) /\ Len(seqs) = n
      /\ \A i \in 1 .. n : seqs[i] = IF i \in P THEN <<e[i]>> ELSE <<>>
  <2>1. \A i \in 1 .. n : (IF i \in P THEN <<e[i]>> ELSE <<>>) \in Seq(M)
    OBVIOUS
  <2> QED
    BY <2>1 DEF Singles
<1>2. SUFFICES Good(FlattenSeq(seqs), n)
  OBVIOUS
<1>3. CASE n = 0
  <2>1. FlattenSeq(seqs) = <<>>
    BY <1>1, <1>3 DEF FlattenSeq
  <2> QED
    BY <2>1
<1>4. CASE n # 0
  <2>1. FlattenSeq(seqs) = flat[n]
    BY <1>1, <1>4 DEF FlattenSeq, Flat
  <2>2. Flat(flat, seqs, n)
    BY FlatExists
  <2> HIDE DEF flat, seqs
  <2>3. \A i \in 1 .. n : flat[i] = IF i = 1 THEN seqs[i] ELSE flat[i - 1] \o seqs[i]
    BY <2>2, Zenon DEF Flat
  <2> DEFINE W == {i \in 1 .. n : ~ Good(flat[i], i)}
  <2>4. W = {}
    <3> SUFFICES ASSUME W # {} PROVE FALSE
      OBVIOUS
    <3>1. W \subseteq Nat
      OBVIOUS
    <3> HIDE DEF W
    <3>2. PICK k \in W : \A j \in W : k <= j
      BY <3>1, LeastNumber
    <3>3. k \in 1 .. n /\ ~ Good(flat[k], k)
      BY DEF W
    <3>4. CASE k = 1
      <4>1. flat[k] = IF 1 \in P THEN <<e[1]>> ELSE <<>>
        BY <1>1, <2>3, <3>3, <3>4
      <4>2. Good(flat[k], k)
        BY <3>3, <3>4, <4>1
      <4> QED
        BY <3>3, <4>2
    <3>5. CASE k # 1
      <4>1. k - 1 \in 1 .. n /\ k - 1 \notin W
        BY <3>1, <3>2, <3>3, <3>5
      <4> DEFINE s == flat[k - 1]
      <4>2. Good(s, k - 1)
        BY <4>1 DEF W
      <4>3. flat[k] = s \o (IF k \in P THEN <<e[k]>> ELSE <<>>)
        BY <1>1, <2>3, <3>3, <3>5
      <4> HIDE DEF s
      <4>4. P \cap 1 .. (k - 1) \subseteq P \cap 1 .. k
        BY <3>3
      <4>5. CASE k \notin P
        <5>1. flat[k] = s
          BY <4>2, <4>3, <4>5
        <5>2. Good(s, k)
          BY <4>2, <4>4
        <5> QED
          BY <3>3, <5>1, <5>2
      <4>6. CASE k \in P
        <5>1. flat[k] = Append(s, e[k]) /\ e[k] \in M /\ k \in P \cap 1 .. k
          BY <3>3, <4>2, <4>3, <4>6
        <5> DEFINE t == Append(s, e[k])
        <5>2. /\ t \in Seq(M) /\ \A a \in DOMAIN t : t[a] = IF a \in DOMAIN s THEN s[a] ELSE e[k]
              /\ \A a, b \in DOMAIN t : a < b => a \in DOMAIN s
          BY <4>2, <5>1
        <5> HIDE DEF t
        <5>3. ASSUME NEW a \in DOMAIN t PROVE \E i \in P \cap 1 .. k : e[i] = t[a]
          BY <4>2, <4>4, <5>1, <5>2
        <5>4. ASSUME NEW a \in DOMAIN t, NEW b \in DOMAIN t, a < b
              PROVE  \E i, j \in P \cap 1 .. k : i < j /\ e[i] = t[a] /\ e[j] = t[b]
          <6>1. CASE b \in DOMAIN s
            BY <4>2, <4>4, <5>2, <5>4, <6>1
          <6>2. CASE b \notin DOMAIN s
            <7>1. PICK i \in P \cap 1 .. (k - 1) : e[i] = t[a]
              BY <4>2, <5>2, <5>4
            <7>2. i < k /\ i \in P \cap 1 .. k /\ e[k] = t[b]
              BY <3>3, <4>4, <5>2, <5>4, <6>2, <7>1
            <7> QED
              BY <5>1, <7>1, <7>2
          <6> QED
            BY <6>1, <6>2
        <5>5. Good(t, k)
          BY <5>2, <5>3, <5>4
        <5>6. flat[k] = t
          BY <5>1 DEF t
        <5> HIDE DEF Good
        <5> QED
          BY <3>3, <5>5, <5>6
      <4> QED
        BY <4>5, <4>6
    <3> QED
      BY <3>4, <3>5
  <2>5. n \in 1 .. n
    BY <1>4
  <2> HIDE DEF Good
  <2> QED
    BY <2>1, <2>4, <2>5
<1> QED
  BY <1>3, <1>4

-----------------------------------------------------------------------------
(* Deliveries.                                                              *)
DeliveryTypes ==
    /\ kat \in [Clients -> {"pending", "ok", "failed"}]
    /\ life \in [Clients -> {"open", "closing", "closed"}]
    /\ handlers \in [Clients -> [Subs -> SUBSET Handlers]]
    /\ delivered \in [Clients -> [Subs -> SUBSET Events]]
    /\ decoding \in [Clients -> Seq(Subs \X Events)]
    /\ given \in [Clients -> [Handlers -> Seq(Messages)]]

(* Only the entry of the room has handlers, or the last one after close().  *)
OneEntry ==
    \A c \in Clients :
        /\ subId[c] # None => life[c] = "open"
        /\ \A s \in Subs : handlers[c][s] # {} =>
              IF life[c] = "open" THEN s = subId[c]
              ELSE \A t \in Subs : handlers[c][t] # {} => t = s

(* An entry decodes an event once, and its handlers have what it decoded.   *)
DecodedOnce ==
    \A c \in Clients :
        /\ IsInjective(decoding[c])
        /\ \A i \in DOMAIN decoding[c] : decoding[c][i][2] \in delivered[c][decoding[c][i][1]]
        /\ \A s \in Subs : \A h \in handlers[c][s] : ToSet(given[c][h]) \subseteq delivered[c][s]

(* What waits for the known-answer test, and what it keeps back.            *)
KatWaits ==
    \A c \in Clients :
        /\ kat[c] # "pending" => decoding[c] = <<>>
        /\ kat[c] # "ok" => \A h \in Handlers : given[c][h] = <<>>

DInv == DeliveryTypes /\ OneEntry /\ DecodedOnce /\ KatWaits

LEMMA DecodesMessages ==
    ASSUME NEW c \in Clients, NEW test, NEW e \in Events, Decodes(c, test, e)
    PROVE  e \in Messages /\ test = "ok"
<1>1. test = "ok" /\ (TryDecrypt(Content(e)) = "v2" \/ Content(e) = "v1")
  BY DEF Decodes
<1>2. ASSUME e \notin Messages PROVE FALSE
  <2>1. Content(e) = e /\ e \in {"unmarked", "opaque", "other kind"}
    BY <1>2, NostrConstants DEF Content, Events
  <2>2. TryDecrypt(e) \in {"v2-no-sentinel", "decrypt-fail"}
    BY <2>1 DEF TryDecrypt
  <2> QED
    BY <1>1, <2>1, <2>2
<1> QED
  BY <1>1, <1>2

(* What a handler is given of the events that waited for the test.          *)
Handed(c, test, h) ==
    FlattenSeq([i \in 1 .. Len(decoding[c]) |->
        Dispatched(c, test, decoding[c][i][1], decoding[c][i][2])[h]])

Passed(c, test, h) ==
    {i \in DOMAIN decoding[c] :
        Decodes(c, test, decoding[c][i][2]) /\ h \in handlers[c][decoding[c][i][1]]}

LEMMA Decoding ==
    ASSUME DeliveryTypes, NEW c \in Clients
    PROVE  /\ Len(decoding[c]) \in Nat /\ DOMAIN decoding[c] = 1 .. Len(decoding[c])
           /\ \A i \in DOMAIN decoding[c] :
                 /\ decoding[c][i][1] \in Subs /\ decoding[c][i][2] \in Events
                 /\ decoding[c][i] = <<decoding[c][i][1], decoding[c][i][2]>>
<1>1. decoding[c] \in Seq(Subs \X Events)
  BY DEF DeliveryTypes
<1>2. \A i \in DOMAIN decoding[c] : decoding[c][i] \in Subs \X Events
  BY <1>1, ElementOfSeq
<1> QED
  BY <1>1, <1>2, LenProperties

LEMMA HandedSingles ==
    ASSUME DeliveryTypes, NEW c \in Clients, NEW test, NEW h \in Handlers
    PROVE  Handed(c, test, h) =
              FlattenSeq(Singles(Len(decoding[c]), Passed(c, test, h),
                                 [i \in DOMAIN decoding[c] |-> decoding[c][i][2]]))
<1> DEFINE e == [i \in DOMAIN decoding[c] |-> decoding[c][i][2]]
<1>1. \A i \in 1 .. Len(decoding[c]) :
          Dispatched(c, test, decoding[c][i][1], decoding[c][i][2])[h] =
              IF i \in Passed(c, test, h) THEN <<e[i]>> ELSE <<>>
  BY Decoding DEF Dispatched, Passed
<1>2. [i \in 1 .. Len(decoding[c]) |-> Dispatched(c, test, decoding[c][i][1], decoding[c][i][2])[h]]
        = Singles(Len(decoding[c]), Passed(c, test, h), e)
  BY <1>1 DEF Singles
<1> QED
  BY <1>2 DEF Handed

(* The events that wait to be decoded.                                      *)
Waits(c) == {decoding[c][i][2] : i \in 1 .. Len(decoding[c])}

LEMMA HandedIs ==
    ASSUME DInv, NEW c \in Clients, NEW test, NEW h \in Handlers
    PROVE  /\ Handed(c, test, h) \in Seq(Messages)
           /\ IsInjective(Handed(c, test, h))
           /\ \A m \in ToSet(Handed(c, test, h)) :
                 /\ \E s \in Subs : h \in handlers[c][s] /\ m \in delivered[c][s]
                 /\ m \in Waits(c)
           /\ test # "ok" => Handed(c, test, h) = <<>>
<1> DEFINE n == Len(decoding[c])
           P == Passed(c, test, h)
           e == [i \in DOMAIN decoding[c] |-> decoding[c][i][2]]
           out == FlattenSeq(Singles(n, P, e))
<1>0. DeliveryTypes /\ OneEntry /\ DecodedOnce
  BY DEF DInv
<1>1. n \in Nat /\ P \subseteq 1 .. n /\ P \cap 1 .. n = P
  BY <1>0, Decoding DEF Passed
<1>2. \A i \in P : /\ e[i] \in Messages /\ test = "ok" /\ e[i] = decoding[c][i][2]
                   /\ decoding[c][i][1] \in Subs /\ h \in handlers[c][decoding[c][i][1]]
                   /\ e[i] \in delivered[c][decoding[c][i][1]]
                   /\ decoding[c][i] = <<decoding[c][i][1], e[i]>>
  BY <1>0, Decoding, DecodesMessages DEF Passed, DecodedOnce
<1>3. Handed(c, test, h) = out
  BY <1>0, HandedSingles
<1> HIDE DEF P, e
<1>4. /\ out \in Seq(Messages)
      /\ \A a \in DOMAIN out : \E i \in P : e[i] = out[a]
      /\ \A a, b \in DOMAIN out : a < b => \E i, j \in P : i < j /\ e[i] = out[a] /\ e[j] = out[b]
  <2> HIDE DEF n
  <2>1. \A i \in P \cap 1 .. n : e[i] \in Messages
    BY <1>2
  <2>2. out \in Seq(Messages) /\ TakenFrom(out, n, P, e)
    BY <1>1, <2>1, FlattenSingles
  <2> HIDE DEF out
  <2> QED
    BY <1>1, <2>2 DEF TakenFrom
<1> HIDE DEF out
<1>5. \A i, j \in P : e[i] = e[j] => i = j
  <2> SUFFICES ASSUME NEW i \in P, NEW j \in P, e[i] = e[j] PROVE i = j
    OBVIOUS
  <2>1. decoding[c][i][1] = decoding[c][j][1]
    BY <1>0, <1>2 DEF OneEntry
  <2>2. decoding[c][i] = decoding[c][j] /\ i \in DOMAIN decoding[c] /\ j \in DOMAIN decoding[c]
    BY <1>2, <2>1 DEF P, Passed
  <2> QED
    BY <1>0, <2>2 DEF DecodedOnce, IsInjective
<1>6. ASSUME NEW a \in DOMAIN out, NEW b \in DOMAIN out, a < b PROVE out[a] # out[b]
  <2>1. PICK i \in P, j \in P : i < j /\ e[i] = out[a] /\ e[j] = out[b]
    BY <1>4, <1>6
  <2> QED
    BY <1>1, <1>5, <2>1
<1>7. DOMAIN out = 1 .. Len(out) /\ Len(out) \in Nat
  BY <1>4, LenProperties
<1>8. IsInjective(out)
  BY <1>6, <1>7 DEF IsInjective
<1>9. \A m \in ToSet(out) : /\ \E s \in Subs : h \in handlers[c][s] /\ m \in delivered[c][s]
                           /\ m \in Waits(c)
  <2>1. \A i \in P : e[i] \in Waits(c)
    BY <1>1, <1>2 DEF Waits
  <2> QED
    BY <1>2, <1>4, <2>1 DEF ToSet
<1>10. test # "ok" => out = <<>>
  <2> SUFFICES ASSUME test # "ok" PROVE out = <<>>
    OBVIOUS
  <2>1. DOMAIN out = {}
    BY <1>2, <1>4
  <2> QED
    BY <1>4, <2>1
<1> QED
  BY <1>3, <1>4, <1>8, <1>9, <1>10

(* All handlers are given the same, and others nothing.                     *)
LEMMA HandedToAll ==
    ASSUME DInv, NEW c \in Clients, NEW test
    PROVE  \E ms \in Seq(Messages) :
              /\ IsInjective(ms)
              /\ \A m \in ToSet(ms) : test = "ok" /\ m \in Waits(c) /\ \E s \in Subs : m \in delivered[c][s]
              /\ \A h \in Handlers :
                    Handed(c, test, h) = IF \E s \in Subs : h \in handlers[c][s] THEN ms ELSE <<>>
<1>0. DeliveryTypes /\ OneEntry
  BY DEF DInv
<1>1. ASSUME NEW h \in Handlers, ~ \E s \in Subs : h \in handlers[c][s]
      PROVE  Handed(c, test, h) = <<>>
  <2> DEFINE s == Handed(c, test, h)
  <2>1. ToSet(s) = {} /\ s \in Seq(Messages)
    BY <1>1, HandedIs
  <2> HIDE DEF s
  <2>2. DOMAIN s = {}
    BY <2>1 DEF ToSet
  <2>3. s = <<>>
    BY <2>1, <2>2
  <2> QED
    BY <2>3 DEF s
<1>2. ASSUME NEW h \in Handlers, NEW g \in Handlers,
             \E s \in Subs : h \in handlers[c][s], \E s \in Subs : g \in handlers[c][s]
      PROVE  Handed(c, test, h) = Handed(c, test, g)
  <2>1. \A s \in Subs : h \in handlers[c][s] <=> g \in handlers[c][s]
    BY <1>0, <1>2 DEF OneEntry
  <2>2. Passed(c, test, h) = Passed(c, test, g)
    BY <1>0, <2>1, Decoding DEF Passed
  <2> QED
    BY <1>0, <2>2, HandedSingles
<1>3. CASE \A h \in Handlers : ~ \E s \in Subs : h \in handlers[c][s]
  <2>1. <<>> \in Seq(Messages) /\ IsInjective(<<>>) /\ ToSet(<<>>) = {}
    BY DEF IsInjective, ToSet
  <2> QED
    BY <1>1, <1>3, <2>1
<1>4. ASSUME NEW h \in Handlers, \E s \in Subs : h \in handlers[c][s]
      PROVE  \E ms \in Seq(Messages) :
                /\ IsInjective(ms)
                /\ \A m \in ToSet(ms) : test = "ok" /\ m \in Waits(c) /\ \E s \in Subs : m \in delivered[c][s]
                /\ \A g \in Handlers :
                      Handed(c, test, g) = IF \E s \in Subs : g \in handlers[c][s] THEN ms ELSE <<>>
  <2> DEFINE ms == Handed(c, test, h)
  <2>1. ms \in Seq(Messages) /\ IsInjective(ms)
        /\ \A m \in ToSet(ms) : m \in Waits(c) /\ \E s \in Subs : m \in delivered[c][s]
        /\ (test # "ok" => ms = <<>>)
    BY HandedIs
  <2>2. \A m \in ToSet(ms) : test = "ok"
    BY <2>1 DEF ToSet
  <2>3. \A g \in Handlers : Handed(c, test, g) = IF \E s \in Subs : g \in handlers[c][s] THEN ms ELSE <<>>
    BY <1>1, <1>2, <1>4
  <2> HIDE DEF ms
  <2> QED
    BY <2>1, <2>2, <2>3
<1> QED
  BY <1>3, <1>4

deliveryVars == <<kat, life, subId, handlers, delivered, decoding, given>>

LEMMA DeliveryInit == Init => DInv
<1> SUFFICES ASSUME Init PROVE DInv
  OBVIOUS
<1> USE DEF Init
<1>1. <<>> \in Seq(Messages) /\ <<>> \in Seq(Subs \X Events) /\ IsInjective(<<>>) /\ DOMAIN <<>> = {}
  BY DEF IsInjective
<1>2. DeliveryTypes
  BY <1>1 DEF DeliveryTypes
<1>3. OneEntry /\ KatWaits
  BY DEF OneEntry, KatWaits
<1>4. DecodedOnce
  BY <1>1 DEF DecodedOnce
<1> QED
  BY <1>2, <1>3, <1>4 DEF DInv

LEMMA DeliveryKept == DInv /\ UNCHANGED deliveryVars => DInv'
BY DEF DInv, deliveryVars, DeliveryTypes, OneEntry, DecodedOnce, KatWaits

LEMMA NoneIsNoEntry == \A s \in Subs : s # None
BY NostrConstants DEF Subs

LEMMA SubscribeDelivers ==
    ASSUME TypeOK, DInv, NEW c \in Clients, NEW h \in Handlers, Subscribe(c, h)
    PROVE  /\ DInv'
           /\ \A s \in Subs : h \notin handlers[c][s]
           /\ \E s \in Subs : handlers' = [handlers EXCEPT ![c][s] = @ \cup {h}]
<1>0. DeliveryTypes /\ OneEntry /\ DecodedOnce /\ KatWaits
  BY DEF DInv
<1>1. /\ life[c] = "open" /\ \A s \in Subs : h \notin handlers[c][s]
      /\ given' = [given EXCEPT ![c][h] = <<>>]
      /\ UNCHANGED <<kat, life, delivered, decoding>>
  BY DEF Subscribe
<1>2. PICK s \in Subs :
        /\ handlers' = [handlers EXCEPT ![c][s] = @ \cup {h}]
        /\ subId' = [subId EXCEPT ![c] = s]
        /\ subId[c] \in {s, None}
  <2>1. CASE /\ subId[c] # None /\ UNCHANGED subId
             /\ handlers' = [handlers EXCEPT ![c][subId[c]] = @ \cup {h}]
    BY <2>1 DEF TypeOK
  <2>2. ASSUME NEW s, s = used[c] + 1, s <= MaxSubscribes, subId[c] = None,
               subId' = [subId EXCEPT ![c] = s], handlers' = [handlers EXCEPT ![c][s] = {h}]
        PROVE  /\ s \in Subs
               /\ handlers' = [handlers EXCEPT ![c][s] = @ \cup {h}]
    <3>1. s \in Subs
      <4>1. used[c] \in Nat /\ MaxSubscribes \in Nat
        BY NostrConstants DEF TypeOK
      <4> QED
        BY <2>2, <4>1 DEF Subs
    <3>2. handlers[c][s] = {}
      BY <1>0, <1>1, <2>2, <3>1, NoneIsNoEntry DEF OneEntry
    <3>3. handlers[c][s] \cup {h} = {h}
      BY <3>2
    <3> QED
      BY <2>2, <3>1, <3>3
  <2> QED
    BY <2>1, <2>2 DEF Subscribe
<1>3. \A d \in Clients, t \in Subs :
          handlers'[d][t] = IF d = c /\ t = s THEN handlers[c][s] \cup {h} ELSE handlers[d][t]
  BY <1>0, <1>2 DEF DeliveryTypes
<1>4. \A d \in Clients, g \in Handlers :
          given'[d][g] = IF d = c /\ g = h THEN <<>> ELSE given[d][g]
  BY <1>0, <1>1 DEF DeliveryTypes
<1>5. DeliveryTypes'
  <2>1. handlers' \in [Clients -> [Subs -> SUBSET Handlers]]
    BY <1>0, <1>2 DEF DeliveryTypes
  <2>2. given' \in [Clients -> [Handlers -> Seq(Messages)]]
    <3>1. <<>> \in Seq(Messages)
      OBVIOUS
    <3> QED
      BY <1>0, <1>1, <3>1 DEF DeliveryTypes
  <2> QED
    BY <1>0, <1>1, <2>1, <2>2 DEF DeliveryTypes
<1>6. OneEntry'
  <2>1. \A t \in Subs : handlers[c][t] # {} => t = s
    BY <1>0, <1>1, <1>2, NoneIsNoEntry DEF OneEntry
  <2>2. /\ subId' \in [Clients -> Subs \cup {None}] /\ subId'[c] = s
        /\ \A d \in Clients \ {c} : subId'[d] = subId[d]
    BY <1>2 DEF TypeOK
  <2> QED
    BY <1>0, <1>1, <1>3, <2>1, <2>2 DEF OneEntry
<1>7. DecodedOnce'
  <2> SUFFICES ASSUME NEW d \in Clients, NEW t \in Subs, NEW g \in handlers'[d][t]
               PROVE  ToSet(given'[d][g]) \subseteq delivered[d][t]
    BY <1>0, <1>1 DEF DecodedOnce
  <2>1. g \in Handlers
    BY <1>5 DEF DeliveryTypes
  <2>2. CASE d = c /\ g = h
    <3>1. given'[d][g] = <<>> /\ ToSet(<<>>) = {}
      BY <1>4, <2>1, <2>2 DEF ToSet
    <3> QED
      BY <3>1
  <2>3. CASE ~ (d = c /\ g = h)
    <3>1. given'[d][g] = given[d][g] /\ g \in handlers[d][t]
      BY <1>3, <1>4, <2>1, <2>3
    <3> QED
      BY <1>0, <3>1 DEF DecodedOnce
  <2> QED
    BY <2>2, <2>3
<1>8. KatWaits'
  BY <1>0, <1>1, <1>4 DEF KatWaits
<1> QED
  BY <1>1, <1>2, <1>5, <1>6, <1>7, <1>8 DEF DInv

LEMMA UnsubscribeDelivers ==
    ASSUME TypeOK, DInv, NEW c \in Clients, NEW h \in Handlers, Unsubscribe(c, h)
    PROVE  /\ DInv'
           /\ \E s \in Subs : /\ handlers' = [handlers EXCEPT ![c][s] = @ \ {h}]
                              /\ \A t \in Subs : h \in handlers[c][t] => t = s
<1>0. DeliveryTypes /\ OneEntry /\ DecodedOnce /\ KatWaits
  BY DEF DInv
<1> DEFINE s == subId[c]
<1>1. /\ life[c] = "open" /\ s \in Subs /\ s # None
      /\ handlers' = [handlers EXCEPT ![c][s] = @ \ {h}]
      /\ UNCHANGED <<kat, life, delivered, decoding, given>>
      /\ subId' = IF handlers[c][s] = {h} THEN [subId EXCEPT ![c] = None] ELSE subId
  BY DEF Unsubscribe, TypeOK
<1>2. \A d \in Clients, t \in Subs :
          handlers'[d][t] = IF d = c /\ t = s THEN handlers[c][s] \ {h} ELSE handlers[d][t]
  BY <1>0, <1>1 DEF DeliveryTypes
<1>3. \A t \in Subs : handlers[c][t] # {} => t = s
  BY <1>0, <1>1 DEF OneEntry
<1>4. DeliveryTypes'
  <2>1. handlers' \in [Clients -> [Subs -> SUBSET Handlers]]
    BY <1>0, <1>1 DEF DeliveryTypes
  <2> QED
    BY <1>0, <1>1, <2>1 DEF DeliveryTypes
<1>5. OneEntry'
  <2>1. \A d \in Clients \ {c} : subId'[d] = subId[d]
    BY <1>1 DEF TypeOK
  <2>2. subId'[c] = IF handlers[c][s] = {h} THEN None ELSE s
    BY <1>1 DEF TypeOK
  <2> HIDE DEF s
  <2> QED
    BY <1>0, <1>1, <1>2, <1>3, <2>1, <2>2 DEF OneEntry
<1>6. DecodedOnce'
  BY <1>0, <1>1, <1>2 DEF DecodedOnce
<1>7. KatWaits'
  BY <1>0, <1>1 DEF KatWaits
<1> QED
  BY <1>1, <1>3, <1>4, <1>5, <1>6, <1>7 DEF DInv

LEMMA CloseDelivers ==
    ASSUME TypeOK, DInv, NEW c \in Clients, Close(c) \/ CloseResolves(c)
    PROVE  DInv'
<1>0. DeliveryTypes /\ OneEntry /\ DecodedOnce /\ KatWaits
  BY DEF DInv
<1>1. CASE Close(c)
  <2>1. /\ life[c] = "open" /\ life' = [life EXCEPT ![c] = "closing"]
        /\ subId' = [subId EXCEPT ![c] = None]
        /\ UNCHANGED <<kat, handlers, delivered, decoding, given>>
    BY <1>1 DEF Close
  <2>2. \A d \in Clients : /\ life'[d] = IF d = c THEN "closing" ELSE life[d]
                           /\ subId'[d] = IF d = c THEN None ELSE subId[d]
    BY <1>0, <2>1 DEF DeliveryTypes, TypeOK
  <2>3. DeliveryTypes'
    BY <1>0, <2>1 DEF DeliveryTypes
  <2>4. OneEntry'
    BY <1>0, <2>1, <2>2 DEF OneEntry
  <2>5. DecodedOnce' /\ KatWaits'
    BY <1>0, <2>1, <2>2 DEF DecodedOnce, KatWaits
  <2> QED
    BY <2>3, <2>4, <2>5 DEF DInv
<1>2. CASE CloseResolves(c)
  <2>1. /\ life[c] = "closing"
        /\ life' = [life EXCEPT ![c] = "closed"]
        /\ UNCHANGED <<kat, subId, handlers, delivered, decoding, given>>
    BY <1>2 DEF CloseResolves
  <2>2. \A d \in Clients : life'[d] = IF d = c THEN "closed" ELSE life[d]
    BY <1>0, <2>1 DEF DeliveryTypes
  <2>3. DeliveryTypes'
    BY <1>0, <2>1 DEF DeliveryTypes
  <2>4. OneEntry'
    BY <1>0, <2>1, <2>2 DEF OneEntry
  <2>5. DecodedOnce' /\ KatWaits'
    BY <1>0, <2>1, <2>2 DEF DecodedOnce, KatWaits
  <2> QED
    BY <2>3, <2>4, <2>5 DEF DInv
<1> QED
  BY <1>1, <1>2

(* All handlers of an adapter are given the same list, which is new to them. *)
Gives(c, ms) ==
    /\ ms \in Seq(Messages) /\ IsInjective(ms)
    /\ \A m \in ToSet(ms) : \E s \in Subs : m \in delivered'[c][s]
    /\ \A s \in Subs : \A h \in handlers[c][s] : ToSet(ms) \cap ToSet(given[c][h]) = {}
    /\ given' = [given EXCEPT ![c] = [h \in Handlers |->
                    IF h \in UNION {handlers[c][s] : s \in Subs} THEN @[h] \o ms ELSE @[h]]]

LEMMA Joined ==
    ASSUME NEW s \in Seq(Messages), NEW t \in Seq(Messages)
    PROVE  s \o t \in Seq(Messages) /\ ToSet(s \o t) = ToSet(s) \cup ToSet(t)
<1>1. s \o t \in Seq(Messages)
  OBVIOUS
<1>2. \A i \in DOMAIN s : i \in DOMAIN (s \o t) /\ (s \o t)[i] = s[i]
  OBVIOUS
<1>3. \A i \in DOMAIN t : Len(s) + i \in DOMAIN (s \o t) /\ (s \o t)[Len(s) + i] = t[i]
  OBVIOUS
<1>4. \A k \in DOMAIN (s \o t) : IF k \in DOMAIN s THEN (s \o t)[k] = s[k]
                                ELSE k - Len(s) \in DOMAIN t /\ (s \o t)[k] = t[k - Len(s)]
  OBVIOUS
<1> DEFINE u == s \o t
<1> HIDE DEF u
<1>5. \A x : (\E k \in DOMAIN u : u[k] = x)
                <=> (\E i \in DOMAIN s : s[i] = x) \/ (\E i \in DOMAIN t : t[i] = x)
  BY <1>2, <1>3, <1>4 DEF u
<1>6. ToSet(u) = ToSet(s) \cup ToSet(t)
  BY <1>5 DEF ToSet
<1> QED
  BY <1>1, <1>6 DEF u

LEMMA KatDelivers ==
    ASSUME DInv, NEW c \in Clients, KatSettles(c)
    PROVE  /\ DInv' /\ UNCHANGED <<life, handlers>>
           /\ decoding'[c] = <<>>
           /\ \E ms : Gives(c, ms) /\ ToSet(ms) \subseteq Waits(c)
<1>0. DeliveryTypes /\ OneEntry /\ DecodedOnce /\ KatWaits
  BY DEF DInv
<1>1. PICK test \in {"ok", "failed"} :
        /\ kat[c] = "pending" /\ kat' = [kat EXCEPT ![c] = test]
        /\ given' = [given EXCEPT ![c] = [h \in Handlers |-> @[h] \o Handed(c, test, h)]]
        /\ decoding' = [decoding EXCEPT ![c] = <<>>]
        /\ UNCHANGED <<life, subId, handlers, delivered>>
  BY DEF KatSettles, Handed
<1>2. PICK ms \in Seq(Messages) :
        /\ IsInjective(ms)
        /\ \A m \in ToSet(ms) : test = "ok" /\ m \in Waits(c) /\ \E s \in Subs : m \in delivered[c][s]
        /\ \A h \in Handlers :
              Handed(c, test, h) = IF \E s \in Subs : h \in handlers[c][s] THEN ms ELSE <<>>
  BY HandedToAll
<1>3. \A h \in Handlers : given[c][h] = <<>>
  BY <1>0, <1>1 DEF KatWaits
<1>4. \A h \in Handlers : /\ <<>> \o Handed(c, test, h) = Handed(c, test, h)
                          /\ Handed(c, test, h) \in Seq(Messages)
  <2> SUFFICES ASSUME NEW h \in Handlers
               PROVE  /\ <<>> \o Handed(c, test, h) = Handed(c, test, h)
                      /\ Handed(c, test, h) \in Seq(Messages)
    OBVIOUS
  <2>1. Handed(c, test, h) \in Seq(Messages)
    BY HandedIs
  <2> QED
    BY <2>1
<1>5. \A d \in Clients, h \in Handlers :
          given'[d][h] = IF d = c THEN Handed(c, test, h) ELSE given[d][h]
  BY <1>0, <1>1, <1>3, <1>4 DEF DeliveryTypes
<1>6. given' \in [Clients -> [Handlers -> Seq(Messages)]]
  <2>1. \A h \in Handlers : given[c][h] \o Handed(c, test, h) \in Seq(Messages)
    BY <1>3, <1>4
  <2> QED
    BY <1>0, <1>1, <2>1 DEF DeliveryTypes
<1>7. DeliveryTypes'
  <2>1. <<>> \in Seq(Subs \X Events)
    OBVIOUS
  <2> QED
    BY <1>0, <1>1, <1>6, <2>1 DEF DeliveryTypes
<1>8. OneEntry'
  BY <1>0, <1>1 DEF OneEntry
<1>9. \A d \in Clients : decoding'[d] = (IF d = c THEN <<>> ELSE decoding[d])
                         /\ kat'[d] = (IF d = c THEN test ELSE kat[d])
  BY <1>0, <1>1 DEF DeliveryTypes
<1>10. DecodedOnce'
  <2>1. ASSUME NEW s \in Subs, NEW h \in handlers[c][s]
        PROVE  ToSet(given'[c][h]) \subseteq delivered[c][s]
    <3>1. h \in Handlers
      BY <1>0 DEF DeliveryTypes
    <3>2. \A t \in Subs : h \in handlers[c][t] => t = s
      BY <1>0 DEF OneEntry
    <3> QED
      BY <1>5, <3>1, <3>2, HandedIs
  <2>2. IsInjective(<<>>) /\ DOMAIN <<>> = {}
    BY DEF IsInjective
  <2>3. ASSUME NEW d \in Clients, NEW s \in Subs, NEW h \in handlers[d][s]
        PROVE  ToSet(given'[d][h]) \subseteq delivered[d][s]
    <3>1. CASE d = c
      BY <2>1, <3>1
    <3>2. CASE d # c
      <4>1. given'[d][h] = given[d][h]
        BY <1>0, <1>5, <3>2 DEF DeliveryTypes
      <4> QED
        BY <1>0, <4>1 DEF DecodedOnce
    <3> QED
      BY <3>1, <3>2
  <2>4. ASSUME NEW d \in Clients
        PROVE  /\ IsInjective(decoding'[d])
               /\ \A i \in DOMAIN decoding'[d] : decoding'[d][i][2] \in delivered[d][decoding'[d][i][1]]
    <3>1. CASE d = c
      BY <1>9, <2>2, <3>1
    <3>2. CASE d # c
      BY <1>0, <1>9, <3>2 DEF DecodedOnce
    <3> QED
      BY <3>1, <3>2
  <2> QED
    BY <1>1, <2>3, <2>4 DEF DecodedOnce
<1>11. KatWaits'
  <2>1. test # "ok" => \A h \in Handlers : Handed(c, test, h) = <<>>
    BY HandedIs
  <2>2. \A d \in Clients : life'[d] = life[d]
    BY <1>1
  <2> QED
    BY <1>0, <1>5, <1>9, <2>1, <2>2 DEF KatWaits
<1>13. Gives(c, ms)
  <2>1. given' = [given EXCEPT ![c] = [h \in Handlers |->
                    IF h \in UNION {handlers[c][s] : s \in Subs} THEN @[h] \o ms ELSE @[h]]]
    <3>1. \A h \in Handlers : given[c][h] \o Handed(c, test, h)
              = IF h \in UNION {handlers[c][s] : s \in Subs} THEN given[c][h] \o ms ELSE given[c][h]
      <4> SUFFICES ASSUME NEW h \in Handlers
                   PROVE  given[c][h] \o Handed(c, test, h)
                            = IF h \in UNION {handlers[c][s] : s \in Subs}
                              THEN given[c][h] \o ms ELSE given[c][h]
        OBVIOUS
      <4>1. Handed(c, test, h) = IF h \in UNION {handlers[c][s] : s \in Subs} THEN ms ELSE <<>>
        BY <1>2
      <4>2. given[c][h] = <<>> /\ <<>> \o <<>> = <<>>
        BY <1>3
      <4> QED
        BY <4>1, <4>2
    <3> QED
      BY <1>0, <1>1, <3>1 DEF DeliveryTypes
  <2>2. \A s \in Subs : \A h \in handlers[c][s] : ToSet(given[c][h]) = {}
    <3>1. ToSet(<<>>) = {}
      BY DEF ToSet
    <3> QED
      BY <1>0, <1>3, <3>1 DEF DeliveryTypes
  <2> QED
    BY <1>1, <1>2, <2>1, <2>2 DEF Gives
<1> QED
  BY <1>1, <1>2, <1>7, <1>8, <1>9, <1>10, <1>11, <1>13 DEF DInv

LEMMA ReceiveDelivers ==
    ASSUME TypeOK, DInv, NEW c \in Clients, NEW r \in Relays, ReceiveEvent(c, r)
    PROVE  /\ DInv' /\ UNCHANGED <<kat, life, handlers>>
           /\ UNCHANGED given \/ (life[c] # "closed" /\ \E ms : Gives(c, ms))
           /\ \A d \in Clients, s \in Subs : \A e \in delivered'[d][s] :
                 e \in delivered[d][s] \/ \E f \in wire[c][r] : f.type = "EVENT" /\ f.event = e
<1>0. DeliveryTypes /\ OneEntry /\ DecodedOnce /\ KatWaits
  BY DEF DInv
<1>1. PICK f \in wire[c][r] :
        /\ f.type = "EVENT" /\ UNCHANGED <<kat, life, subId, handlers>>
        /\ \/ /\ Fresh(c, f)
              /\ delivered' = [delivered EXCEPT ![c][f.sub] = @ \cup {f.event}]
              /\ IF kat[c] = "pending"
                 THEN /\ decoding' = [decoding EXCEPT ![c] = Append(@, <<f.sub, f.event>>)]
                      /\ UNCHANGED given
                 ELSE /\ given' = [given EXCEPT ![c] = [h \in Handlers |->
                                       @[h] \o Dispatched(c, kat[c], f.sub, f.event)[h]]]
                      /\ UNCHANGED decoding
           \/ UNCHANGED <<delivered, decoding, given>>
  BY DEF ReceiveEvent
<1>2. CASE UNCHANGED <<delivered, decoding, given>>
  BY <1>1, <1>2, DeliveryKept DEF deliveryVars
<1>3. CASE /\ Fresh(c, f)
           /\ delivered' = [delivered EXCEPT ![c][f.sub] = @ \cup {f.event}]
           /\ IF kat[c] = "pending"
              THEN /\ decoding' = [decoding EXCEPT ![c] = Append(@, <<f.sub, f.event>>)]
                   /\ UNCHANGED given
              ELSE /\ given' = [given EXCEPT ![c] = [h \in Handlers |->
                                    @[h] \o Dispatched(c, kat[c], f.sub, f.event)[h]]]
                   /\ UNCHANGED decoding
  <2> DEFINE e == f.event
             s == f.sub
  <2>1. s \in Subs /\ e \in Events
    <3>1. f \in Frames
      BY DEF TypeOK, RelayTypes
    <3> QED
      BY <1>1, <3>1 DEF Frames
  <2>2. s = subId[c] /\ e \notin delivered[c][s] /\ life[c] = "open"
    BY <1>0, <1>3, <2>1, NoneIsNoEntry DEF Fresh, OneEntry
  <2>3. \A t \in Subs : handlers[c][t] # {} => t = s
    BY <1>0, <2>2 DEF OneEntry
  <2> HIDE DEF e, s
  <2>4. delivered' = [delivered EXCEPT ![c][s] = @ \cup {e}]
    BY <1>3 DEF e, s
  <2>5. /\ delivered' \in [Clients -> [Subs -> SUBSET Events]]
        /\ \A d \in Clients, t \in Subs :
              delivered'[d][t] = IF d = c /\ t = s THEN delivered[c][s] \cup {e} ELSE delivered[d][t]
    BY <1>0, <2>1, <2>4 DEF DeliveryTypes
  <2>6. OneEntry'
    BY <1>0, <1>1 DEF OneEntry
  <2>7. \A d \in Clients, t \in Subs : \A x \in delivered'[d][t] :
                 x \in delivered[d][t] \/ \E g \in wire[c][r] : g.type = "EVENT" /\ g.event = x
    BY <1>1, <2>5 DEF e
  <2>8. CASE kat[c] = "pending"
    <3>1. decoding' = [decoding EXCEPT ![c] = Append(@, <<s, e>>)] /\ UNCHANGED given
      BY <1>3, <2>8 DEF e, s
    <3> DEFINE q == decoding[c]
               p == Append(q, <<s, e>>)
    <3>2. q \in Seq(Subs \X Events) /\ <<s, e>> \in Subs \X Events
      BY <1>0, <2>1 DEF DeliveryTypes
    <3>3. /\ p \in Seq(Subs \X Events)
          /\ \A i \in DOMAIN p : p[i] = <<s, e>> \/ (i \in DOMAIN q /\ p[i] = q[i])
          /\ \A i, j \in DOMAIN p : i # j => i \in DOMAIN q \/ j \in DOMAIN q
          /\ \A i \in DOMAIN p : i \notin DOMAIN q => p[i] = <<s, e>>
          /\ \A i \in DOMAIN q : p[i] = q[i]
      <4> HIDE DEF q
      <4>1. DOMAIN q = 1 .. Len(q) /\ Len(q) \in Nat /\ p \in Seq(Subs \X Events)
            /\ DOMAIN p = 1 .. (Len(q) + 1) /\ p[Len(q) + 1] = <<s, e>>
            /\ \A i \in 1 .. Len(q) : p[i] = q[i]
        BY <3>2
      <4> HIDE DEF p
      <4> QED
        BY <4>1
    <3>4. decoding'[c] = p /\ \A d \in Clients \ {c} : decoding'[d] = decoding[d]
      BY <1>0, <3>1 DEF DeliveryTypes
    <3>5. \A i \in DOMAIN q : q[i] # <<s, e>>
      <4> SUFFICES ASSUME NEW i \in DOMAIN q, q[i] = <<s, e>> PROVE FALSE
        OBVIOUS
      <4>1. q[i][1] = s /\ q[i][2] = e
        OBVIOUS
      <4> QED
        BY <1>0, <2>2, <4>1 DEF DecodedOnce
    <3>6. \A i \in DOMAIN q : q[i][2] \in delivered[c][q[i][1]] /\ q[i][1] \in Subs
      BY <1>0, Decoding DEF DecodedOnce
    <3>7. IsInjective(q)
      BY <1>0 DEF DecodedOnce
    <3> HIDE DEF p, q
    <3>8. IsInjective(p)
      BY <3>3, <3>5, <3>7 DEF IsInjective
    <3>9. ASSUME NEW i \in DOMAIN p PROVE p[i][2] \in delivered'[c][p[i][1]]
      <4>1. CASE p[i] = <<s, e>>
        BY <2>1, <2>5, <4>1
      <4>2. CASE i \in DOMAIN q /\ p[i] = q[i]
        BY <2>5, <3>6, <4>2
      <4> QED
        BY <3>3, <4>1, <4>2
    <3>10. DeliveryTypes'
      BY <1>0, <1>1, <2>5, <3>1, <3>3 DEF DeliveryTypes, p, q
    <3>11. DecodedOnce'
      <4>1. \A d \in Clients : IsInjective(decoding'[d])
        BY <1>0, <3>4, <3>8 DEF DecodedOnce
      <4>2. \A d \in Clients : \A i \in DOMAIN decoding'[d] :
                decoding'[d][i][2] \in delivered'[d][decoding'[d][i][1]]
        <5>1. ASSUME NEW d \in Clients, d # c, NEW i \in DOMAIN decoding[d]
              PROVE  decoding[d][i][2] \in delivered'[d][decoding[d][i][1]]
          BY <1>0, <2>5, <5>1, Decoding DEF DecodedOnce
        <5> QED
          BY <3>4, <3>9, <5>1
      <4>3. \A d \in Clients, t \in Subs : \A h \in handlers'[d][t] :
                ToSet(given'[d][h]) \subseteq delivered'[d][t]
        BY <1>0, <1>1, <2>5, <3>1 DEF DecodedOnce
      <4> QED
        BY <4>1, <4>2, <4>3 DEF DecodedOnce
    <3>12. KatWaits'
      <4>1. \A d \in Clients : life'[d] = life[d] /\ kat'[d] = kat[d]
        BY <1>1
      <4> QED
        BY <1>0, <2>2, <2>8, <3>1, <3>4, <4>1 DEF KatWaits
    <3> QED
      BY <1>1, <2>6, <2>7, <3>1, <3>10, <3>11, <3>12 DEF DInv
  <2>9. CASE kat[c] # "pending"
    <3> DEFINE new == IF Decodes(c, kat[c], e) THEN <<e>> ELSE <<>>
    <3>1. /\ given' = [given EXCEPT ![c] = [h \in Handlers |-> @[h] \o Dispatched(c, kat[c], s, e)[h]]]
          /\ UNCHANGED decoding
      BY <1>3, <2>9 DEF e, s
    <3>2. /\ new \in Seq(Messages) /\ IsInjective(new) /\ ToSet(new) \subseteq {e}
          /\ kat[c] # "ok" => new = <<>>
      <4>1. CASE Decodes(c, kat[c], e)
        <5>1. e \in Messages /\ kat[c] = "ok" /\ new = <<e>>
          BY <2>1, <4>1, DecodesMessages
        <5> QED
          BY <5>1 DEF IsInjective, ToSet
      <4>2. CASE ~ Decodes(c, kat[c], e)
        BY <4>2 DEF IsInjective, ToSet
      <4> QED
        BY <4>1, <4>2
    <3>3. \A h \in Handlers : Dispatched(c, kat[c], s, e)[h] =
              IF h \in UNION {handlers[c][t] : t \in Subs} THEN new ELSE <<>>
      BY <2>1, <2>3 DEF Dispatched
    <3> HIDE DEF new
    <3>4. \A h \in Handlers : given[c][h] \in Seq(Messages)
      BY <1>0 DEF DeliveryTypes
    <3>5. \A h \in Handlers : given[c][h] \o Dispatched(c, kat[c], s, e)[h] =
              IF h \in UNION {handlers[c][t] : t \in Subs} THEN given[c][h] \o new ELSE given[c][h]
      <4>1. \A h \in Handlers : given[c][h] \o <<>> = given[c][h]
        BY <3>4
      <4> QED
        BY <3>3, <4>1
    <3>6. given' = [given EXCEPT ![c] = [h \in Handlers |->
                    IF h \in UNION {handlers[c][t] : t \in Subs} THEN @[h] \o new ELSE @[h]]]
      BY <1>0, <3>1, <3>5 DEF DeliveryTypes
    <3>7. \A h \in Handlers : given[c][h] \o new \in Seq(Messages)
                              /\ ToSet(given[c][h] \o new) = ToSet(given[c][h]) \cup ToSet(new)
      BY <3>2, <3>4, Joined
    <3>8. given' \in [Clients -> [Handlers -> Seq(Messages)]]
      BY <1>0, <3>4, <3>6, <3>7 DEF DeliveryTypes
    <3>9. \A d \in Clients, h \in Handlers :
              given'[d][h] = IF d = c /\ h \in UNION {handlers[c][t] : t \in Subs}
                             THEN given[c][h] \o new ELSE given[d][h]
      BY <1>0, <3>6 DEF DeliveryTypes
    <3>10. DeliveryTypes'
      BY <1>0, <1>1, <2>5, <3>1, <3>8 DEF DeliveryTypes
    <3>11. DecodedOnce'
      <4>1. \A d \in Clients : IsInjective(decoding'[d])
        BY <1>0, <3>1 DEF DecodedOnce
      <4>2. \A d \in Clients : \A i \in DOMAIN decoding'[d] :
                decoding'[d][i][2] \in delivered'[d][decoding'[d][i][1]]
        BY <1>0, <2>5, <3>1, Decoding DEF DecodedOnce
      <4>3. ASSUME NEW d \in Clients, NEW t \in Subs, NEW h \in handlers'[d][t]
            PROVE  ToSet(given'[d][h]) \subseteq delivered'[d][t]
        <5>1. h \in Handlers /\ h \in handlers[d][t] /\ ToSet(given[d][h]) \subseteq delivered[d][t]
              /\ delivered[d][t] \subseteq delivered'[d][t]
          <6>1. h \in handlers[d][t] /\ handlers[d][t] \subseteq Handlers
            BY <1>0, <1>1 DEF DeliveryTypes
          <6>2. delivered[d][t] \subseteq delivered'[d][t]
            BY <2>5
          <6> QED
            BY <1>0, <6>1, <6>2 DEF DecodedOnce
        <5>2. CASE d = c
          <6>1. t = s
            BY <2>3, <5>1, <5>2
          <6>2. ToSet(given'[c][h]) = ToSet(given[c][h]) \cup ToSet(new)
            BY <3>7, <3>9, <5>1, <5>2
          <6> QED
            BY <2>5, <3>2, <5>1, <5>2, <6>1, <6>2
        <5>3. CASE d # c
          BY <3>9, <5>1, <5>3
        <5> QED
          BY <5>2, <5>3
      <4> QED
        BY <4>1, <4>2, <4>3 DEF DecodedOnce
    <3>12. KatWaits'
      <4>1. \A d \in Clients : life'[d] = life[d] /\ kat'[d] = kat[d] /\ decoding'[d] = decoding[d]
        BY <1>1, <3>1
      <4>2. ASSUME NEW d \in Clients, kat[d] # "ok", NEW h \in Handlers PROVE given'[d][h] = <<>>
        <5>1. given[d][h] = <<>> /\ <<>> \o <<>> = <<>>
          BY <1>0, <4>2 DEF KatWaits
        <5> QED
          BY <3>2, <3>9, <4>2, <5>1
      <4> QED
        BY <1>0, <4>1, <4>2 DEF KatWaits
    <3>13. Gives(c, new)
      <4>1. \A m \in ToSet(new) : m = e /\ m \in delivered'[c][s]
        BY <2>1, <2>5, <3>2
      <4>2. ASSUME NEW t \in Subs, NEW h \in handlers[c][t] PROVE ToSet(new) \cap ToSet(given[c][h]) = {}
        <5>1. t = s /\ ToSet(given[c][h]) \subseteq delivered[c][s]
          BY <1>0, <2>3 DEF DecodedOnce
        <5> QED
          BY <2>2, <4>1, <5>1
      <4> QED
        BY <2>1, <3>2, <3>6, <4>1, <4>2 DEF Gives
    <3>14. \E ms : Gives(c, ms)
      BY <3>13
    <3> QED
      BY <1>1, <2>2, <2>6, <2>7, <3>10, <3>11, <3>12, <3>14 DEF DInv
  <2> QED
    BY <2>8, <2>9
<1> QED
  BY <1>1, <1>2, <1>3

-----------------------------------------------------------------------------
(* What is sent, answered and delivered.                                    *)

SendsAfterKat ==
    \A m \in Messages : kat[Author[m]] # "ok" =>
        /\ pub[m].phase \in {"idle", "encoding", "rejected"}
        /\ \A r \in Relays : ~ Seen(m, r)
        /\ m \notin accepted

(* A frame tells that a relay has accepted its message.                     *)
Told(f) == IF f.type = "OK" THEN f.ok ELSE f.event \in Messages

(* Only accepted messages are acknowledged, forwarded and delivered.        *)
AcceptedFirst ==
    /\ \A c \in Clients, r \in Relays : \A f \in wire[c][r] : Told(f) => f.event \in accepted
    /\ \A c \in Clients, s \in Subs : delivered[c][s] \cap Messages \subseteq accepted
    /\ \A m \in Messages : /\ pub[m].ack = "ok" => m \in accepted
                           /\ pub[m].phase = "resolved" => pub[m].ack = "ok"

SInv == accepted \subseteq Messages /\ SendsAfterKat /\ AcceptedFirst

LEMMA SentInit == Init => SInv
<1> SUFFICES ASSUME Init PROVE SInv
  OBVIOUS
<1>1. \A m \in Messages, r \in Relays : ~ Seen(m, r)
  BY Authors DEF Init, Seen
<1> QED
  BY <1>1 DEF Init, SInv, SendsAfterKat, AcceptedFirst

(* A publish() that a step moves.                                           *)
Moved(m) ==
    /\ kat'[Author[m]] = "ok" \/ pub'[m].phase \in {"idle", "encoding", "rejected"}
    /\ pub'[m].ack = "ok" => m \in accepted'
    /\ pub'[m].phase = "resolved" => pub'[m].ack = "ok"

LEMMA SendStep ==
    ASSUME SInv, accepted' \subseteq Messages, accepted \subseteq accepted',
           \A m \in Messages : kat[Author[m]] = "ok" => kat'[Author[m]] = "ok",
           \A m \in accepted' : m \in accepted \/ kat'[Author[m]] = "ok",
           \A m \in Messages, r \in Relays : Seen(m, r)' => Seen(m, r) \/ kat'[Author[m]] = "ok",
           \A c \in Clients, r \in Relays : \A f \in wire'[c][r] :
               f \in wire[c][r] \/ (Told(f) => f.event \in accepted'),
           \A c \in Clients, s \in Subs : \A e \in delivered'[c][s] :
               e \in delivered[c][s] \/ (e \in Messages => e \in accepted'),
           \A m \in Messages : pub'[m] = pub[m] \/ Moved(m)
    PROVE  SInv'
<1>0. SendsAfterKat /\ AcceptedFirst
  BY DEF SInv
<1>1. SendsAfterKat'
  BY <1>0 DEF SendsAfterKat, Moved
<1>2. \A c \in Clients, r \in Relays : \A f \in wire'[c][r] : Told(f)' => f.event \in accepted'
  BY <1>0 DEF AcceptedFirst, Told
<1>3. \A c \in Clients, s \in Subs : delivered'[c][s] \cap Messages \subseteq accepted'
  BY <1>0 DEF AcceptedFirst
<1>4. \A m \in Messages : /\ pub'[m].ack = "ok" => m \in accepted'
                          /\ pub'[m].phase = "resolved" => pub'[m].ack = "ok"
  BY <1>0 DEF AcceptedFirst, Moved
<1>5. AcceptedFirst'
  BY <1>2, <1>3, <1>4 DEF AcceptedFirst
<1> QED
  BY <1>1, <1>5 DEF SInv

(* Walks send what has passed the test.                                     *)
LEMMA WalksSend ==
    ASSUME SInv, \A m \in Messages : Went(m), UNCHANGED <<kat, delivered, accepted>>,
           \A c \in Clients, r \in Relays : wire'[c][r] \subseteq wire[c][r],
           \A m \in Messages :
               pub[m].phase = "encoding" => pub'[m] = pub[m] \/ kat[Author[m]] = "ok"
    PROVE  SInv'
<1>0. SendsAfterKat /\ AcceptedFirst
  BY DEF SInv
<1>1. ASSUME NEW m \in Messages, pub'[m] # pub[m] PROVE kat[Author[m]] = "ok" /\ Moved(m)
  <2>1. /\ pub[m].phase \in {"encoding", "walking"} /\ pub'[m].ack \in {pub[m].ack, "nacked"}
        /\ pub'[m].phase = "resolved" => pub'[m].ack = "ok"
    BY <1>1 DEF Went
  <2>2. kat[Author[m]] = "ok"
    BY <1>0, <1>1, <2>1 DEF SendsAfterKat
  <2> QED
    BY <1>0, <2>1, <2>2 DEF Moved, AcceptedFirst
<1>2. ASSUME NEW m \in Messages, NEW r \in Relays, Seen(m, r)' PROVE Seen(m, r) \/ kat[Author[m]] = "ok"
  <2>1. CASE pub[m].phase = "walking"
    BY <1>0, <2>1 DEF SendsAfterKat
  <2>2. CASE pub[m].phase = "encoding" /\ pub'[m] = pub[m]
    <3>1. pub'[m].phase = "encoding"
      BY <2>2
    <3> QED
      BY <1>2, <2>2, <3>1 DEF Went
  <2> QED
    BY <1>2, <2>1, <2>2 DEF Went
<1>3. accepted' \subseteq Messages
  BY DEF SInv
<1> QED
  BY <1>1, <1>2, <1>3, SendStep

LEMMA PublishSends ==
    ASSUME IInv, SInv, NEW m \in Messages, Publish(m) \/ StartWalk(m) \/ AckTimeout(m)
    PROVE  SInv'
<1>0. /\ SendsAfterKat /\ AcceptedFirst /\ accepted \subseteq Messages
      /\ pub \in [Messages -> PubTypes]
  BY DEF SInv, IInv, TypeOK
<1>1. UNCHANGED <<kat, delivered, accepted, wire>>
  BY DEF Publish, StartWalk, AckTimeout, adapterVars, relayVars
<1>2. ASSUME UNCHANGED inbox, UNCHANGED refusals, \A n \in Messages \ {m} : pub'[n] = pub[n], Moved(m)
      PROVE  SInv'
  <2>1. \A n \in Messages, r \in Relays : Seen(n, r)' = Seen(n, r)
    BY <1>2 DEF Seen
  <2> QED
    BY <1>0, <1>1, <1>2, <2>1, SendStep
<1>3. CASE Publish(m)
  <2>1. PICK ph \in {"encoding", "rejected"} : pub' = [pub EXCEPT ![m].phase = ph]
    BY <1>3 DEF Publish
  <2>2. /\ pub'[m].phase = ph /\ pub'[m].ack = pub[m].ack
        /\ \A n \in Messages \ {m} : pub'[n] = pub[n]
    BY <1>0, <2>1 DEF PubTypes
  <2>3. Moved(m)
    BY <1>0, <1>1, <2>2 DEF Moved, AcceptedFirst
  <2> QED
    BY <1>2, <1>3, <2>2, <2>3 DEF Publish, relayVars
<1>4. CASE StartWalk(m)
  <2>1. CASE pub' = [pub EXCEPT ![m].phase = "rejected"] /\ UNCHANGED <<inbox, refusals>>
    <3>1. /\ pub'[m].phase = "rejected" /\ pub'[m].ack = pub[m].ack
          /\ \A n \in Messages \ {m} : pub'[n] = pub[n]
      BY <1>0, <2>1 DEF PubTypes
    <3>2. Moved(m)
      BY <1>0, <1>1, <3>1 DEF Moved, AcceptedFirst
    <3> QED
      BY <1>2, <1>4, <2>1, <3>1, <3>2 DEF StartWalk
  <2>2. CASE kat[Author[m]] = "ok" /\ \A n \in Messages : Went(n)
    <3>1. \A n \in Messages \ {m} : pub'[n] = pub[n]
      BY <1>0, <1>4 DEF StartWalk, Proceed
    <3> QED
      BY <1>1, <2>2, <3>1, WalksSend
  <2> QED
    BY <1>4, <2>1, <2>2, StartWalkStep
<1>5. CASE AckTimeout(m)
  <2> DEFINE p == [pub[m] EXCEPT !.ack = "timeout"]
  <2>1. /\ pub' = [pub EXCEPT ![m] = Settled(p)] /\ pub[m].phase \in {"walking", "acking"}
        /\ UNCHANGED <<inbox, refusals>>
    BY <1>5 DEF AckTimeout, relayVars
  <2>2. p \in PubTypes /\ p.ack = "timeout" /\ p.phase = pub[m].phase
    BY <1>0 DEF PubTypes
  <2> HIDE DEF p
  <2>3. Settled(p).ack = "timeout" /\ Settled(p).phase # "resolved"
    BY <2>1, <2>2, Settles
  <2>4. pub'[m] = Settled(p) /\ \A n \in Messages \ {m} : pub'[n] = pub[n]
    BY <1>0, <2>1
  <2>5. Moved(m)
    BY <1>0, <1>1, <2>1, <2>3, <2>4 DEF Moved, SendsAfterKat
  <2> QED
    BY <1>2, <2>1, <2>4, <2>5
<1> QED
  BY <1>3, <1>4, <1>5

LEMMA SocketsSend ==
    ASSUME IInv, SInv, NEW c \in Clients, NEW r \in Relays,
           SocketOpens(c, r) \/ SocketFails(c, r) \/ SocketDrops(c, r)
    PROVE  SInv'
<1>1. UNCHANGED <<kat, delivered, accepted>> /\ \A m \in Messages : Went(m)
  BY SocketsStep DEF SocketOpens, SocketFails, SocketDrops, adapterVars
<1>2. \A d \in Clients, q \in Relays : wire'[d][q] \subseteq wire[d][q]
  <2>1. UNCHANGED wire \/ wire' = [wire EXCEPT ![c][r] = {}]
    BY DEF SocketOpens, SocketFails, SocketDrops
  <2>2. wire \in [Clients -> [Relays -> SUBSET Frames]]
    BY DEF IInv, TypeOK, RelayTypes
  <2> QED
    BY <2>1, <2>2
<1>3. ASSUME NEW m \in Messages, pub[m].phase = "encoding" PROVE pub'[m] = pub[m]
  <2>1. m \notin Waiting(c, r)
    BY <1>3 DEF IInv, WalkingWaits, Waiting
  <2> QED
    BY <2>1 DEF SocketOpens, SocketFails, SocketDrops, Proceed
<1> QED
  BY <1>1, <1>2, <1>3, WalksSend

LEMMA SubscribeSends ==
    ASSUME IInv, SInv, NEW c \in Clients, NEW h \in Handlers, Subscribe(c, h)
    PROVE  SInv' /\ UNCHANGED <<accepted, pub>>
<1>1. UNCHANGED <<kat, delivered, accepted, wire>> /\ \A m \in Messages : Went(m)
  BY SubscribeStep DEF Subscribe, relayVars
<1>2. CASE UNCHANGED pub
  BY <1>1, <1>2, WalksSend
<1>3. ASSUME NEW s, s = used[c] + 1, s <= MaxSubscribes,
             Proceed(c, {<<c, s>>}, [w \in Walks |-> 1], sockets[c], 0)
      PROVE  UNCHANGED pub
  <2>1. s \in Subs
    <3>1. used[c] \in Nat /\ MaxSubscribes \in Nat
      BY NostrConstants DEF IInv, TypeOK
    <3> QED
      BY <1>3, <3>1 DEF Subs
  <2>2. \A m \in Messages : m \notin {<<c, s>>}
    BY <2>1, Authors
  <2>3. pub' = [m \in Messages |-> pub[m]]
    BY <1>3, <2>2 DEF Proceed
  <2> QED
    BY <2>3 DEF IInv, TypeOK
<1> QED
  BY <1>1, <1>2, <1>3 DEF Subscribe

LEMMA FramesSend ==
    ASSUME IInv, DInv, SInv, NEW c \in Clients, NEW r \in Relays, ReceiveOK(c, r) \/ ReceiveEvent(c, r)
    PROVE  SInv'
<1>0. /\ SendsAfterKat /\ AcceptedFirst /\ accepted \subseteq Messages
      /\ TypeOK /\ RelayTypes /\ pub \in [Messages -> PubTypes]
  BY DEF SInv, IInv, TypeOK
<1>1. UNCHANGED <<kat, accepted, inbox, refusals>>
  BY DEF ReceiveOK, ReceiveEvent, adapterVars
<1>2. \A d \in Clients, q \in Relays : wire'[d][q] \subseteq wire[d][q]
  <2>1. PICK f \in wire[c][r] : wire' = [wire EXCEPT ![c][r] = @ \ {f}]
    BY DEF ReceiveOK, ReceiveEvent
  <2> QED
    BY <1>0, <2>1 DEF RelayTypes
<1>3. \A n \in Messages, q \in Relays : Seen(n, q)' = Seen(n, q)
  BY <1>1 DEF Seen
<1>4. CASE ReceiveOK(c, r)
  <2>1. PICK f \in wire[c][r] : /\ f.type = "OK" /\ UNCHANGED delivered
                                /\ pub' = [pub EXCEPT ![f.event] = Finish(@, f.ok)]
    BY <1>4 DEF ReceiveOK, adapterVars
  <2> DEFINE m == f.event
             p == pub[m]
             q == Finish(p, f.ok)
  <2>2. f \in [type : {"OK"}, event : Messages, ok : BOOLEAN]
    BY <1>0, <2>1 DEF RelayTypes, Frames
  <2>3. m \in Messages /\ f.ok \in BOOLEAN /\ p \in PubTypes
    BY <1>0, <2>2
  <2>4. f.ok => m \in accepted
    BY <1>0, <2>1 DEF AcceptedFirst, Told
  <2>5. /\ p.phase \notin {"walking", "acking"} => q = p
        /\ q.ack = "ok" => p.ack = "ok" \/ f.ok
        /\ q.phase = "resolved" => p.phase = "resolved" \/ q.ack = "ok"
    BY <2>3, Finishes DEF Finish
  <2> HIDE DEF q
  <2>6. pub'[m] = q /\ \A n \in Messages \ {m} : pub'[n] = pub[n]
    BY <1>0, <2>1, <2>3 DEF q
  <2>7. q = p \/ Moved(m)
    BY <1>0, <1>1, <2>3, <2>4, <2>5, <2>6 DEF Moved, SendsAfterKat, AcceptedFirst
  <2>8. \A n \in Messages : pub'[n] = pub[n] \/ Moved(n)
    BY <2>6, <2>7
  <2> QED
    BY <1>0, <1>1, <1>2, <1>3, <2>1, <2>8, SendStep
<1>5. CASE ReceiveEvent(c, r)
  <2>1. \A d \in Clients, s \in Subs : \A e \in delivered'[d][s] :
            e \in delivered[d][s] \/ (e \in Messages => e \in accepted')
    <3>1. \A f \in wire[c][r] : f.type = "EVENT" /\ f.event \in Messages => f.event \in accepted'
      BY <1>0, <1>1 DEF AcceptedFirst, Told
    <3> QED
      BY <1>0, <1>5, <3>1, ReceiveDelivers
  <2>2. UNCHANGED pub
    BY <1>5 DEF ReceiveEvent
  <2> QED
    BY <1>0, <1>1, <1>2, <1>3, <2>1, <2>2, SendStep
<1> QED
  BY <1>4, <1>5

LEMMA RelaysSend ==
    ASSUME IInv, SInv, NEW r \in Relays, Accept(r) \/ Refuse(r) \/ RefuseAgain(r) \/ Inject(r)
    PROVE  SInv'
<1>0. /\ SendsAfterKat /\ AcceptedFirst /\ accepted \subseteq Messages
      /\ TypeOK /\ RelayTypes /\ AnsweredOnce
  BY DEF SInv, IInv, TypeOK
<1>1. UNCHANGED <<kat, delivered, pub>>
  BY DEF Accept, Refuse, RefuseAgain, Inject, adapterVars
<1>2. CASE Accept(r)
  <2>1. PICK c \in Clients, m \in Messages :
          /\ m \in inbox[c][r]
          /\ inbox' = [inbox EXCEPT ![c][r] = @ \ {m}]
          /\ accepted' = accepted \cup {m}
          /\ wire' = [d \in Clients |-> [Answer(r, m, TRUE)[d] EXCEPT ![r] = @ \cup Forward(r, m)[d]]]
          /\ UNCHANGED refusals
    BY <1>2 DEF Accept
  <2>2. c = Author[m] /\ kat[Author[m]] = "ok"
    BY <1>0, <2>1 DEF AnsweredOnce, SendsAfterKat, Seen
  <2>3. ASSUME NEW n \in Messages, NEW q \in Relays, Seen(n, q)' PROVE Seen(n, q)
    BY <1>0, <2>1, <2>3, Authors DEF Seen, RelayTypes
  <2> DEFINE yes == [type |-> "OK", event |-> m, ok |-> TRUE]
  <2>4. \A d \in Clients, q \in Relays :
            wire'[d][q] \subseteq wire[d][q] \cup {yes} \cup Forward(r, m)[d]
    <3> DEFINE W == [wire EXCEPT ![c][r] = @ \cup {yes}]
    <3>1. wire' = [d \in Clients |-> [W[d] EXCEPT ![r] = @ \cup Forward(r, m)[d]]]
      BY <2>1, <2>2 DEF Answer
    <3> HIDE DEF yes, W
    <3>2. /\ W \in [Clients -> [Relays -> SUBSET (Frames \cup {yes})]]
          /\ \A d \in Clients, q \in Relays : W[d][q] \subseteq wire[d][q] \cup {yes}
      BY <1>0 DEF RelayTypes, W
    <3> QED
      BY <3>1, <3>2
  <2>5. ASSUME NEW d \in Clients, NEW q \in Relays, NEW f \in wire'[d][q]
        PROVE  f \in wire[d][q] \/ f.event = m
    BY <2>4 DEF Forward
  <2> QED
    BY <1>0, <1>1, <2>1, <2>2, <2>3, <2>5, SendStep
<1>3. CASE Refuse(r)
  <2>1. PICK c \in Clients, m \in Messages :
          /\ m \in inbox[c][r]
          /\ inbox' = [inbox EXCEPT ![c][r] = @ \ {m}]
          /\ refusals' = [refusals EXCEPT ![m] = @ \cup {r}]
          /\ wire' = Answer(r, m, FALSE)
          /\ UNCHANGED accepted
    BY <1>3 DEF Refuse
  <2>2. c = Author[m]
    BY <1>0, <2>1 DEF AnsweredOnce
  <2>3. ASSUME NEW n \in Messages, NEW q \in Relays, Seen(n, q)' PROVE Seen(n, q)
    BY <1>0, <2>1, <2>2, <2>3, Authors DEF Seen, RelayTypes
  <2>4. wire' = [wire EXCEPT ![c][r] = @ \cup {Nack(m)}]
    BY <2>1, <2>2 DEF Answer, Nack
  <2>5. ASSUME NEW d \in Clients, NEW q \in Relays, NEW f \in wire'[d][q]
        PROVE  f \in wire[d][q] \/ f = Nack(m)
    BY <1>0, <2>4 DEF RelayTypes
  <2>6. ~ Told(Nack(m))
    BY DEF Told, Nack
  <2> QED
    BY <1>0, <1>1, <2>1, <2>3, <2>5, <2>6, SendStep
<1>4. CASE Inject(r)
  <2>1. PICK c \in Clients, e \in Foreign : wire' = [wire EXCEPT ![c][r] = @ \cup Forward(r, e)[c]]
    BY <1>4 DEF Inject
  <2>2. UNCHANGED <<inbox, refusals, accepted>>
    BY <1>4 DEF Inject
  <2>3. ASSUME NEW d \in Clients, NEW q \in Relays, NEW f \in wire'[d][q]
        PROVE  f \in wire[d][q] \/ f \in Forward(r, e)[c]
    BY <1>0, <2>1 DEF RelayTypes
  <2>4. \A f \in Forward(r, e)[c] : ~ Told(f)
    <3>1. e \notin Messages
      BY NostrConstants
    <3>2. \A s : ~ Told([type |-> "EVENT", sub |-> s, event |-> e])
      BY <3>1 DEF Told
    <3> QED
      BY <3>2 DEF Forward
  <2>5. \A n \in Messages, q \in Relays : Seen(n, q)' => Seen(n, q)
    BY <2>2 DEF Seen
  <2> QED
    BY <1>0, <1>1, <2>2, <2>3, <2>4, <2>5, SendStep
<1>5. CASE RefuseAgain(r)
  <2>1. PICK m \in Messages : wire' = Answer(r, m, FALSE) /\ UNCHANGED <<inbox, refusals, accepted>>
    BY <1>5 DEF RefuseAgain
  <2>2. wire' = [wire EXCEPT ![Author[m]][r] = @ \cup {Nack(m)}]
    BY <2>1 DEF Answer, Nack
  <2>3. ASSUME NEW d \in Clients, NEW q \in Relays, NEW f \in wire'[d][q]
        PROVE  f \in wire[d][q] \/ f = Nack(m)
    BY <1>0, <2>2 DEF RelayTypes
  <2>4. ~ Told(Nack(m)) /\ \A n \in Messages, q \in Relays : Seen(n, q)' => Seen(n, q)
    BY <2>1 DEF Told, Nack, Seen
  <2> QED
    BY <1>0, <1>1, <2>1, <2>3, <2>4, SendStep
<1> QED
  BY <1>2, <1>3, <1>4, <1>5

LEMMA SentStep == IInv /\ DInv /\ SInv /\ [Next]_vars => SInv'
<1> SUFFICES ASSUME IInv, DInv, SInv, [Next]_vars PROVE SInv'
  OBVIOUS
<1>0. accepted \subseteq Messages /\ DeliveryTypes /\ RelayTypes
  BY DEF SInv, DInv, IInv, TypeOK
<1>1. ASSUME UNCHANGED <<pub, accepted, delivered, refusals>>, UNCHANGED inbox, UNCHANGED wire,
             \A c \in Clients : kat[c] = "ok" => kat'[c] = "ok"
      PROVE  SInv'
  BY <1>0, <1>1, Authors, SendStep DEF Seen
<1>2. ASSUME NEW m \in Messages, Publish(m) \/ StartWalk(m) \/ AckTimeout(m) PROVE SInv'
  BY <1>2, PublishSends
<1>3. ASSUME NEW c \in Clients, KatSettles(c) PROVE SInv'
  <2>1. kat[c] = "pending" /\ \E k : kat' = [kat EXCEPT ![c] = k]
    BY <1>3 DEF KatSettles
  <2>2. \A d \in Clients : kat[d] = "ok" => kat'[d] = "ok"
    BY <1>0, <2>1 DEF DeliveryTypes
  <2> QED
    BY <1>1, <1>3, <2>2 DEF KatSettles, relayVars
<1>4. ASSUME NEW c \in Clients, Close(c) PROVE SInv'
  <2>1. /\ inbox' = [inbox EXCEPT ![c] = [r \in Relays |-> {}]]
        /\ wire' = [wire EXCEPT ![c] = [r \in Relays |-> {}]]
        /\ UNCHANGED <<kat, delivered, accepted, refusals, pub>>
    BY <1>4 DEF Close
  <2>2. \A d \in Clients, r \in Relays :
            inbox'[d][r] \subseteq inbox[d][r] /\ wire'[d][r] \subseteq wire[d][r]
    BY <1>0, <2>1 DEF RelayTypes
  <2>3. \A m \in Messages, r \in Relays : Seen(m, r)' => Seen(m, r)
    BY <2>1, <2>2, Authors DEF Seen
  <2> QED
    BY <1>0, <2>1, <2>2, <2>3, SendStep
<1>5. ASSUME NEW c \in Clients, CloseResolves(c) PROVE SInv'
  BY <1>1, <1>5 DEF CloseResolves, relayVars
<1>6. ASSUME NEW c \in Clients, NEW r \in Relays,
             SocketOpens(c, r) \/ SocketFails(c, r) \/ SocketDrops(c, r)
      PROVE  SInv'
  BY <1>6, SocketsSend
<1>7. ASSUME NEW c \in Clients, NEW r \in Relays, ReceiveOK(c, r) \/ ReceiveEvent(c, r) PROVE SInv'
  BY <1>7, FramesSend
<1>8. ASSUME NEW c \in Clients, NEW h \in Handlers, Subscribe(c, h) PROVE SInv'
  BY <1>8, SubscribeSends
<1>9. ASSUME NEW c \in Clients, NEW h \in Handlers, Unsubscribe(c, h) PROVE SInv'
  BY <1>1, <1>9 DEF Unsubscribe
<1>10. ASSUME NEW r \in Relays, Accept(r) \/ Refuse(r) \/ RefuseAgain(r) \/ Inject(r) PROVE SInv'
  BY <1>10, RelaysSend
<1>11. CASE UNCHANGED vars
  BY <1>1, <1>11 DEF vars, adapterVars, relayVars
<1> QED
  BY <1>2, <1>3, <1>4, <1>5, <1>6, <1>7, <1>8, <1>9, <1>10, <1>11 DEF Next

LEMMA DeliveryStep == IInv /\ DInv /\ [Next]_vars => DInv'
<1> SUFFICES ASSUME IInv, DInv, [Next]_vars PROVE DInv'
  OBVIOUS
<1>0. TypeOK
  BY DEF IInv
<1>1. ASSUME NEW m \in Messages, Publish(m) \/ StartWalk(m) \/ AckTimeout(m) PROVE DInv'
  BY <1>1, DeliveryKept DEF Publish, StartWalk, AckTimeout, adapterVars, deliveryVars
<1>2. ASSUME NEW c \in Clients, KatSettles(c) \/ Close(c) \/ CloseResolves(c) PROVE DInv'
  BY <1>0, <1>2, KatDelivers, CloseDelivers
<1>3. ASSUME NEW c \in Clients, NEW r \in Relays,
             SocketOpens(c, r) \/ SocketFails(c, r) \/ SocketDrops(c, r) \/ ReceiveOK(c, r)
      PROVE  DInv'
  BY <1>3, DeliveryKept DEF SocketOpens, SocketFails, SocketDrops, ReceiveOK, adapterVars, deliveryVars
<1>4. ASSUME NEW c \in Clients, NEW r \in Relays, ReceiveEvent(c, r) PROVE DInv'
  BY <1>0, <1>4, ReceiveDelivers
<1>5. ASSUME NEW c \in Clients, NEW h \in Handlers, Subscribe(c, h) \/ Unsubscribe(c, h) PROVE DInv'
  BY <1>0, <1>5, SubscribeDelivers, UnsubscribeDelivers
<1>6. ASSUME NEW r \in Relays, Accept(r) \/ Refuse(r) \/ RefuseAgain(r) \/ Inject(r) PROVE DInv'
  BY <1>6, DeliveryKept DEF Accept, Refuse, RefuseAgain, Inject, adapterVars, deliveryVars
<1>7. CASE UNCHANGED vars
  BY <1>7, DeliveryKept DEF vars, adapterVars, deliveryVars
<1> QED
  BY <1>1, <1>2, <1>3, <1>4, <1>5, <1>6, <1>7 DEF Next

NInv == IInv /\ DInv /\ SInv

(* The three together are inductive.                                        *)
THEOREM AdaptersHold == Spec => []NInv
<1>1. Init => NInv
  BY InitHolds, DeliveryInit, SentInit DEF NInv
<1>2. NInv /\ [Next]_vars => NInv'
  BY Step, DeliveryStep, SentStep DEF NInv
<1> QED
  BY <1>1, <1>2, PTL DEF Spec

(* A v2 adapter whose known-answer test has not passed gives and sends      *)
(* nothing (ADR-0027 in packages/signaling-nostr/src/index.ts).             *)
THEOREM NothingBeforeTheTest == Spec => []NoDowngrade
<1>1. NInv => NoDowngrade
  BY DEF NInv, DInv, SInv, KatWaits, SendsAfterKat, NoDowngrade
<1> QED
  BY <1>1, AdaptersHold, PTL

-----------------------------------------------------------------------------
(* The contract.                                                            *)
Outcomes == [m \in Messages |->
                CASE pub[m].phase = "idle" -> "none"
                  [] pub[m].phase \in {"resolved", "rejected"} -> pub[m].phase
                  [] OTHER -> "pending"]

Heard == [c \in Clients |-> UNION {handlers[c][s] : s \in Subs}]

LEMMA ContractInit == Init => Contract!Init
<1> SUFFICES ASSUME Init PROVE Contract!Init
  OBVIOUS
<1>1. /\ life = [c \in Clients |-> "open"]
      /\ Outcomes = [m \in Messages |-> "none"]
      /\ Heard = [c \in Clients |-> {}]
  BY DEF Init, Outcomes, Heard
<1>2. accepted = {} /\ given = [c \in Clients |-> [h \in Handlers |-> <<>>]]
  BY DEF Init
<1> QED
  BY <1>1, <1>2, Zenon DEF Contract!Init, Outcomes, Heard

LEMMA SameToTheContract ==
    /\ UNCHANGED pub => UNCHANGED Outcomes
    /\ UNCHANGED handlers => UNCHANGED Heard
BY DEF Outcomes, Heard

(* A step that the contract does not see.                                   *)
LEMMA ContractStutters ==
    ASSUME UNCHANGED life, UNCHANGED Outcomes, UNCHANGED Heard, UNCHANGED <<accepted, given>>
    PROVE  UNCHANGED Contract!vars
BY Zenon DEF Contract!vars, Outcomes, Heard

LEMMA OutcomeOf ==
    ASSUME NEW m \in Messages, pub[m] \in PubTypes
    PROVE  Outcomes[m] = IF pub[m].phase = "idle" THEN "none"
                         ELSE IF pub[m].phase \in {"resolved", "rejected"} THEN pub[m].phase
                         ELSE "pending"
BY DEF Outcomes

LEMMA OutcomeOfNext ==
    ASSUME NEW m \in Messages, pub'[m] \in PubTypes
    PROVE  Outcomes'[m] = IF pub'[m].phase = "idle" THEN "none"
                          ELSE IF pub'[m].phase \in {"resolved", "rejected"} THEN pub'[m].phase
                          ELSE "pending"
BY DEF Outcomes

(* What a publish() that a step moves may be after it.                      *)
GoesOn(m) ==
    \/ pub'[m].phase = pub[m].phase
    \/ /\ pub[m].phase \in {"encoding", "walking", "acking"}
       /\ pub'[m].phase \in {"walking", "acking", "resolved", "rejected"}

LEMMA PublishesSettle ==
    ASSUME NInv, NInv', \A m \in Messages : GoesOn(m), UNCHANGED <<life, accepted, handlers, given>>
    PROVE  Contract!Next
<1> DEFINE ms == {m \in Messages : pub[m].phase # pub'[m].phase
                                   /\ pub'[m].phase \in {"resolved", "rejected"}}
           result == [m \in ms |-> pub'[m].phase]
<1>1. \A m \in Messages : pub[m] \in PubTypes /\ pub'[m] \in PubTypes
  BY DEF NInv, IInv, TypeOK
<1>2. \A m \in ms : Outcomes[m] = "pending"
  <2> SUFFICES ASSUME NEW m \in ms PROVE Outcomes[m] = "pending"
    OBVIOUS
  <2>1. m \in Messages /\ pub[m].phase \in {"encoding", "walking", "acking"}
    BY DEF GoesOn
  <2> QED
    BY <1>1, <2>1, OutcomeOf
<1>3. result \in [ms -> {"resolved", "rejected"}]
  OBVIOUS
<1>4. \A m \in ms : result[m] = "resolved" => m \in accepted
  BY DEF NInv, SInv, AcceptedFirst
<1>5. \A m \in Messages : Outcomes'[m] = IF m \in ms THEN result[m] ELSE Outcomes[m]
  <2> SUFFICES ASSUME NEW m \in Messages
               PROVE  Outcomes'[m] = IF m \in ms THEN result[m] ELSE Outcomes[m]
    OBVIOUS
  <2>1. CASE m \in ms
    BY <1>1, <2>1, OutcomeOfNext
  <2>2. CASE m \notin ms
    <3>1. \/ pub'[m].phase = pub[m].phase
          \/ pub[m].phase \in {"encoding", "walking", "acking"} /\ pub'[m].phase \in {"walking", "acking"}
      BY <2>2 DEF GoesOn
    <3>2. Outcomes'[m] = Outcomes[m]
      BY <1>1, <3>1, OutcomeOf, OutcomeOfNext
    <3> QED
      BY <2>2, <3>2
  <2> QED
    BY <2>1, <2>2
<1>6. ms \in SUBSET Messages
  OBVIOUS
<1> HIDE DEF ms, result
<1>7. Outcomes' = [m \in Messages |-> IF m \in ms THEN result[m] ELSE Outcomes[m]]
  BY <1>5 DEF Outcomes
<1>8. UNCHANGED life /\ UNCHANGED Heard
  BY SameToTheContract
<1>9. PICK these \in SUBSET Messages : these = ms
  BY <1>6
<1>10. /\ \A m \in these : Outcomes[m] = "pending" /\ (result[m] = "resolved" => m \in accepted)
       /\ result \in [these -> {"resolved", "rejected"}]
       /\ Outcomes' = [m \in Messages |-> IF m \in these THEN result[m] ELSE Outcomes[m]]
  BY <1>2, <1>3, <1>4, <1>7, <1>9
<1>11. Contract!Settle(these)
  BY <1>8, <1>10, Zenon DEF Contract!Settle, Outcomes, Heard
<1> QED
  BY <1>11, Zenon DEF Contract!Next

LEMMA WentGoesOn == ASSUME NEW m \in Messages, Went(m) PROVE GoesOn(m)
BY DEF Went, GoesOn

LEMMA PublishGoes ==
    ASSUME NInv, NEW m \in Messages, StartWalk(m) \/ AckTimeout(m)
    PROVE  \A n \in Messages : GoesOn(n)
<1>0. IInv /\ pub \in [Messages -> PubTypes]
  BY DEF NInv, IInv, TypeOK
<1>1. CASE \A n \in Messages : Went(n)
  BY <1>1, WentGoesOn
<1>2. CASE StartWalk(m) /\ pub' = [pub EXCEPT ![m].phase = "rejected"]
  <2>1. /\ pub[m].phase = "encoding" /\ pub'[m].phase = "rejected"
        /\ \A n \in Messages \ {m} : pub'[n] = pub[n]
    BY <1>0, <1>2 DEF StartWalk, PubTypes
  <2> QED
    BY <2>1 DEF GoesOn
<1>3. CASE AckTimeout(m)
  <2> DEFINE p == [pub[m] EXCEPT !.ack = "timeout"]
  <2>1. pub' = [pub EXCEPT ![m] = Settled(p)] /\ pub[m].phase \in {"walking", "acking"}
    BY <1>3 DEF AckTimeout
  <2>2. p \in PubTypes /\ p.phase = pub[m].phase
    BY <1>0 DEF PubTypes
  <2> HIDE DEF p
  <2>3. Settled(p).phase \in {pub[m].phase, "resolved", "rejected"}
    BY <2>2, Settles
  <2>4. pub'[m] = Settled(p) /\ \A n \in Messages \ {m} : pub'[n] = pub[n]
    BY <1>0, <2>1
  <2> QED
    BY <2>1, <2>3, <2>4 DEF GoesOn
<1> QED
  BY <1>0, <1>1, <1>2, <1>3, StartWalkStep

LEMMA AnswerGoes ==
    ASSUME NInv, NEW c \in Clients, NEW r \in Relays, ReceiveOK(c, r)
    PROVE  \A n \in Messages : GoesOn(n)
<1>0. RelayTypes /\ pub \in [Messages -> PubTypes]
  BY DEF NInv, IInv, TypeOK
<1>1. PICK f \in wire[c][r] : f.type = "OK" /\ pub' = [pub EXCEPT ![f.event] = Finish(@, f.ok)]
  BY DEF ReceiveOK
<1> DEFINE m == f.event
           q == Finish(pub[m], f.ok)
<1>2. f \in [type : {"OK"}, event : Messages, ok : BOOLEAN]
  BY <1>0, <1>1 DEF RelayTypes, Frames
<1>3. m \in Messages /\ f.ok \in BOOLEAN /\ pub[m] \in PubTypes
  BY <1>0, <1>2
<1>4. q.phase = pub[m].phase \/ (pub[m].phase = "acking" /\ q.phase \in {"resolved", "rejected"})
  BY <1>3, Finishes
<1> HIDE DEF q
<1>5. pub'[m] = q /\ \A n \in Messages \ {m} : pub'[n] = pub[n]
  BY <1>0, <1>1, <1>3 DEF q
<1> QED
  BY <1>4, <1>5 DEF GoesOn

(* A list without repetition is no longer than there are messages.          *)
LEMMA ListFits ==
    ASSUME NEW s \in Seq(Messages), IsInjective(s)
    PROVE  s \in SeqOf(Messages, Cardinality(Messages))
<1>1. Len(s) \in Nat /\ s \in [1..Len(s) -> Messages]
  BY LenProperties
<1>2. IsFiniteSet(Messages) /\ Cardinality(Messages) \in Nat
  BY NostrConstants, FS_CardinalityType
<1>3. Len(s) <= Cardinality(Messages)
  <2>1. s \in Injection(1..Len(s), Messages)
    BY <1>1, LenProperties DEF Injection, IsInjective
  <2>2. IsFiniteSet(1..Len(s)) /\ Cardinality(1..Len(s)) = Len(s)
    BY <1>1, FS_Interval
  <2> QED
    BY <1>2, <2>1, <2>2, FS_Injection
<1> QED
  BY <1>1, <1>2, <1>3 DEF SeqOf

LEMMA GivesHands ==
    ASSUME NInv, NInv', NEW c \in Clients, NEW ms, Gives(c, ms),
           UNCHANGED <<life, pub, handlers, accepted>>
    PROVE  /\ Contract!Hand(c, ms)
           /\ ms \in SeqOf(Messages, Cardinality(Messages))
<1>1. UNCHANGED life /\ UNCHANGED Outcomes /\ UNCHANGED Heard
  BY SameToTheContract
<1>2. Heard[c] = UNION {handlers[c][s] : s \in Subs}
  BY DEF Heard
<1>3. ms \in Seq(Messages) /\ IsInjective(ms)
  BY DEF Gives
<1>4. ToSet(ms) \subseteq accepted
  <2>1. \A m \in ToSet(ms) : m \in Messages
    BY <1>3 DEF ToSet
  <2> QED
    BY <2>1 DEF Gives, NInv, SInv, AcceptedFirst
<1>5. \A h \in Heard[c] : ToSet(ms) \cap ToSet(given[c][h]) = {}
  BY <1>2 DEF Gives
<1>6. given' = [given EXCEPT ![c] = [h \in Handlers |-> IF h \in Heard[c] THEN @[h] \o ms ELSE @[h]]]
  BY <1>2 DEF Gives
<1>7. \A s : Contract!ToSet(s) = ToSet(s) /\ (Contract!IsInjective(s) <=> IsInjective(s))
  BY DEF ToSet, Contract!ToSet, IsInjective, Contract!IsInjective
<1>8. /\ Contract!ToSet(ms) \subseteq accepted /\ Contract!IsInjective(ms)
      /\ \A h \in Heard[c] : Contract!ToSet(ms) \cap Contract!ToSet(given[c][h]) = {}
  BY <1>3, <1>4, <1>5, <1>7
<1>9. Contract!Hand(c, ms)
  BY <1>1, <1>2, <1>6, <1>8, Zenon DEF Contract!Hand, Outcomes, Heard
<1> QED
  BY <1>3, <1>9, ListFits

LEMMA GivesHandles ==
    ASSUME NInv, NInv', NEW c \in Clients, NEW ms, Gives(c, ms), life[c] # "closed",
           UNCHANGED <<life, pub, handlers, accepted>>
    PROVE  Contract!Next
<1>1. Contract!Hand(c, ms) /\ ms \in SeqOf(Messages, Cardinality(Messages))
  BY GivesHands
<1>2. Contract!Handle(c, ms)
  BY <1>1, Zenon DEF Contract!Handle
<1>3. ms \in Contract!SeqOf(Messages, Contract!Cardinality(Messages))
  <2>1. Contract!Cardinality(Messages) = Cardinality(Messages)
    BY DEF Cardinality, Contract!Cardinality
  <2> QED
    BY <1>1, <2>1 DEF SeqOf, Contract!SeqOf
<1> QED
  BY <1>2, <1>3, Zenon DEF Contract!Next

LEMMA PublishContract == ASSUME NInv, NInv', NEW m \in Messages, Publish(m) PROVE Contract!Next
<1>0. pub \in [Messages -> PubTypes] /\ \A n \in Messages : pub[n] \in PubTypes /\ pub'[n] \in PubTypes
  BY DEF NInv, IInv, TypeOK
<1> DEFINE ph == IF life[Author[m]] = "open" THEN "encoding" ELSE "rejected"
<1>1. /\ pub[m].phase = "idle" /\ pub' = [pub EXCEPT ![m].phase = ph]
      /\ UNCHANGED <<life, handlers, given, accepted>>
  BY DEF Publish, adapterVars, relayVars
<1>3. pub'[m].phase = ph /\ \A n \in Messages \ {m} : pub'[n] = pub[n]
  BY <1>0, <1>1 DEF PubTypes
<1>4. Outcomes[m] = "none"
  BY <1>0, <1>1, OutcomeOf
<1>5. \A n \in Messages : Outcomes'[n] =
        [Outcomes EXCEPT ![m] = IF life[Author[m]] = "open" THEN "pending" ELSE "rejected"][n]
  <2>1. Outcomes \in [Messages -> {Outcomes[n] : n \in Messages}]
    BY DEF Outcomes
  <2> QED
    BY <1>0, <1>3, <2>1, OutcomeOf, OutcomeOfNext
<1>6. Outcomes' = [Outcomes EXCEPT ![m] = IF life[Author[m]] = "open" THEN "pending" ELSE "rejected"]
  BY <1>5 DEF Outcomes
<1>7. UNCHANGED life /\ UNCHANGED Heard
  BY <1>1, SameToTheContract
<1>8. Contract!Publish(m)
  BY <1>1, <1>4, <1>6, <1>7, Zenon DEF Contract!Publish, Outcomes, Heard
<1> QED
  BY <1>8, Zenon DEF Contract!Next

LEMMA HandlersContract ==
    ASSUME NInv, NInv', NEW c \in Clients, NEW h \in Handlers, Subscribe(c, h) \/ Unsubscribe(c, h)
    PROVE  Contract!Next
<1>0. TypeOK /\ DInv /\ SInv /\ DeliveryTypes /\ IInv
  BY DEF NInv, IInv, DInv
<1>1. life[c] = "open" /\ UNCHANGED life
  BY DEF Subscribe, Unsubscribe
<1>2. life[c] = "open" /\ UNCHANGED life
  BY <1>1
<1>3. CASE Subscribe(c, h)
  <2>1. /\ UNCHANGED <<accepted, pub>> /\ given' = [given EXCEPT ![c][h] = <<>>]
        /\ \A s \in Subs : h \notin handlers[c][s]
        /\ \E s \in Subs : handlers' = [handlers EXCEPT ![c][s] = @ \cup {h}]
    BY <1>0, <1>3, SubscribeSends, SubscribeDelivers DEF Subscribe
  <2>2. h \notin Heard[c]
    BY <2>1 DEF Heard
  <2>3. Heard' = [Heard EXCEPT ![c] = @ \cup {h}]
    <3>1. \A d \in Clients : UNION {handlers'[d][s] : s \in Subs} =
              IF d = c THEN Heard[c] \cup {h} ELSE Heard[d]
      BY <1>0, <2>1 DEF Heard, DeliveryTypes
    <3> QED
      BY <3>1 DEF Heard
  <2>4. UNCHANGED Outcomes
    BY <2>1, SameToTheContract
  <2>5. Contract!Subscribe(c, h)
    BY <1>2, <2>1, <2>2, <2>3, <2>4, Zenon DEF Contract!Subscribe, Outcomes, Heard
  <2> QED
    BY <2>5, Zenon DEF Contract!Next
<1>4. CASE Unsubscribe(c, h)
  <2>1. UNCHANGED <<accepted, pub, given>>
    BY <1>4 DEF Unsubscribe
  <2>2. PICK s \in Subs : /\ handlers' = [handlers EXCEPT ![c][s] = @ \ {h}]
                          /\ \A t \in Subs : h \in handlers[c][t] => t = s
    BY <1>0, <1>4, UnsubscribeDelivers
  <2>3. Heard' = [Heard EXCEPT ![c] = @ \ {h}]
    <3>1. \A d \in Clients : UNION {handlers'[d][t] : t \in Subs} =
              IF d = c THEN Heard[c] \ {h} ELSE Heard[d]
      BY <1>0, <2>2 DEF Heard, DeliveryTypes
    <3> QED
      BY <3>1 DEF Heard
  <2>4. UNCHANGED Outcomes
    BY <2>1, SameToTheContract
  <2>5. Contract!Unsubscribe(c, h)
    BY <1>2, <2>1, <2>3, <2>4, Zenon DEF Contract!Unsubscribe, Outcomes, Heard
  <2> QED
    BY <2>5, Zenon DEF Contract!Next
<1> QED
  BY <1>3, <1>4

LEMMA CloseContract ==
    ASSUME NInv, NEW c \in Clients, Close(c) \/ CloseResolves(c)
    PROVE  [Contract!Next]_(Contract!vars)
<1>0. DeliveryTypes
  BY DEF NInv, DInv
<1>1. UNCHANGED <<pub, handlers, given, accepted>>
  BY DEF Close, CloseResolves, relayVars
<1>2. UNCHANGED Outcomes /\ UNCHANGED Heard
  BY <1>1, SameToTheContract
<1>3. CASE Close(c)
  <2>1. life[c] = "open" /\ life' = [life EXCEPT ![c] = "closing"]
    BY <1>0, <1>3 DEF Close, DeliveryTypes
  <2>2. Contract!Close(c)
    BY <1>1, <1>2, <2>1, Zenon DEF Contract!Close, Outcomes, Heard
  <2> QED
    BY <2>2, Zenon DEF Contract!Next
<1>4. CASE CloseResolves(c)
  <2>1. life[c] = "closing" /\ life' = [life EXCEPT ![c] = "closed"]
    BY <1>0, <1>4 DEF CloseResolves, DeliveryTypes
  <2>2. Contract!Closed(c)
    BY <1>1, <1>2, <2>1, Zenon DEF Contract!Closed, Outcomes, Heard
  <2> QED
    BY <2>2, Zenon DEF Contract!Next
<1> QED
  BY <1>3, <1>4

LEMMA AcceptContract ==
    ASSUME NInv, NEW r \in Relays, Accept(r)
    PROVE  [Contract!Next]_(Contract!vars)
<1>0. /\ Behind /\ AnsweredOnce /\ AcceptedFirst /\ \A m \in Messages : pub[m] \in PubTypes
  BY DEF NInv, IInv, SInv, TypeOK
<1>1. PICK c \in Clients, m \in Messages : m \in inbox[c][r] /\ accepted' = accepted \cup {m}
  BY DEF Accept
<1>2. UNCHANGED <<life, pub, handlers, given>>
  BY DEF Accept, adapterVars
<1>3. UNCHANGED life /\ UNCHANGED Outcomes /\ UNCHANGED Heard
  BY <1>2, SameToTheContract
<1>4. pub[m].phase \notin {"idle", "encoding"}
  <2>1. Seen(m, r)
    BY <1>0, <1>1 DEF AnsweredOnce, Seen
  <2> QED
    BY <1>0, <2>1, Order DEF Behind
<1>5. CASE m \in accepted
  <2>1. UNCHANGED accepted
    BY <1>1, <1>5
  <2> QED
    BY <1>2, <1>3, <2>1, ContractStutters
<1>6. CASE m \notin accepted
  <2>1. Outcomes[m] \in {"pending", "rejected"}
    BY <1>0, <1>4, <1>6, OutcomeOf DEF AcceptedFirst
  <2>2. Contract!Reach(m)
    BY <1>1, <1>2, <1>3, <2>1, Zenon DEF Contract!Reach, Outcomes, Heard
  <2> QED
    BY <2>2, Zenon DEF Contract!Next
<1> QED
  BY <1>5, <1>6

LEMMA ContractStep == NInv /\ [Next]_vars => [Promised]_(Contract!vars)
<1> SUFFICES ASSUME NInv, [Next]_vars PROVE [Promised]_(Contract!vars)
  OBVIOUS
<1>0. NInv' /\ IInv /\ TypeOK /\ DInv /\ KatWaits
  BY Step, DeliveryStep, SentStep DEF NInv, IInv, DInv
<1>1. ASSUME UNCHANGED <<life, pub, handlers, accepted, given>> PROVE UNCHANGED Contract!vars
  BY <1>1, SameToTheContract, ContractStutters
<1>2. ASSUME NEW m \in Messages, Publish(m) \/ StartWalk(m) \/ AckTimeout(m) PROVE Contract!Next
  <2>1. CASE StartWalk(m) \/ AckTimeout(m)
    <3>1. UNCHANGED <<life, accepted, handlers, given>>
      BY <2>1 DEF StartWalk, AckTimeout, adapterVars, relayVars
    <3> QED
      BY <1>0, <2>1, <3>1, PublishGoes, PublishesSettle
  <2> QED
    BY <1>0, <1>2, <2>1, PublishContract
<1>3. ASSUME NEW c \in Clients, KatSettles(c) PROVE Promised
  <2>1. UNCHANGED <<life, pub, handlers, accepted>>
    BY <1>3 DEF KatSettles, relayVars
  <2>2. PICK ms : Gives(c, ms) /\ ToSet(ms) \subseteq Waits(c)
    BY <1>0, <1>3, KatDelivers
  <2>3. CASE life[c] = "closed"
    <3>1. Contract!Hand(c, ms) /\ ms \in SeqOf(Messages, Cardinality(Messages))
      BY <1>0, <2>1, <2>2, GivesHands
    <3>2. HandsLate(c)
      BY <1>0, <1>3, <2>2, <2>3, <3>1, KatDelivers DEF HandsLate, Waits
    <3> QED
      BY <3>2 DEF Promised
  <2>4. CASE life[c] # "closed"
    BY <1>0, <2>1, <2>2, <2>4, GivesHandles DEF Promised
  <2> QED
    BY <2>3, <2>4
<1>4. ASSUME NEW c \in Clients, Close(c) \/ CloseResolves(c) PROVE [Contract!Next]_(Contract!vars)
  BY <1>4, CloseContract
<1>5. ASSUME NEW c \in Clients, NEW r \in Relays,
             SocketOpens(c, r) \/ SocketFails(c, r) \/ SocketDrops(c, r)
      PROVE  Contract!Next
  <2>1. UNCHANGED <<life, accepted, handlers, given>>
    BY <1>5 DEF SocketOpens, SocketFails, SocketDrops, adapterVars
  <2> QED
    BY <1>0, <1>5, <2>1, SocketsStep, WentGoesOn, PublishesSettle
<1>6. ASSUME NEW c \in Clients, NEW r \in Relays, ReceiveOK(c, r) PROVE Contract!Next
  <2>1. UNCHANGED <<life, accepted, handlers, given>>
    BY <1>6 DEF ReceiveOK, adapterVars
  <2> QED
    BY <1>0, <1>6, <2>1, AnswerGoes, PublishesSettle
<1>7. ASSUME NEW c \in Clients, NEW r \in Relays, ReceiveEvent(c, r)
      PROVE  [Contract!Next]_(Contract!vars)
  <2>1. UNCHANGED <<life, pub, handlers, accepted>>
    BY <1>7 DEF ReceiveEvent
  <2>2. UNCHANGED given \/ (life[c] # "closed" /\ \E ms : Gives(c, ms))
    BY <1>0, <1>7, ReceiveDelivers
  <2> QED
    BY <1>0, <1>1, <2>1, <2>2, GivesHandles
<1>8. ASSUME NEW c \in Clients, NEW h \in Handlers, Subscribe(c, h) \/ Unsubscribe(c, h)
      PROVE  Contract!Next
  BY <1>0, <1>8, HandlersContract
<1>9. ASSUME NEW r \in Relays, Accept(r) \/ Refuse(r) \/ RefuseAgain(r) \/ Inject(r) PROVE [Contract!Next]_(Contract!vars)
  <2>1. CASE Refuse(r) \/ RefuseAgain(r) \/ Inject(r)
    BY <1>1, <2>1 DEF Refuse, RefuseAgain, Inject, adapterVars
  <2> QED
    BY <1>9, <2>1, AcceptContract
<1>10. CASE UNCHANGED vars
  BY <1>1, <1>10 DEF vars, adapterVars, relayVars
<1> QED
  BY <1>2, <1>3, <1>4, <1>5, <1>6, <1>7, <1>8, <1>9, <1>10 DEF Next, Promised

(* What the adapter promises as a SignalingTransport it keeps, for any      *)
(* relays, sockets, messages and order of frames                            *)
(* (packages/protocol/src/signaling.ts), but for the events whose decoding  *)
(* close() finds under way: of those it is proved that they are the only    *)
(* ones a handler is given after close() has resolved, in one step.         *)
THEOREM ContractIsKept == Spec => KeepsContract
<1>1. Init => NInv /\ Contract!Init
  BY InitHolds, DeliveryInit, SentInit, ContractInit DEF NInv
<1>2. NInv /\ [Next]_vars => NInv' /\ [Promised]_(Contract!vars)
  BY Step, DeliveryStep, SentStep, ContractStep DEF NInv
<1> QED
  BY <1>1, <1>2, PTL DEF Spec, KeepsContract

=============================================================================
