--------------------------- MODULE HttpPollProofs ---------------------------
(***************************************************************************)
(* HTTP polling keeps the SignalingTransport contract with either endpoint,*)
(* and the Node endpoint loses nothing unheard but what has expired.       *)
(***************************************************************************)
EXTENDS HttpPoll, FiniteSetTheorems, SequenceTheorems, WellFoundedInduction, TLAPS

-----------------------------------------------------------------------------
(* Lists of messages.                                                       *)

(* Induction: a set of numbers has a least one.                             *)
LEMMA LeastNumber ==
    ASSUME NEW W, W \subseteq Nat, W # {}
    PROVE  \E n \in W : \A k \in W : n <= k
<1>1. PICK top \in W : TRUE
  OBVIOUS
<1> DEFINE B == {0 .. n : n \in W \cap 0 .. top}
<1>2. IsWellFoundedOn(StrictSubsetOrdering(0 .. top), SUBSET (0 .. top))
  <2>1. IsFiniteSet(0 .. top)
    BY <1>1, FS_Interval
  <2> QED
    BY <2>1, FS_StrictSubsetOrderingWellFounded, FS_FiniteSubsetsOfFinite
<1>3. B \subseteq SUBSET (0 .. top) /\ B # {}
  BY <1>1
<1>4. PICK T \in B : \A U \in B : ~ (<<U, T>> \in StrictSubsetOrdering(0 .. top))
  <2> HIDE DEF B
  <2> QED
    BY <1>2, <1>3, WFMin
<1>5. PICK n \in W \cap 0 .. top : T = 0 .. n
  OBVIOUS
<1>6. ASSUME NEW k \in W, ~ (n <= k) PROVE FALSE
  <2>1. k \in Nat /\ n \in Nat /\ top \in Nat /\ k < n /\ k \in 0 .. top
    BY <1>1, <1>5, <1>6
  <2>2. 0 .. k \subseteq 0 .. n /\ 0 .. k # 0 .. n /\ 0 .. n \subseteq 0 .. top
    BY <1>5, <2>1
  <2>3. 0 .. k \in B /\ <<0 .. k, 0 .. n>> \in StrictSubsetOrdering(0 .. top)
    BY <1>6, <2>1, <2>2 DEF StrictSubsetOrdering
  <2> QED
    BY <1>4, <1>5, <2>3
<1> QED
  BY <1>5, <1>6

(* The function that Only is defined by.                                    *)
Keeps(kept, ms, items, n) ==
    kept = [i \in 0..n |->
              IF i = 0 THEN <<>>
              ELSE IF items[i] \in ms THEN Append(kept[i - 1], items[i]) ELSE kept[i - 1]]

LEMMA KeepsExists ==
    ASSUME NEW ms, NEW items, NEW len \in Nat
    PROVE  \E kept : Keeps(kept, ms, items, len)
<1> DEFINE W == {n \in Nat : ~ \E kept : Keeps(kept, ms, items, n)}
<1> SUFFICES ASSUME W # {} PROVE FALSE
  OBVIOUS
<1>1. W \subseteq Nat
  OBVIOUS
<1> HIDE DEF W
<1>2. PICK n \in W : \A k \in W : n <= k
  BY <1>1, LeastNumber
<1> USE DEF W
<1>3. CASE n = 0
  <2> DEFINE h == [i \in 0..0 |-> <<>>]
  <2>1. Keeps(h, ms, items, 0)
    <3>1. h = [i \in 0..0 |->
                 IF i = 0 THEN <<>>
                 ELSE IF items[i] \in ms THEN Append(h[i - 1], items[i]) ELSE h[i - 1]]
      OBVIOUS
    <3> QED
      BY <3>1 DEF Keeps
  <2> QED
    BY <1>2, <1>3, <2>1
<1>4. CASE n # 0
  <2>1. n \in Nat /\ n - 1 \in Nat /\ n - 1 \notin W
    BY <1>1, <1>2, <1>4
  <2>2. PICK kept : Keeps(kept, ms, items, n - 1)
    BY <2>1
  <2>3. \A i \in 0..(n - 1) : kept[i] =
              IF i = 0 THEN <<>>
              ELSE IF items[i] \in ms THEN Append(kept[i - 1], items[i]) ELSE kept[i - 1]
    BY <2>2, Zenon DEF Keeps
  <2> DEFINE h == [i \in 0..n |->
                     IF i = n
                     THEN IF items[n] \in ms THEN Append(kept[n - 1], items[n]) ELSE kept[n - 1]
                     ELSE kept[i]]
  <2>4. \A i \in 0..n :
            /\ i # 0 => i - 1 \in 0..(n - 1) /\ i - 1 \in 0..n /\ i - 1 # n
            /\ i # n => i \in 0..(n - 1)
    BY <2>1
  <2>5. \A i \in 0..n : h[i] =
              IF i = 0 THEN <<>>
              ELSE IF items[i] \in ms THEN Append(h[i - 1], items[i]) ELSE h[i - 1]
    BY <1>4, <2>3, <2>4
  <2>6. h = [i \in 0..n |-> h[i]]
    OBVIOUS
  <2> HIDE DEF h
  <2>7. Keeps(h, ms, items, n)
    BY <2>5, <2>6 DEF Keeps
  <2> QED
    BY <1>2, <2>7
<1> QED
  BY <1>3, <1>4

(* What Only keeps: the messages of ms that are in the list, in the list's order.  *)
LEMMA OnlyKeeps ==
    ASSUME NEW M, NEW items \in Seq(M), NEW ms
    PROVE  /\ Only(ms, items) \in Seq(M)
           /\ ToSet(Only(ms, items)) = ToSet(items) \cap ms
           /\ \A a, b \in DOMAIN Only(ms, items) : a < b =>
                 \E i, j \in DOMAIN items :
                    i < j /\ items[i] = Only(ms, items)[a] /\ items[j] = Only(ms, items)[b]
<1> DEFINE kept == CHOOSE k : Keeps(k, ms, items, Len(items))
<1>1. Len(items) \in Nat /\ DOMAIN items = 1..Len(items)
  BY LenProperties
<1>2. Only(ms, items) = kept[Len(items)]
  BY DEF Only, Keeps
<1>3. Keeps(kept, ms, items, Len(items))
  BY <1>1, KeepsExists
<1> HIDE DEF kept
<1>4. \A i \in 0..Len(items) : kept[i] =
              IF i = 0 THEN <<>>
              ELSE IF items[i] \in ms THEN Append(kept[i - 1], items[i]) ELSE kept[i - 1]
  BY <1>3, Zenon DEF Keeps
<1> DEFINE Good(i) ==
             /\ kept[i] \in Seq(M)
             /\ \A j \in 1..i : items[j] \in ms => \E a \in DOMAIN kept[i] : kept[i][a] = items[j]
             /\ \A a \in DOMAIN kept[i] : kept[i][a] \in ms /\ \E j \in 1..i : items[j] = kept[i][a]
             /\ \A a, b \in DOMAIN kept[i] : a < b =>
                   \E j, l \in 1..i : j < l /\ items[j] = kept[i][a] /\ items[l] = kept[i][b]
           W == {i \in 0..Len(items) : ~ Good(i)}
<1>5. W = {}
  <2> SUFFICES ASSUME W # {} PROVE FALSE
    OBVIOUS
  <2>1. W \subseteq Nat
    BY <1>1
  <2> HIDE DEF W
  <2>2. PICK n \in W : \A k \in W : n <= k
    BY <2>1, LeastNumber
  <2>3. n \in 0..Len(items) /\ n \in Nat /\ ~ Good(n)
    BY <1>1, <2>2 DEF W
  <2>4. CASE n = 0
    <3>1. kept[n] = <<>>
      BY <1>4, <2>3, <2>4
    <3>2. Good(n)
      BY <2>4, <3>1
    <3> QED
      BY <2>3, <3>2
  <2>5. CASE n # 0
    <3>1. n - 1 \in 0..Len(items) /\ n - 1 \notin W /\ n \in 1..Len(items) /\ n - 1 \in Nat
      BY <1>1, <2>1, <2>2, <2>3, <2>5
    <3>2. Good(n - 1)
      BY <3>1 DEF W
    <3>3. items[n] \in M
      BY <3>1, ElementOfSeq
    <3> DEFINE k == kept[n - 1]
    <3>4. /\ k \in Seq(M) /\ Len(k) \in Nat /\ DOMAIN k = 1..Len(k)
      BY <3>2, LenProperties
    <3>5. CASE items[n] \notin ms
      <4>1. kept[n] = k
        BY <1>4, <2>3, <2>5, <3>5
      <4>2. \A j \in 1..n : j \in 1..(n - 1) \/ j = n
        BY <3>1
      <4>3. 1..(n - 1) \subseteq 1..n
        BY <3>1
      <4>4. ASSUME NEW j \in 1..n, items[j] \in ms PROVE \E a \in DOMAIN k : k[a] = items[j]
        BY <3>2, <3>5, <4>2, <4>4
      <4>5. ASSUME NEW a \in DOMAIN k PROVE k[a] \in ms /\ \E j \in 1..n : items[j] = k[a]
        BY <3>2, <4>3
      <4>6. ASSUME NEW a \in DOMAIN k, NEW b \in DOMAIN k, a < b
            PROVE \E j, l \in 1..n : j < l /\ items[j] = k[a] /\ items[l] = k[b]
        <5>1. PICK j \in 1..(n - 1), l \in 1..(n - 1) : j < l /\ items[j] = k[a] /\ items[l] = k[b]
          BY <3>2, <4>6
        <5> QED
          BY <4>3, <5>1
      <4> HIDE DEF k
      <4>7. Good(n)
        BY <3>4, <4>1, <4>4, <4>5, <4>6
      <4> QED
        BY <2>3, <4>7
    <3>6. CASE items[n] \in ms
      <4>1. kept[n] = Append(k, items[n])
        BY <1>4, <2>3, <2>5, <3>6
      <4> DEFINE q == kept[n]
      <4>2. /\ q \in Seq(M) /\ Len(q) = Len(k) + 1 /\ q[Len(k) + 1] = items[n]
            /\ \A a \in 1..Len(k) : q[a] = k[a]
            /\ DOMAIN q = 1..(Len(k) + 1)
        <5> HIDE DEF k
        <5>1. /\ q \in Seq(M) /\ Len(q) = Len(k) + 1 /\ q[Len(k) + 1] = items[n]
              /\ \A a \in 1..Len(k) : q[a] = k[a]
          BY <3>3, <3>4, <4>1, AppendProperties
        <5> HIDE DEF q
        <5> QED
          BY <5>1, LenProperties
      <4> HIDE DEF q
      <4>3. \A a \in DOMAIN q : (a \in DOMAIN k /\ q[a] = k[a]) \/ (a = Len(k) + 1 /\ q[a] = items[n])
        BY <3>4, <4>2
      <4>4. \A a \in DOMAIN k : a \in DOMAIN q /\ q[a] = k[a]
        BY <3>4, <4>2
      <4>5. \A j \in 1..n : j \in 1..(n - 1) \/ j = n
        BY <3>1
      <4>6. 1..(n - 1) \subseteq 1..n /\ n \in 1..n /\ \A j \in 1..(n - 1) : j < n
        BY <3>1
      <4>7. ASSUME NEW j \in 1..n, items[j] \in ms PROVE \E a \in DOMAIN q : q[a] = items[j]
        <5>1. CASE j = n
          <6>1. Len(k) + 1 \in DOMAIN q
            BY <3>4, <4>2
          <6> QED
            BY <4>2, <5>1, <6>1
        <5>2. CASE j \in 1..(n - 1)
          BY <3>2, <4>4, <4>7, <5>2
        <5> QED
          BY <4>5, <5>1, <5>2
      <4>8. ASSUME NEW a \in DOMAIN q PROVE q[a] \in ms /\ \E j \in 1..n : items[j] = q[a]
        BY <3>2, <3>6, <4>3, <4>6, SMTT(30)
      <4>9. ASSUME NEW a \in DOMAIN q, NEW b \in DOMAIN q, a < b
            PROVE \E j, l \in 1..n : j < l /\ items[j] = q[a] /\ items[l] = q[b]
        <5>1. a \in DOMAIN k /\ q[a] = k[a]
          <6>1. a # Len(k) + 1
            BY <3>4, <4>2, <4>9
          <6> QED
            BY <4>3, <6>1
        <5>2. CASE b \in DOMAIN k
          <6>1. q[b] = k[b]
            BY <4>4, <5>2
          <6>2. PICK j \in 1..(n - 1), l \in 1..(n - 1) : j < l /\ items[j] = k[a] /\ items[l] = k[b]
            BY <3>2, <4>9, <5>1, <5>2
          <6> QED
            BY <4>6, <5>1, <6>1, <6>2
        <5>3. CASE b \notin DOMAIN k
          <6>1. q[b] = items[n]
            BY <4>3, <5>3
          <6>2. PICK j \in 1..(n - 1) : items[j] = k[a]
            BY <3>2, <5>1
          <6>3. j \in 1..n /\ j < n
            BY <4>6
          <6> QED
            BY <4>6, <5>1, <6>1, <6>2, <6>3
        <5> QED
          BY <5>2, <5>3
      <4>10. Good(n)
        BY <4>2, <4>7, <4>8, <4>9 DEF q
      <4> QED
        BY <2>3, <4>10
    <3> QED
      BY <3>5, <3>6
  <2> QED
    BY <2>4, <2>5
<1>6. Good(Len(items))
  BY <1>1, <1>5
<1> DEFINE o == kept[Len(items)]
<1>7. ToSet(o) = ToSet(items) \cap ms
  <2>1. \A a \in DOMAIN o : o[a] \in ms /\ \E j \in 1..Len(items) : items[j] = o[a]
    BY <1>6
  <2>2. \A j \in 1..Len(items) : items[j] \in ms => \E a \in DOMAIN o : o[a] = items[j]
    BY <1>6
  <2> HIDE DEF o, Good, W
  <2>3. ToSet(o) \subseteq ToSet(items) \cap ms
    BY <1>1, <2>1 DEF ToSet
  <2>4. ToSet(items) \cap ms \subseteq ToSet(o)
    BY <1>1, <2>2 DEF ToSet
  <2> QED
    BY <2>3, <2>4
<1>8. \A a, b \in DOMAIN o : a < b =>
          \E i, j \in DOMAIN items : i < j /\ items[i] = o[a] /\ items[j] = o[b]
  <2> SUFFICES ASSUME NEW a \in DOMAIN o, NEW b \in DOMAIN o, a < b
               PROVE  \E i, j \in DOMAIN items : i < j /\ items[i] = o[a] /\ items[j] = o[b]
    OBVIOUS
  <2>1. PICK i \in 1..Len(items), j \in 1..Len(items) : i < j /\ items[i] = o[a] /\ items[j] = o[b]
    BY <1>6
  <2>2. i \in DOMAIN items /\ j \in DOMAIN items
    BY <1>1, <2>1
  <2> QED
    BY <2>1, <2>2
<1>9. o \in Seq(M)
  BY <1>6
<1> HIDE DEF Good, W
<1> QED
  BY <1>2, <1>7, <1>8, <1>9

(* The messages of t are messages of s, in the order of s.                  *)
Subsequence(t, s) ==
    /\ ToSet(t) \subseteq ToSet(s)
    /\ \A a, b \in DOMAIN t : a < b => \E i, j \in DOMAIN s : i < j /\ s[i] = t[a] /\ s[j] = t[b]

LEMMA SubsequenceInjective ==
    ASSUME NEW M, NEW s \in Seq(M), NEW t \in Seq(M), Subsequence(t, s), IsInjective(s)
    PROVE  IsInjective(t)
<1>1. DOMAIN t = 1..Len(t) /\ DOMAIN s = 1..Len(s) /\ Len(t) \in Nat /\ Len(s) \in Nat
  BY LenProperties
<1>2. ASSUME NEW a \in DOMAIN t, NEW b \in DOMAIN t, a < b PROVE t[a] # t[b]
  <2>1. PICK i \in DOMAIN s, j \in DOMAIN s : i < j /\ s[i] = t[a] /\ s[j] = t[b]
    BY <1>2 DEF Subsequence
  <2>2. i # j
    BY <1>1, <2>1
  <2> QED
    BY <2>1, <2>2 DEF IsInjective
<1>3. \A a, b \in DOMAIN t : a # b => a < b \/ b < a
  BY <1>1
<1> QED
  BY <1>2, <1>3 DEF IsInjective

LEMMA OnlySubsequence ==
    ASSUME NEW M, NEW items \in Seq(M), NEW ms
    PROVE  Subsequence(Only(ms, items), items)
BY OnlyKeeps DEF Subsequence

LEMMA AppendSet ==
    ASSUME NEW M, NEW s \in Seq(M), NEW m \in M
    PROVE  /\ Append(s, m) \in Seq(M)
           /\ ToSet(Append(s, m)) = ToSet(s) \cup {m}
           /\ IsInjective(s) /\ m \notin ToSet(s) => IsInjective(Append(s, m))
<1> DEFINE t == Append(s, m)
<1>1. /\ t \in Seq(M) /\ Len(t) = Len(s) + 1 /\ t[Len(s) + 1] = m
      /\ \A i \in 1..Len(s) : t[i] = s[i]
  BY AppendProperties
<1>2. DOMAIN t = 1..Len(t) /\ DOMAIN s = 1..Len(s) /\ Len(s) \in Nat
  BY <1>1, LenProperties
<1> HIDE DEF t
<1>3. ToSet(t) = ToSet(s) \cup {m}
  <2>1. ToSet(t) \subseteq ToSet(s) \cup {m}
    BY <1>1, <1>2 DEF ToSet
  <2>2. ASSUME NEW x \in ToSet(s) PROVE x \in ToSet(t)
    BY <1>1, <1>2 DEF ToSet
  <2>3. m \in ToSet(t)
    BY <1>1, <1>2 DEF ToSet
  <2> QED
    BY <2>1, <2>2, <2>3
<1>4. ASSUME IsInjective(s), m \notin ToSet(s) PROVE IsInjective(t)
  BY <1>1, <1>2, <1>4 DEF IsInjective, ToSet
<1> QED
  BY <1>1, <1>3, <1>4 DEF t

(* What a GET returns; what it drops is the cursor or before it.            *)
LEMMA NewerKeeps ==
    ASSUME NEW M, NEW items \in Seq(M), NEW since
    PROVE  /\ Newer(items, since) \in Seq(M)
           /\ Subsequence(Newer(items, since), items)
           /\ \A m \in ToSet(items) \ ToSet(Newer(items, since)) :
                 \E i, k \in DOMAIN items : i <= k /\ items[i] = m /\ items[k] = since
<1>0. Len(items) \in Nat /\ DOMAIN items = 1..Len(items)
  BY LenProperties
<1>1. CASE since \in ToSet(items)
  <2> DEFINE k == CHOOSE i \in DOMAIN items : items[i] = since
             t == SubSeq(items, 1 + k, Len(items))
  <2>1. Newer(items, since) = t
    BY <1>1 DEF Newer
  <2>2. k \in 1..Len(items) /\ items[k] = since
    BY <1>0, <1>1 DEF ToSet
  <2> HIDE DEF k
  <2>3. \A i \in (1 + k)..Len(items) : items[i] \in M
    BY <1>0, <2>2, ElementOfSeq
  <2>4. /\ t \in Seq(M)
        /\ Len(t) = Len(items) - k
        /\ \A i \in 1..(Len(items) - k) : t[i] = items[i + k]
    <3>1. 1 + k \in Int /\ Len(items) \in Int
      BY <1>0, <2>2
    <3>2. /\ t \in Seq(M)
          /\ Len(t) = IF 1 + k <= Len(items) THEN Len(items) - (1 + k) + 1 ELSE 0
          /\ \A i \in 1..(Len(items) - (1 + k) + 1) : t[i] = items[(1 + k) + i - 1]
      BY <2>3, <3>1, SubSeqProperties
    <3> HIDE DEF t
    <3>3. Len(t) = Len(items) - k
      <4> DEFINE n == Len(items)
      <4>1. n \in Nat /\ k \in Int /\ k <= n /\ 1 <= k
        BY <1>0, <2>2
      <4>2. Len(t) = IF 1 + k <= n THEN n - (1 + k) + 1 ELSE 0
        BY <3>2
      <4> HIDE DEF n
      <4>3. CASE 1 + k <= n
        <5>1. n - (1 + k) + 1 = n - k
          BY <4>1
        <5> QED
          BY <4>2, <4>3, <5>1 DEF n
      <4>4. CASE ~ (1 + k <= n)
        <5>1. n - k = 0
          BY <4>1, <4>4
        <5> QED
          BY <4>2, <4>4, <5>1 DEF n
      <4> QED
        BY <4>3, <4>4
    <3>4. ASSUME NEW i \in 1..(Len(items) - k) PROVE t[i] = items[i + k]
      <4>1. i \in 1..(Len(items) - (1 + k) + 1) /\ (1 + k) + i - 1 = i + k
        BY <1>0, <2>2
      <4> QED
        BY <3>2, <4>1
    <3> QED
      BY <3>2, <3>3, <3>4
  <2> HIDE DEF t
  <2>5. DOMAIN t = 1..(Len(items) - k)
    BY <2>4, LenProperties
  <2>6. \A i \in DOMAIN t : i + k \in DOMAIN items /\ t[i] = items[i + k]
    BY <1>0, <2>2, <2>4, <2>5
  <2>7. Subsequence(t, items)
    <3>1. ToSet(t) \subseteq ToSet(items)
      BY <2>6 DEF ToSet
    <3>2. ASSUME NEW a \in DOMAIN t, NEW b \in DOMAIN t, a < b
          PROVE  \E i, j \in DOMAIN items : i < j /\ items[i] = t[a] /\ items[j] = t[b]
      <4>1. a + k < b + k
        BY <1>0, <2>2, <2>5, <3>2
      <4> QED
        BY <2>6, <4>1
    <3> QED
      BY <3>1, <3>2 DEF Subsequence
  <2>8. ASSUME NEW m \in ToSet(items) \ ToSet(t)
        PROVE  \E i, j \in DOMAIN items : i <= j /\ items[i] = m /\ items[j] = since
    <3>1. PICK i \in DOMAIN items : items[i] = m
      BY DEF ToSet
    <3>2. i <= k
      <4>1. ASSUME i > k PROVE FALSE
        <5>1. i - k \in DOMAIN t /\ (i - k) + k = i
          BY <1>0, <2>2, <2>5, <4>1
        <5>2. t[i - k] = m
          BY <2>6, <3>1, <5>1
        <5> QED
          BY <5>1, <5>2 DEF ToSet
      <4> QED
        BY <1>0, <2>2, <4>1
    <3> QED
      BY <1>0, <2>2, <3>1, <3>2
  <2> QED
    BY <2>1, <2>4, <2>7, <2>8
<1>2. CASE since \notin ToSet(items)
  BY <1>2 DEF Newer, Subsequence
<1> QED
  BY <1>1, <1>2

-----------------------------------------------------------------------------
(* Types.                                                                   *)

LEMMA Authors == ASSUME NEW m \in Messages PROVE Author[m] \in Clients
BY AuthorIsClient

(* Orphaned requests are requests of the same kind, for the same messages.  *)
LEMMA OrphanedRequests ==
    ASSUME requests \subseteq Request, NEW c \in Clients
    PROVE  /\ Orphaned(requests, c) \subseteq Request
           /\ \A q \in Orphaned(requests, c) : \E r \in requests :
                 /\ q.kind = r.kind /\ q.since = r.since /\ q.snapshot = r.snapshot
                 /\ q.kind = "post" => q = r
                 /\ q.kind = "get" => q.of # c /\ (q.of = None \/ q = r)
<1>1. ASSUME NEW r \in requests, r.kind = "get", r.of = c
      PROVE  LET q == [r EXCEPT !.of = None]
             IN  /\ q \in Request /\ q.kind = "get" /\ q.of = None
                 /\ q.since = r.since /\ q.snapshot = r.snapshot
  BY <1>1 DEF Request
<1>2. None # c
  BY NoneAssumption
<1>3. \A q \in Orphaned(requests, c) : \E r \in requests :
         q = IF r.kind = "get" /\ r.of = c THEN [r EXCEPT !.of = None] ELSE r
  BY DEF Orphaned
<1> QED
  BY <1>1, <1>2, <1>3 DEF Request

LEMMA SavedList ==
    ASSUME NEW r \in Request, NEW items \in Seq(Messages)
    PROVE  Saved(r, items) \in Seq(Messages)
<1>1. r.kind = "post" => r.of \in Messages
  BY DEF Request
<1>2. r.kind = "post" => Append(items, r.of) \in Seq(Messages)
  BY <1>1, AppendSet
<1> QED
  BY <1>2, NewerKeeps DEF Saved

LEMMA PrunedList ==
    ASSUME NEW items \in Seq(Messages)
    PROVE  /\ Pruned(items) \in Seq(Messages)
           /\ Subsequence(Pruned(items), items)
           /\ \A m \in ToSet(items) \ ToSet(Pruned(items)) : Expired(m)
<1>1. /\ Pruned(items) \in Seq(Messages) /\ Subsequence(Pruned(items), items)
      /\ ToSet(Pruned(items)) = ToSet(items) \cap {m \in Messages : ~Expired(m)}
  BY OnlyKeeps, OnlySubsequence DEF Pruned
<1>2. ToSet(items) \subseteq Messages
  BY LenProperties, ElementOfSeq DEF ToSet
<1> QED
  BY <1>1, <1>2

(* The fields of a request.                                                 *)
LEMMA RequestFields ==
    ASSUME NEW r \in Request
    PROVE  /\ r.kind \in {"get", "post"}
           /\ r.kind = "get" => r.of \in Clients \cup {None}
           /\ r.kind = "post" => r.of \in Messages
           /\ r.since \in Messages \cup {None}
           /\ r.snapshot # None => r.snapshot \in Seq(Messages)
           /\ r.kind = "post" => r = [kind |-> "post", of |-> r.of, since |-> None, snapshot |-> r.snapshot]
BY DEF Request

LEMMA ConcatSet ==
    ASSUME NEW M, NEW s \in Seq(M), NEW t \in Seq(M)
    PROVE  /\ s \o t \in Seq(M)
           /\ ToSet(s \o t) = ToSet(s) \cup ToSet(t)
<1> DEFINE u == s \o t
<1>1. u \in Seq(M) /\ Len(u) = Len(s) + Len(t)
  BY ConcatProperties
<1>2. \A i \in 1..Len(u) : u[i] = IF i <= Len(s) THEN s[i] ELSE t[i - Len(s)]
  BY ConcatProperties
<1>3. /\ DOMAIN u = 1..Len(u) /\ DOMAIN s = 1..Len(s) /\ DOMAIN t = 1..Len(t)
      /\ Len(s) \in Nat /\ Len(t) \in Nat
  BY <1>1, LenProperties
<1> HIDE DEF u
<1>4. ToSet(u) \subseteq ToSet(s) \cup ToSet(t)
  <2> SUFFICES ASSUME NEW i \in DOMAIN u PROVE u[i] \in ToSet(s) \cup ToSet(t)
    BY DEF ToSet
  <2>1. CASE i <= Len(s)
    BY <1>1, <1>2, <1>3, <2>1 DEF ToSet
  <2>2. CASE ~ (i <= Len(s))
    <3>1. i - Len(s) \in DOMAIN t /\ u[i] = t[i - Len(s)]
      BY <1>1, <1>2, <1>3, <2>2
    <3> QED
      BY <3>1 DEF ToSet
  <2> QED
    BY <2>1, <2>2
<1>5. ASSUME NEW i \in DOMAIN s PROVE s[i] \in ToSet(u)
  <2>1. i \in DOMAIN u /\ u[i] = s[i]
    BY <1>1, <1>2, <1>3
  <2> QED
    BY <2>1 DEF ToSet
<1>6. ASSUME NEW i \in DOMAIN t PROVE t[i] \in ToSet(u)
  <2>1. i + Len(s) \in DOMAIN u /\ u[i + Len(s)] = t[i]
    <3>1. /\ i + Len(s) \in 1..Len(u) /\ ~ (i + Len(s) <= Len(s))
          /\ (i + Len(s)) - Len(s) = i
      BY <1>1, <1>3
    <3> QED
      BY <1>2, <1>3, <3>1
  <2> QED
    BY <2>1 DEF ToSet
<1> QED
  BY <1>1, <1>4, <1>5, <1>6 DEF ToSet, u

LEMMA LastIs ==
    ASSUME NEW M, NEW s \in Seq(M), s # <<>>
    PROVE  Last(s) \in M /\ Last(s) \in ToSet(s) /\ Len(s) \in DOMAIN s /\ Last(s) = s[Len(s)]
<1>1. Len(s) \in 1..Len(s) /\ DOMAIN s = 1..Len(s)
  BY EmptySeq, LenProperties
<1> QED
  BY <1>1, ElementOfSeq DEF Last, ToSet

LEMMA TypeInit == Init => TypeOK
<1> SUFFICES ASSUME Init PROVE TypeOK
  OBVIOUS
<1> USE DEF Init
<1>1. <<>> \in Seq(Messages)
  OBVIOUS
<1>2. /\ queue \in Seq(Messages) /\ log \in Seq(Messages)
      /\ reply \in [Clients -> Seq(Messages)]
      /\ given \in [Clients -> [Handlers -> Seq(Messages)]]
  BY <1>1
<1>3. age \in [Messages -> 0..(Ttl + 1)]
  BY BoundsAssumption
<1>4. endpoint \in {"node", "php"}
  BY EndpointsAssumption
<1> QED
  BY <1>2, <1>3, <1>4 DEF TypeOK

LEMMA AnswerTypes ==
    ASSUME TypeOK, NEW r \in requests, NEW items \in Seq(Messages), Answer(r, items)
    PROVE  TypeOK'
<1>1. r \in Request
  BY DEF TypeOK
<1>2. Saved(r, items) \in Seq(Messages)
  BY <1>1, SavedList
<1>3. CASE r.kind = "post"
  <2>1. r.of \in Messages
    BY <1>1, <1>3, RequestFields
  <2>2. Append(log, r.of) \in Seq(Messages)
    BY <2>1, AppendSet DEF TypeOK
  <2>3. post' \in [Messages -> {"new", "posting", "answered", "resolved", "rejected"}]
    BY <1>3, <2>1, ZenonT(30) DEF TypeOK, Answer
  <2>4. log' = Append(log, r.of) /\ UNCHANGED <<loop, reply>>
    BY <1>3 DEF Answer
  <2>5. queue' \in Seq(Messages) /\ requests' \subseteq Request
    BY <1>2 DEF Answer, TypeOK
  <2> QED
    BY <2>2, <2>3, <2>4, <2>5 DEF Answer, TypeOK
<1>4. CASE r.kind # "post"
  <2>1. r.of \in Clients \cup {None}
    BY <1>1, <1>4, RequestFields
  <2>2. loop' \in [Clients -> {"none", "waiting", "fetching", "replied"}]
    BY <1>4 DEF TypeOK, Answer
  <2>3. reply' \in [Clients -> Seq(Messages)]
    BY <1>2, <1>4 DEF TypeOK, Answer
  <2>4. UNCHANGED <<log, post>>
    BY <1>4 DEF Answer
  <2>5. queue' \in Seq(Messages) /\ requests' \subseteq Request
    BY <1>2 DEF Answer, TypeOK
  <2> QED
    BY <2>2, <2>3, <2>4, <2>5 DEF Answer, TypeOK
<1> QED
  BY <1>3, <1>4

LEMMA TypeStep == TypeOK /\ [Next]_vars => TypeOK'
<1> SUFFICES ASSUME TypeOK, [Next]_vars PROVE TypeOK'
  OBVIOUS
<1>0. requests \subseteq Request
  BY DEF TypeOK
<1>1. CASE Tick
  <2>1. age' \in [Messages -> 0..(Ttl + 1)]
    BY <1>1, BoundsAssumption DEF Tick, TypeOK, Expired
  <2> QED
    BY <1>1, <2>1 DEF Tick, TypeOK, rooms, history
<1>2. ASSUME NEW r \in requests, Serve(r) PROVE TypeOK'
  <2>1. Pruned(queue) \in Seq(Messages)
    BY PrunedList DEF TypeOK
  <2> QED
    BY <1>2, <2>1, AnswerTypes DEF Serve
<1>3. ASSUME NEW r \in requests, Load(r) PROVE TypeOK'
  <2>1. Pruned(queue) \in Seq(Messages)
    BY PrunedList DEF TypeOK
  <2>2. [r EXCEPT !.snapshot = Pruned(queue)] \in Request
    BY <1>0, <2>1 DEF Request
  <2>3. requests' \subseteq Request
    BY <1>0, <1>3, <2>2 DEF Load
  <2> QED
    BY <1>3, <2>3 DEF Load, TypeOK, rooms, history
<1>4. ASSUME NEW r \in requests, Save(r) PROVE TypeOK'
  <2>1. r.snapshot \in Seq(Messages)
    BY <1>0, <1>4, RequestFields DEF Save
  <2> QED
    BY <1>4, <2>1, AnswerTypes DEF Save
<1>5. ASSUME NEW m \in Messages, Publish(m) PROVE TypeOK'
  <2>1. Post(m) \in Request
    BY DEF Post, Request
  <2>2. requests' \subseteq Request
    BY <1>0, <1>5, <2>1 DEF Publish
  <2>3. post' \in [Messages -> {"new", "posting", "answered", "resolved", "rejected"}]
    BY <1>5 DEF Publish, TypeOK
  <2> QED
    BY <1>5, <2>2, <2>3 DEF Publish, TypeOK, rooms, history
<1>6. ASSUME NEW m \in Messages, Resolve(m) PROVE TypeOK'
  BY <1>6 DEF Resolve, TypeOK, server, rooms, history
<1>7. ASSUME NEW m \in Messages, Reject(m) PROVE TypeOK'
  <2>1. failures' \in Nat /\ requests' \subseteq Request
    BY <1>0, <1>7 DEF Reject, TypeOK
  <2> QED
    BY <1>7, <2>1 DEF Reject, TypeOK, rooms, history
<1>8. ASSUME NEW c \in Clients, NEW h \in Handlers, Subscribe(c, h) PROVE TypeOK'
  <2>0. <<>> \in Seq(Messages)
    OBVIOUS
  <2>1. given' \in [Clients -> [Handlers -> Seq(Messages)]]
    BY <1>8, <2>0 DEF Subscribe, TypeOK
  <2>2. handlers' \in [Clients -> SUBSET Handlers] /\ subscribes' \in [Clients -> Nat]
    BY <1>8 DEF Subscribe, TypeOK
  <2>3. /\ delivered' \in [Clients -> SUBSET Messages]
        /\ cursor' \in [Clients -> Messages \cup {None}]
        /\ loop' \in [Clients -> {"none", "waiting", "fetching", "replied"}]
    BY <1>8 DEF Subscribe, TypeOK
  <2> QED
    BY <1>8, <2>1, <2>2, <2>3 DEF Subscribe, TypeOK, server
<1>9. ASSUME NEW c \in Clients, NEW h \in Handlers, Unsubscribe(c, h) PROVE TypeOK'
  <2>0. <<>> \in Seq(Messages)
    OBVIOUS
  <2>1. handlers' \in [Clients -> SUBSET Handlers]
    BY <1>9 DEF Unsubscribe, TypeOK
  <2>2. /\ loop' \in [Clients -> {"none", "waiting", "fetching", "replied"}]
        /\ reply' \in [Clients -> Seq(Messages)]
        /\ requests' \subseteq Request
    <3>1. CASE UNCHANGED <<loop, reply, requests>>
      BY <3>1 DEF TypeOK
    <3>2. CASE /\ loop' = [loop EXCEPT ![c] = "none"]
               /\ reply' = [reply EXCEPT ![c] = <<>>]
               /\ requests' = Orphaned(requests, c)
      BY <1>0, <2>0, <3>2, OrphanedRequests DEF TypeOK
    <3> QED
      BY <1>9, <3>1, <3>2 DEF Unsubscribe
  <2> QED
    BY <1>9, <2>1, <2>2 DEF Unsubscribe, TypeOK, history
<1>10. ASSUME NEW c \in Clients, Poll(c) PROVE TypeOK'
  <2>1. Get(c) \in Request
    BY DEF Get, Request, TypeOK
  <2>2. loop' \in [Clients -> {"none", "waiting", "fetching", "replied"}]
    BY <1>10 DEF Poll, TypeOK
  <2> QED
    BY <1>10, <2>1, <2>2 DEF Poll, TypeOK, history
<1>11. ASSUME NEW c \in Clients, PollFails(c) PROVE TypeOK'
  <2>0. <<>> \in Seq(Messages)
    OBVIOUS
  <2>1. /\ loop' \in [Clients -> {"none", "waiting", "fetching", "replied"}]
        /\ reply' \in [Clients -> Seq(Messages)]
        /\ failures' \in Nat
    BY <1>11, <2>0 DEF PollFails, TypeOK
  <2>2. requests' \subseteq Request
    BY <1>0, <1>11, OrphanedRequests DEF PollFails
  <2> QED
    BY <1>11, <2>1, <2>2 DEF PollFails, TypeOK, history
<1>12. ASSUME NEW c \in Clients, Process(c) PROVE TypeOK'
  <2>0. <<>> \in Seq(Messages) /\ reply[c] \in Seq(Messages)
    BY DEF TypeOK
  <2>1. Fresh(c) \in Seq(Messages) /\ ToSet(Fresh(c)) \subseteq Messages /\ ToSet(reply[c]) \subseteq Messages
    <3>1. Fresh(c) \in Seq(Messages)
      BY <2>0, OnlyKeeps DEF Fresh
    <3> QED
      BY <2>0, <3>1, LenProperties, ElementOfSeq DEF ToSet
  <2>2. ASSUME NEW h \in Handlers PROVE given[c][h] \o Fresh(c) \in Seq(Messages)
    BY <2>1, ConcatSet DEF TypeOK
  <2>3. [h \in Handlers |-> IF h \in handlers[c] THEN given[c][h] \o Fresh(c) ELSE given[c][h]]
           \in [Handlers -> Seq(Messages)]
    BY <2>2 DEF TypeOK
  <2>4. given' \in [Clients -> [Handlers -> Seq(Messages)]]
    BY <1>12, <2>3 DEF Process, TypeOK
  <2>5. /\ delivered' \in [Clients -> SUBSET Messages]
        /\ heard' \in [Clients -> SUBSET Messages]
    BY <1>12, <2>1 DEF Process, TypeOK
  <2>6. reply[c] # <<>> => Last(reply[c]) \in Messages
    BY <2>0, LastIs
  <2>7. cursor' \in [Clients -> Messages \cup {None}]
    BY <1>12, <2>6 DEF Process, TypeOK
  <2>8. /\ reply' \in [Clients -> Seq(Messages)]
        /\ loop' \in [Clients -> {"none", "waiting", "fetching", "replied"}]
    BY <1>12, <2>0 DEF Process, TypeOK
  <2> QED
    BY <1>12, <2>4, <2>5, <2>7, <2>8 DEF Process, TypeOK, server
<1>13. ASSUME NEW c \in Clients, Close(c) PROVE TypeOK'
  <2>0. <<>> \in Seq(Messages)
    OBVIOUS
  <2>1. /\ loop' \in [Clients -> {"none", "waiting", "fetching", "replied"}]
        /\ reply' \in [Clients -> Seq(Messages)]
        /\ life' \in [Clients -> {"open", "closing", "closed"}]
    <3>1. life' \in [Clients -> {"open", "closing", "closed"}]
      BY <1>13 DEF Close, TypeOK
    <3>2. CASE UNCHANGED <<loop, reply>>
      BY <3>1, <3>2 DEF TypeOK
    <3>3. CASE /\ loop' = [loop EXCEPT ![c] = "none"]
               /\ reply' = [reply EXCEPT ![c] = <<>>]
      BY <2>0, <3>1, <3>3 DEF TypeOK
    <3> QED
      BY <1>13, <3>2, <3>3 DEF Close
  <2>2. requests' \subseteq Request
    BY <1>0, <1>13, OrphanedRequests DEF Close
  <2> QED
    BY <1>13, <2>1, <2>2 DEF Close, TypeOK, history
<1>14. ASSUME NEW c \in Clients, Closed(c) PROVE TypeOK'
  BY <1>14 DEF Closed, TypeOK, server, rooms, history
<1>15. CASE UNCHANGED vars
  BY <1>15 DEF vars, server, rooms, history, TypeOK
<1> QED
  BY <1>1, <1>2, <1>3, <1>4, <1>5, <1>6, <1>7, <1>8, <1>9, <1>10, <1>11, <1>12, <1>13,
     <1>14, <1>15 DEF Next

(* Every reachable state has its types. *)
THEOREM Types == Spec => []TypeOK
BY TypeInit, TypeStep, PTL DEF Spec

-----------------------------------------------------------------------------
(* What the endpoint holds: every list it keeps is of stored messages, none twice; *)
(* a POST is of a message it has not stored yet, whoever resolves has a stored one. *)

StoredOnce(s) == IsInjective(s) /\ ToSet(s) \subseteq Stored

ListsStored ==
    /\ IsInjective(log)
    /\ StoredOnce(queue)
    /\ \A r \in requests : r.snapshot # None => StoredOnce(r.snapshot)

PostsPending ==
    /\ \A r \in requests : r.kind = "post" => r.of \notin Stored /\ post[r.of] # "new"
    /\ \A r, q \in requests : r.kind = "post" /\ q.kind = "post" /\ r.of = q.of => r = q

OutcomesStored ==
    /\ \A m \in Messages : post[m] \in {"answered", "resolved"} => m \in Stored
    /\ \A m \in Messages : post[m] = "new" => m \notin Stored

ServerInv == ListsStored /\ PostsPending /\ OutcomesStored

LEMMA ServerInit == Init => ServerInv
<1> SUFFICES ASSUME Init PROVE ServerInv
  OBVIOUS
<1>1. IsInjective(<<>>) /\ ToSet(<<>>) = {}
  BY DEF IsInjective, ToSet
<1>2. queue = <<>> /\ log = <<>> /\ requests = {} /\ \A m \in Messages : post[m] = "new"
  BY DEF Init
<1> QED
  BY <1>1, <1>2 DEF ServerInv, ListsStored, PostsPending, OutcomesStored, StoredOnce, Stored

(* A step that stores nothing and only forgets or orphans requests, or adds GETs. *)
LEMMA ServerQuiet ==
    ASSUME ServerInv, UNCHANGED <<queue, log, post>>,
           \A q \in requests' :
              \/ q.snapshot = None /\ q.kind = "get"
              \/ \E r \in requests : /\ q.kind = r.kind /\ q.snapshot = r.snapshot
                                     /\ q.kind = "post" => q = r
    PROVE  ServerInv'
<1>1. Stored' = Stored
  BY DEF Stored
<1>2. ListsStored'
  BY <1>1 DEF ServerInv, ListsStored, StoredOnce
<1>3. \A q \in requests' : q.kind = "post" => q \in requests
  BY DEF ServerInv
<1>4. PostsPending'
  BY <1>1, <1>3 DEF ServerInv, PostsPending
<1>5. OutcomesStored'
  BY <1>1 DEF ServerInv, OutcomesStored
<1> QED
  BY <1>2, <1>4, <1>5 DEF ServerInv

LEMMA SubsequenceStored ==
    ASSUME NEW s \in Seq(Messages), NEW t \in Seq(Messages), Subsequence(t, s), StoredOnce(s)
    PROVE  StoredOnce(t)
BY SubsequenceInjective DEF Subsequence, StoredOnce

LEMMA AnswerServer ==
    ASSUME TypeOK, ServerInv, NEW r \in requests, NEW items \in Seq(Messages),
           StoredOnce(items), Answer(r, items)
    PROVE  ServerInv'
<1>1. r \in Request /\ log \in Seq(Messages)
  BY DEF TypeOK
<1>2. requests' = requests \ {r} /\ queue' = Saved(r, items)
  BY DEF Answer
<1>3. CASE r.kind = "post"
  <2>1. r.of \in Messages /\ r.of \notin Stored /\ post[r.of] # "new"
    BY <1>1, <1>3, RequestFields DEF ServerInv, PostsPending
  <2>2. log' = Append(log, r.of) /\ queue' = Append(items, r.of)
    BY <1>2, <1>3 DEF Answer, Saved
  <2>3. Stored' = Stored \cup {r.of} /\ IsInjective(log')
    BY <1>1, <2>1, <2>2, AppendSet DEF Stored, ServerInv, ListsStored
  <2>4. IsInjective(queue') /\ ToSet(queue') \subseteq Stored'
    BY <2>1, <2>2, <2>3, AppendSet DEF StoredOnce
  <2>5. ListsStored'
    BY <1>2, <2>3, <2>4 DEF ServerInv, ListsStored, StoredOnce
  <2>6. post' = [post EXCEPT ![r.of] = IF @ = "posting" THEN "answered" ELSE @]
    BY <1>3 DEF Answer
  <2>7. \A m \in Messages : /\ m # r.of => post'[m] = post[m]
                            /\ post'[m] = "new" => post[m] = "new"
    BY <2>1, <2>6 DEF TypeOK
  <2>8. \A q \in requests' : q.kind = "post" => q \in requests /\ q.of # r.of /\ q.of \in Messages
    BY <1>2, <1>3, RequestFields DEF ServerInv, PostsPending, TypeOK
  <2>9. PostsPending'
    BY <2>3, <2>7, <2>8 DEF ServerInv, PostsPending
  <2>10. OutcomesStored'
    BY <2>1, <2>3, <2>7 DEF ServerInv, OutcomesStored
  <2> QED
    BY <2>5, <2>9, <2>10 DEF ServerInv
<1>4. CASE r.kind # "post"
  <2>1. queue' = Newer(items, r.since) /\ UNCHANGED <<log, post>>
    BY <1>2, <1>4 DEF Answer, Saved
  <2>2. Stored' = Stored
    BY <2>1 DEF Stored
  <2>3. StoredOnce(queue')
    BY <2>1, NewerKeeps, SubsequenceStored
  <2>4. ListsStored'
    BY <1>2, <2>1, <2>2, <2>3 DEF ServerInv, ListsStored, StoredOnce
  <2>5. PostsPending' /\ OutcomesStored'
    BY <1>2, <2>1, <2>2 DEF ServerInv, PostsPending, OutcomesStored
  <2> QED
    BY <2>4, <2>5 DEF ServerInv
<1> QED
  BY <1>3, <1>4

LEMMA ServerStep == TypeOK /\ ServerInv /\ [Next]_vars => ServerInv'
<1> SUFFICES ASSUME TypeOK, ServerInv, [Next]_vars PROVE ServerInv'
  OBVIOUS
<1>0. requests \subseteq Request /\ queue \in Seq(Messages)
  BY DEF TypeOK
<1>a. Pruned(queue) \in Seq(Messages) /\ StoredOnce(Pruned(queue))
  BY <1>0, PrunedList, SubsequenceStored DEF ServerInv, ListsStored
<1>1. CASE Tick
  BY <1>1, ServerQuiet DEF Tick, history
<1>2. ASSUME NEW r \in requests, Serve(r) PROVE ServerInv'
  BY <1>a, <1>2, AnswerServer DEF Serve
<1>3. ASSUME NEW r \in requests, Load(r) PROVE ServerInv'
  <2> DEFINE q == [r EXCEPT !.snapshot = Pruned(queue)]
  <2>1. q.kind = r.kind /\ q.of = r.of /\ q.snapshot = Pruned(queue)
    BY <1>0 DEF Request
  <2> HIDE DEF q
  <2>2. requests' = (requests \ {r}) \cup {q} /\ UNCHANGED <<queue, log, post>>
    BY <1>3 DEF Load, history, q
  <2>3. Stored' = Stored
    BY <2>2 DEF Stored
  <2>4. ListsStored'
    BY <1>a, <2>1, <2>2, <2>3 DEF ServerInv, ListsStored, StoredOnce
  <2>5. PostsPending'
    BY <2>1, <2>2, <2>3 DEF ServerInv, PostsPending
  <2>6. OutcomesStored'
    BY <2>2, <2>3 DEF ServerInv, OutcomesStored
  <2> QED
    BY <2>4, <2>5, <2>6 DEF ServerInv
<1>4. ASSUME NEW r \in requests, Save(r) PROVE ServerInv'
  <2>1. r.snapshot \in Seq(Messages) /\ StoredOnce(r.snapshot)
    BY <1>0, <1>4, RequestFields DEF Save, ServerInv, ListsStored
  <2> QED
    BY <1>4, <2>1, AnswerServer DEF Save
<1>5. ASSUME NEW m \in Messages, Publish(m) PROVE ServerInv'
  <2>1. m \notin Stored /\ UNCHANGED <<queue, log>>
    BY <1>5 DEF Publish, ServerInv, OutcomesStored, history
  <2>2. Stored' = Stored
    BY <2>1 DEF Stored
  <2>3. /\ Post(m).kind = "post" /\ Post(m).of = m /\ Post(m).snapshot = None
        /\ requests' \subseteq requests \cup {Post(m)}
    BY <1>5 DEF Post, Publish
  <2>4. \A n \in Messages : n # m => post'[n] = post[n]
    BY <1>5 DEF Publish, TypeOK
  <2>5. post'[m] \in {"posting", "rejected"}
    BY <1>5 DEF Publish, TypeOK
  <2>6. ListsStored'
    BY <2>1, <2>2, <2>3 DEF ServerInv, ListsStored, StoredOnce
  <2>7. \A r \in requests : r.kind = "post" => r.of \in Messages /\ r.of # m
    BY <1>0, <1>5, RequestFields DEF Publish, ServerInv, PostsPending
  <2>8. PostsPending'
    BY <2>1, <2>2, <2>3, <2>4, <2>5, <2>7 DEF ServerInv, PostsPending
  <2>9. OutcomesStored'
    BY <2>1, <2>2, <2>4, <2>5 DEF ServerInv, OutcomesStored
  <2> QED
    BY <2>6, <2>8, <2>9 DEF ServerInv
<1>6. ASSUME NEW m \in Messages, Resolve(m) \/ Reject(m) PROVE ServerInv'
  <2>1. UNCHANGED <<queue, log>> /\ requests' \subseteq requests
    BY <1>6 DEF Resolve, Reject, server, history
  <2>2. Stored' = Stored
    BY <2>1 DEF Stored
  <2>3. /\ \A n \in Messages : n # m => post'[n] = post[n]
        /\ post'[m] \in {"resolved", "rejected"}
        /\ post'[m] = "resolved" => m \in Stored
        /\ post[m] # "new"
    BY <1>6 DEF Resolve, Reject, TypeOK, ServerInv, OutcomesStored
  <2>4. ListsStored'
    BY <2>1, <2>2 DEF ServerInv, ListsStored, StoredOnce
  <2>5. \A r \in requests : r.kind = "post" => r.of \in Messages
    BY <1>0, RequestFields
  <2>6. PostsPending'
    BY <2>1, <2>2, <2>3, <2>5 DEF ServerInv, PostsPending
  <2>7. OutcomesStored'
    BY <2>2, <2>3 DEF ServerInv, OutcomesStored
  <2> QED
    BY <2>4, <2>6, <2>7 DEF ServerInv
<1>7. ASSUME NEW c \in Clients,
             \/ \E h \in Handlers : Subscribe(c, h) \/ Unsubscribe(c, h)
             \/ Poll(c) \/ PollFails(c) \/ Process(c) \/ Close(c) \/ Closed(c)
      PROVE  ServerInv'
  <2>1. UNCHANGED <<queue, log, post>>
    BY <1>7 DEF Subscribe, Unsubscribe, Poll, PollFails, Process, Close, Closed, server, history
  <2>2. \/ requests' \subseteq requests
        \/ requests' = Orphaned(requests, c)
        \/ requests' = requests \cup {Get(c)}
    BY <1>7 DEF Subscribe, Unsubscribe, Poll, PollFails, Process, Close, Closed, server
  <2>3. Get(c).kind = "get" /\ Get(c).snapshot = None
    BY DEF Get
  <2>4. \A q \in Orphaned(requests, c) : \E r \in requests :
            q.kind = r.kind /\ q.snapshot = r.snapshot /\ (q.kind = "post" => q = r)
    BY <1>0, OrphanedRequests
  <2>5. \A q \in requests' :
              \/ q.snapshot = None /\ q.kind = "get"
              \/ \E r \in requests : /\ q.kind = r.kind /\ q.snapshot = r.snapshot
                                     /\ q.kind = "post" => q = r
    BY <2>2, <2>3, <2>4
  <2> QED
    BY <2>1, <2>5, ServerQuiet
<1>8. CASE UNCHANGED vars
  BY <1>8, ServerQuiet DEF vars, server, history
<1> QED
  BY <1>1, <1>2, <1>3, <1>4, <1>5, <1>6, <1>7, <1>8 DEF Next

-----------------------------------------------------------------------------
(* What an adapter holds: one request at most for its loop, a loop only while it *)
(* has a room, a reply of stored messages, and every message given recorded.     *)

GetsAwaited ==
    /\ \A r \in requests : r.kind = "get" /\ r.of # None => loop[r.of] = "fetching"
    /\ \A r, q \in requests :
          r.kind = "get" /\ q.kind = "get" /\ r.of # None /\ r.of = q.of => r = q

LoopsOfRooms ==
    \A c \in Clients :
        /\ life[c] = "closed" => loop[c] = "none"
        /\ life[c] = "closing" => loop[c] \in {"none", "replied"}
        /\ life[c] = "open" /\ handlers[c] = {} => loop[c] = "none"

RepliesStored == \A c \in Clients : StoredOnce(reply[c])

GivenDelivered == \A c \in Clients : \A h \in handlers[c] : ToSet(given[c][h]) \subseteq delivered[c]

AdapterInv == GetsAwaited /\ LoopsOfRooms /\ RepliesStored /\ GivenDelivered

LEMMA AdapterInit == Init => AdapterInv
<1> SUFFICES ASSUME Init PROVE AdapterInv
  OBVIOUS
<1>1. IsInjective(<<>>) /\ ToSet(<<>>) = {}
  BY DEF IsInjective, ToSet
<1>2. GetsAwaited /\ LoopsOfRooms
  BY DEF Init, GetsAwaited, LoopsOfRooms
<1>3. RepliesStored
  BY <1>1 DEF Init, RepliesStored, StoredOnce
<1>4. GivenDelivered
  BY DEF Init, GivenDelivered
<1> QED
  BY <1>2, <1>3, <1>4 DEF AdapterInv

(* A step of the endpoint or of publish() that answers no GET.              *)
LEMMA AdapterQuiet ==
    ASSUME AdapterInv, UNCHANGED <<life, handlers, delivered, loop, reply, given>>,
           Stored \subseteq Stored',
           \A q \in requests' : q.kind = "get" => q \in requests
    PROVE  AdapterInv'
<1>1. GetsAwaited'
  BY DEF AdapterInv, GetsAwaited
<1>2. LoopsOfRooms'
  BY DEF AdapterInv, LoopsOfRooms
<1>3. RepliesStored'
  BY DEF AdapterInv, RepliesStored, StoredOnce
<1>4. GivenDelivered'
  BY DEF AdapterInv, GivenDelivered
<1> QED
  BY <1>1, <1>2, <1>3, <1>4 DEF AdapterInv

(* A step of one adapter changes its own loop, and leaves no other GET of its own. *)
LEMMA AdapterOwn ==
    ASSUME TypeOK, AdapterInv, NEW c \in Clients, UNCHANGED log,
           \A d \in Clients : d # c => /\ loop'[d] = loop[d] /\ reply'[d] = reply[d]
                                       /\ life'[d] = life[d] /\ handlers'[d] = handlers[d]
                                       /\ delivered'[d] = delivered[d] /\ given'[d] = given[d],
           \A q \in requests' : q.kind = "get" /\ q.of # None =>
              \/ q.of # c /\ q \in requests
              \/ q.of = c /\ q = Get(c) /\ loop'[c] = "fetching",
           life'[c] = "closed" => loop'[c] = "none",
           life'[c] = "closing" => loop'[c] \in {"none", "replied"},
           life'[c] = "open" /\ handlers'[c] = {} => loop'[c] = "none",
           reply'[c] \in {reply[c], <<>>},
           \A h \in handlers'[c] : ToSet(given'[c][h]) \subseteq delivered'[c]
    PROVE  AdapterInv'
<1>1. Stored' = Stored
  BY DEF Stored
<1>2. GetsAwaited'
  <2>1. \A q \in requests' : q.kind = "get" /\ q.of # None /\ q.of # c => q.of \in Clients
    BY RequestFields DEF TypeOK
  <2>2. ASSUME NEW q \in requests', q.kind = "get", q.of # None PROVE loop'[q.of] = "fetching"
    BY <2>1, <2>2 DEF AdapterInv, GetsAwaited
  <2>3. ASSUME NEW r \in requests', NEW q \in requests', r.kind = "get", q.kind = "get",
               r.of # None, r.of = q.of
        PROVE  r = q
    BY <2>3 DEF AdapterInv, GetsAwaited
  <2> QED
    BY <2>2, <2>3 DEF GetsAwaited
<1>3. LoopsOfRooms'
  BY DEF AdapterInv, LoopsOfRooms
<1>4. RepliesStored'
  <2>1. StoredOnce(<<>>)
    BY DEF StoredOnce, IsInjective, ToSet
  <2>2. \A d \in Clients : reply'[d] = reply[d] \/ reply'[d] = <<>>
    OBVIOUS
  <2> QED
    BY <1>1, <2>1, <2>2 DEF AdapterInv, RepliesStored, StoredOnce
<1>5. GivenDelivered'
  BY DEF AdapterInv, GivenDelivered
<1> QED
  BY <1>2, <1>3, <1>4, <1>5 DEF AdapterInv

LEMMA AnswerAdapter ==
    ASSUME TypeOK, ServerInv, AdapterInv, NEW r \in requests, NEW items \in Seq(Messages),
           StoredOnce(items), Answer(r, items)
    PROVE  AdapterInv'
<1>1. r \in Request
  BY DEF TypeOK
<1>2. requests' = requests \ {r} /\ UNCHANGED <<life, handlers, delivered, given>>
  BY DEF Answer
<1>3. CASE r.kind = "post"
  <2>1. log' = Append(log, r.of) /\ UNCHANGED <<loop, reply>>
    BY <1>3 DEF Answer
  <2>2. Stored \subseteq Stored'
    BY <1>1, <1>3, <2>1, AppendSet, RequestFields DEF Stored, TypeOK
  <2> QED
    BY <1>2, <2>1, <2>2, AdapterQuiet
<1>4. CASE r.kind # "post" /\ r.of = None
  <2>1. UNCHANGED <<log, loop, reply>>
    BY <1>4 DEF Answer
  <2>2. Stored \subseteq Stored'
    BY <2>1 DEF Stored
  <2> QED
    BY <1>2, <2>1, <2>2, AdapterQuiet
<1>5. CASE r.kind # "post" /\ r.of # None
  <2> DEFINE c == r.of
  <2>1. c \in Clients /\ r.kind = "get"
    BY <1>1, <1>5, RequestFields
  <2>2. /\ loop' = [loop EXCEPT ![c] = "replied"]
        /\ reply' = [reply EXCEPT ![c] = Saved(r, items)]
        /\ UNCHANGED log
    BY <1>5 DEF Answer
  <2>3. Stored' = Stored
    BY <2>2 DEF Stored
  <2>4. loop[c] = "fetching"
    BY <1>5, <2>1 DEF AdapterInv, GetsAwaited
  <2>5. GetsAwaited'
    <3>1. \A q \in requests' : q.kind = "get" /\ q.of # None => q.of # c
      BY <1>2, <1>5, <2>1 DEF AdapterInv, GetsAwaited
    <3> QED
      BY <1>2, <2>1, <2>2, <3>1 DEF AdapterInv, GetsAwaited, TypeOK
  <2>6. LoopsOfRooms'
    BY <1>2, <2>1, <2>2, <2>4 DEF AdapterInv, LoopsOfRooms, TypeOK
  <2>7. RepliesStored'
    <3>1. StoredOnce(Saved(r, items))
      BY <2>1, NewerKeeps, SubsequenceStored DEF Saved
    <3> QED
      BY <2>2, <2>3, <3>1 DEF AdapterInv, RepliesStored, TypeOK, StoredOnce
  <2>8. GivenDelivered'
    BY <1>2 DEF AdapterInv, GivenDelivered
  <2> QED
    BY <2>5, <2>6, <2>7, <2>8 DEF AdapterInv
<1> QED
  BY <1>3, <1>4, <1>5

(* The messages that a response brings to the handlers.                     *)
LEMMA FreshList ==
    ASSUME TypeOK, NEW c \in Clients
    PROVE  /\ Fresh(c) \in Seq(Messages)
           /\ ToSet(Fresh(c)) = ToSet(reply[c]) \ delivered[c]
           /\ Subsequence(Fresh(c), reply[c])
<1>1. reply[c] \in Seq(Messages)
  BY DEF TypeOK
<1>2. /\ Fresh(c) \in Seq(Messages) /\ Subsequence(Fresh(c), reply[c])
      /\ ToSet(Fresh(c)) = ToSet(reply[c]) \cap (Messages \ delivered[c])
  BY <1>1, OnlyKeeps, OnlySubsequence DEF Fresh
<1>3. ToSet(reply[c]) \subseteq Messages
  BY <1>1, LenProperties, ElementOfSeq DEF ToSet
<1> QED
  BY <1>2, <1>3

LEMMA AdapterStep == TypeOK /\ ServerInv /\ AdapterInv /\ [Next]_vars => AdapterInv'
<1> SUFFICES ASSUME TypeOK, ServerInv, AdapterInv, [Next]_vars PROVE AdapterInv'
  OBVIOUS
<1>0. requests \subseteq Request /\ queue \in Seq(Messages)
  BY DEF TypeOK
<1>a. Pruned(queue) \in Seq(Messages) /\ StoredOnce(Pruned(queue))
  BY <1>0, PrunedList, SubsequenceStored DEF ServerInv, ListsStored
<1>b. \A c \in Clients : \A r \in requests : r.kind = "get" /\ r.of = c => loop[c] = "fetching"
  BY NoneAssumption DEF AdapterInv, GetsAwaited
<1>c. \A c \in Clients : loop[c] \in {"waiting", "fetching"} => life[c] = "open" /\ handlers[c] # {}
  BY DEF AdapterInv, LoopsOfRooms, TypeOK
<1>d. \A c \in Clients : \A q \in Orphaned(requests, c) :
          q.kind = "get" /\ q.of # None => q.of # c /\ q \in requests
  BY <1>0, OrphanedRequests
<1>e. \A c \in Clients : Get(c).kind = "get" /\ Get(c).of = c
  BY DEF Get
<1>1. CASE Tick
  BY <1>1, AdapterQuiet DEF Tick, history, rooms, Stored
<1>2. ASSUME NEW r \in requests, Serve(r) PROVE AdapterInv'
  BY <1>a, <1>2, AnswerAdapter DEF Serve
<1>3. ASSUME NEW r \in requests, Load(r) PROVE AdapterInv'
  <2> DEFINE q == [r EXCEPT !.snapshot = Pruned(queue)]
  <2>1. q.kind = r.kind /\ q.of = r.of
    BY <1>0 DEF Request
  <2> HIDE DEF q
  <2>2. requests' = (requests \ {r}) \cup {q} /\ UNCHANGED <<log, life, rooms, given>>
    BY <1>3 DEF Load, history, q
  <2>3. Stored' = Stored
    BY <2>2 DEF Stored
  <2>4. GetsAwaited'
    BY <2>1, <2>2 DEF AdapterInv, GetsAwaited, rooms
  <2>5. LoopsOfRooms' /\ GivenDelivered'
    BY <2>2 DEF AdapterInv, LoopsOfRooms, GivenDelivered, rooms
  <2>6. RepliesStored'
    BY <2>2, <2>3 DEF AdapterInv, RepliesStored, StoredOnce, rooms
  <2> QED
    BY <2>4, <2>5, <2>6 DEF AdapterInv
<1>4. ASSUME NEW r \in requests, Save(r) PROVE AdapterInv'
  <2>1. r.snapshot \in Seq(Messages) /\ StoredOnce(r.snapshot)
    BY <1>0, <1>4, RequestFields DEF Save, ServerInv, ListsStored
  <2> QED
    BY <1>4, <2>1, AnswerAdapter DEF Save
<1>5. ASSUME NEW m \in Messages, Publish(m) \/ Resolve(m) \/ Reject(m) PROVE AdapterInv'
  <2>1. UNCHANGED <<log, life, rooms, given>>
    BY <1>5 DEF Publish, Resolve, Reject, server, history
  <2>2. \A q \in requests' : q.kind = "get" => q \in requests
    BY <1>5 DEF Publish, Resolve, Reject, server, Post
  <2>3. Stored' = Stored
    BY <2>1 DEF Stored
  <2> QED
    BY <2>1, <2>2, <2>3, AdapterQuiet DEF rooms
<1>6. ASSUME NEW c \in Clients, NEW h \in Handlers, Subscribe(c, h) PROVE AdapterInv'
  <2>1. UNCHANGED <<server, life, reply, log>> /\ life[c] = "open"
    BY <1>6 DEF Subscribe
  <2>2. /\ handlers'[c] = handlers[c] \cup {h}
        /\ given'[c] = [given[c] EXCEPT ![h] = <<>>]
        /\ \A d \in Clients : d # c => handlers'[d] = handlers[d] /\ given'[d] = given[d]
    BY <1>6 DEF Subscribe, TypeOK
  <2>3. \A k \in Handlers : given'[c][k] = IF k = h THEN <<>> ELSE given[c][k]
    BY <2>2 DEF TypeOK
  <2>4. \A d \in Clients : d # c => loop'[d] = loop[d] /\ delivered'[d] = delivered[d]
    BY <1>6 DEF Subscribe, TypeOK
  <2>5. CASE handlers[c] = {}
    <3>1. loop'[c] = "waiting" /\ delivered'[c] = {} /\ handlers'[c] = {h}
      BY <1>6, <2>2, <2>5 DEF Subscribe, TypeOK
    <3>2. \A q \in requests : q.kind = "get" /\ q.of # None => q.of # c
      BY <1>b, <1>c, <2>5
    <3>3. ToSet(given'[c][h]) = {}
      BY <2>3 DEF ToSet
    <3>4. \A k \in handlers'[c] : ToSet(given'[c][k]) \subseteq delivered'[c]
      BY <3>1, <3>3
    <3>5. \A q \in requests' : q.kind = "get" /\ q.of # None => q.of # c /\ q \in requests
      BY <2>1, <3>2 DEF server
    <3>6. handlers'[c] # {} /\ life'[c] = "open" /\ reply'[c] = reply[c]
      BY <2>1, <3>1
    <3>7. \A d \in Clients : d # c => /\ loop'[d] = loop[d] /\ reply'[d] = reply[d]
                                     /\ life'[d] = life[d] /\ handlers'[d] = handlers[d]
                                     /\ delivered'[d] = delivered[d] /\ given'[d] = given[d]
      BY <2>1, <2>2, <2>4
    <3> QED
      BY <2>1, <3>4, <3>5, <3>6, <3>7, AdapterOwn
  <2>6. CASE handlers[c] # {}
    <3>1. UNCHANGED <<delivered, loop>>
      BY <1>6, <2>6 DEF Subscribe
    <3>2. \A k \in handlers'[c] : ToSet(given'[c][k]) \subseteq delivered'[c]
      <4>1. ToSet(<<>>) = {}
        BY DEF ToSet
      <4>2. handlers[c] \subseteq Handlers
        BY DEF TypeOK
      <4> QED
        BY <2>2, <2>3, <3>1, <4>1, <4>2 DEF AdapterInv, GivenDelivered
    <3>3. GetsAwaited'
      BY <2>1, <3>1 DEF AdapterInv, GetsAwaited, server
    <3>4. LoopsOfRooms'
      BY <2>1, <2>2, <2>6, <3>1 DEF AdapterInv, LoopsOfRooms
    <3>5. RepliesStored'
      BY <2>1 DEF AdapterInv, RepliesStored, StoredOnce, Stored
    <3>6. GivenDelivered'
      BY <2>2, <3>1, <3>2 DEF AdapterInv, GivenDelivered
    <3> QED
      BY <3>3, <3>4, <3>5, <3>6 DEF AdapterInv
  <2> QED
    BY <2>5, <2>6
<1>7. ASSUME NEW c \in Clients, NEW h \in Handlers, Unsubscribe(c, h) PROVE AdapterInv'
  <2>1. /\ UNCHANGED <<life, delivered, log, given>> /\ life[c] = "open"
        /\ handlers'[c] = handlers[c] \ {h}
        /\ \A d \in Clients : d # c => handlers'[d] = handlers[d]
    BY <1>7 DEF Unsubscribe, TypeOK, history
  <2>2. \A k \in handlers'[c] : ToSet(given'[c][k]) \subseteq delivered'[c]
    BY <2>1 DEF AdapterInv, GivenDelivered
  <2>3. CASE handlers[c] = {h}
    <3>1. /\ loop'[c] = "none" /\ reply'[c] = <<>> /\ requests' = Orphaned(requests, c)
          /\ \A d \in Clients : d # c => loop'[d] = loop[d] /\ reply'[d] = reply[d]
      BY <1>7, <2>3 DEF Unsubscribe, TypeOK
    <3> QED
      BY <1>d, <2>1, <2>2, <3>1, AdapterOwn
  <2>4. CASE handlers[c] # {h}
    <3>1. UNCHANGED <<loop, reply, requests>>
      BY <1>7, <2>4 DEF Unsubscribe
    <3>2. handlers'[c] # {}
      BY <1>7, <2>1, <2>4 DEF Unsubscribe
    <3>3. GetsAwaited'
      BY <3>1 DEF AdapterInv, GetsAwaited
    <3>4. LoopsOfRooms'
      BY <2>1, <3>1, <3>2 DEF AdapterInv, LoopsOfRooms
    <3>5. RepliesStored'
      BY <2>1, <3>1 DEF AdapterInv, RepliesStored, StoredOnce, Stored
    <3>6. GivenDelivered'
      BY <2>1, <2>2 DEF AdapterInv, GivenDelivered
    <3> QED
      BY <3>3, <3>4, <3>5, <3>6 DEF AdapterInv
  <2> QED
    BY <2>3, <2>4
<1>8. ASSUME NEW c \in Clients, Poll(c) PROVE AdapterInv'
  <2>1. /\ UNCHANGED <<life, handlers, delivered, reply, log, given>>
        /\ life[c] = "open" /\ loop[c] = "waiting" /\ loop'[c] = "fetching"
        /\ \A d \in Clients : d # c => loop'[d] = loop[d]
        /\ requests' = requests \cup {Get(c)}
    BY <1>8 DEF Poll, TypeOK, history
  <2>2. \A q \in requests : q.kind = "get" /\ q.of # None => q.of # c
    BY <1>b, <2>1
  <2>3. \A q \in requests' : q.kind = "get" /\ q.of # None =>
              \/ q.of # c /\ q \in requests
              \/ q.of = c /\ q = Get(c) /\ loop'[c] = "fetching"
    BY <1>e, <2>1, <2>2
  <2>4. handlers[c] # {}
    BY <1>c, <2>1
  <2>5. \A h \in handlers'[c] : ToSet(given'[c][h]) \subseteq delivered'[c]
    BY <2>1 DEF AdapterInv, GivenDelivered
  <2> QED
    BY <2>1, <2>3, <2>4, <2>5, AdapterOwn
<1>9. ASSUME NEW c \in Clients, PollFails(c) PROVE AdapterInv'
  <2>1. /\ UNCHANGED <<life, handlers, delivered, log, given>>
        /\ loop[c] \in {"fetching", "replied"}
        /\ loop'[c] = IF life[c] = "open" THEN "waiting" ELSE "none"
        /\ reply'[c] = <<>>
        /\ \A d \in Clients : d # c => loop'[d] = loop[d] /\ reply'[d] = reply[d]
    BY <1>9 DEF PollFails, TypeOK, history
  <2>2. \/ requests' = Orphaned(requests, c)
        \/ requests' = {r \in requests : ~(r.kind = "get" /\ r.of = c)}
    BY <1>9 DEF PollFails
  <2>3. \A q \in requests' : q.kind = "get" /\ q.of # None => q.of # c /\ q \in requests
    BY <1>d, <2>2
  <2>4. life[c] = "open" => handlers[c] # {}
    BY <2>1 DEF AdapterInv, LoopsOfRooms
  <2>5. \A h \in handlers'[c] : ToSet(given'[c][h]) \subseteq delivered'[c]
    BY <2>1 DEF AdapterInv, GivenDelivered
  <2> QED
    BY <2>1, <2>3, <2>4, <2>5, AdapterOwn
<1>10. ASSUME NEW c \in Clients, Process(c) PROVE AdapterInv'
  <2>1. /\ UNCHANGED <<life, handlers, log, requests>>
        /\ loop[c] = "replied"
        /\ loop'[c] = IF life[c] = "open" THEN "waiting" ELSE "none"
        /\ reply'[c] = <<>>
        /\ delivered'[c] = delivered[c] \cup ToSet(reply[c])
        /\ \A d \in Clients : d # c => /\ loop'[d] = loop[d] /\ reply'[d] = reply[d]
                                       /\ delivered'[d] = delivered[d] /\ given'[d] = given[d]
    BY <1>10 DEF Process, TypeOK, server
  <2>2. \A q \in requests' : q.kind = "get" /\ q.of # None => q.of # c /\ q \in requests
    BY <1>b, <2>1
  <2>3. life[c] = "open" => handlers[c] # {}
    BY <2>1 DEF AdapterInv, LoopsOfRooms
  <2>4. ASSUME NEW h \in handlers'[c] PROVE ToSet(given'[c][h]) \subseteq delivered'[c]
    <3>1. h \in handlers[c] /\ h \in Handlers
      BY <2>1 DEF TypeOK
    <3>2. given'[c][h] = given[c][h] \o Fresh(c)
      BY <1>10, <3>1 DEF Process, TypeOK
    <3>3. ToSet(given'[c][h]) = ToSet(given[c][h]) \cup ToSet(Fresh(c))
      BY <3>1, <3>2, FreshList, ConcatSet DEF TypeOK
    <3>4. ToSet(given[c][h]) \subseteq delivered[c] /\ ToSet(Fresh(c)) \subseteq ToSet(reply[c])
      BY <3>1, FreshList DEF AdapterInv, GivenDelivered
    <3> QED
      BY <2>1, <3>3, <3>4
  <2> QED
    BY <2>1, <2>2, <2>3, <2>4, AdapterOwn
<1>11. ASSUME NEW c \in Clients, Close(c) PROVE AdapterInv'
  <2>1. /\ UNCHANGED <<handlers, delivered, log, given>>
        /\ life'[c] = "closing"
        /\ requests' = Orphaned(requests, c)
        /\ \A d \in Clients : d # c => life'[d] = life[d]
    BY <1>11 DEF Close, TypeOK, history
  <2>2. /\ loop'[c] \in {"none", "replied"} /\ reply'[c] \in {reply[c], <<>>}
        /\ \A d \in Clients : d # c => loop'[d] = loop[d] /\ reply'[d] = reply[d]
    <3>1. CASE /\ loop' = [loop EXCEPT ![c] = "none"]
               /\ reply' = [reply EXCEPT ![c] = <<>>]
      BY <3>1 DEF TypeOK
    <3>2. CASE /\ loop[c] = "replied"
               /\ UNCHANGED <<loop, reply>>
      BY <3>2
    <3> QED
      BY <1>11, <3>1, <3>2 DEF Close
  <2>3. \A h \in handlers'[c] : ToSet(given'[c][h]) \subseteq delivered'[c]
    BY <2>1 DEF AdapterInv, GivenDelivered
  <2> QED
    BY <1>d, <2>1, <2>2, <2>3, AdapterOwn
<1>12. ASSUME NEW c \in Clients, Closed(c) PROVE AdapterInv'
  <2>1. /\ UNCHANGED <<handlers, delivered, log, given, loop, reply, requests>>
        /\ loop[c] = "none" /\ life'[c] = "closed"
        /\ \A d \in Clients : d # c => life'[d] = life[d]
    BY <1>12 DEF Closed, TypeOK, history, rooms, server
  <2>2. \A h \in handlers'[c] : ToSet(given'[c][h]) \subseteq delivered'[c]
    BY <2>1 DEF AdapterInv, GivenDelivered
  <2>3. \A q \in requests' : q.kind = "get" /\ q.of # None => q.of # c /\ q \in requests
    BY <1>b, <2>1
  <2> QED
    BY <2>1, <2>2, <2>3, AdapterOwn
<1>13. CASE UNCHANGED vars
  BY <1>13, AdapterQuiet DEF vars, server, history, rooms, Stored
<1> QED
  BY <1>1, <1>2, <1>3, <1>4, <1>5, <1>6, <1>7, <1>8, <1>9, <1>10, <1>11, <1>12, <1>13 DEF Next

-----------------------------------------------------------------------------
(* The contract. *)

Outcomes == [m \in Messages |->
                CASE post[m] = "new" -> "none"
                  [] post[m] \in {"posting", "answered"} -> "pending"
                  [] OTHER -> post[m]]

(* A list without repetition is no longer than there are messages.          *)
LEMMA ListFits ==
    ASSUME NEW s \in Seq(Messages), IsInjective(s)
    PROVE  s \in SeqOf(Messages, Cardinality(Messages))
<1>1. Len(s) \in Nat /\ s \in [1..Len(s) -> Messages]
  BY LenProperties
<1>2. Cardinality(Messages) \in Nat
  BY MessagesAssumption, FS_CardinalityType
<1>3. Len(s) <= Cardinality(Messages)
  <2>1. s \in Injection(1..Len(s), Messages)
    BY <1>1, LenProperties DEF Injection, IsInjective
  <2>2. IsFiniteSet(1..Len(s)) /\ Cardinality(1..Len(s)) = Len(s)
    BY <1>1, FS_Interval
  <2> QED
    BY <2>1, <2>2, MessagesAssumption, FS_Injection
<1>4. Len(s) \in 0..Cardinality(Messages)
  BY <1>1, <1>2, <1>3
<1> QED
  BY <1>1, <1>4 DEF SeqOf

LEMMA ContractInit == Init => Transport!Init
<1> SUFFICES ASSUME Init PROVE Transport!Init
  OBVIOUS
<1>1. Outcomes = [m \in Messages |-> "none"]
  BY DEF Outcomes, Init
<1>2. Stored = {}
  BY DEF Init, Stored, ToSet
<1> QED
  BY <1>1, <1>2, Zenon DEF Init, Outcomes, Transport!Init

LEMMA OutcomesSame == UNCHANGED post => UNCHANGED Outcomes
BY DEF Outcomes

(* A step that the contract does not see. *)
LEMMA ContractStutters ==
    ASSUME UNCHANGED <<life, post, log, handlers, given>>
    PROVE  UNCHANGED Transport!vars
<1>1. UNCHANGED Outcomes /\ Stored' = Stored
  BY OutcomesSame DEF Stored
<1> QED
  BY <1>1, Zenon DEF Transport!vars, Outcomes

LEMMA OutcomeOf ==
    ASSUME NEW m \in Messages
    PROVE  Outcomes[m] = IF post[m] = "new" THEN "none"
                         ELSE IF post[m] \in {"posting", "answered"} THEN "pending"
                         ELSE post[m]
BY DEF Outcomes

LEMMA OutcomeOfNext ==
    ASSUME NEW m \in Messages
    PROVE  Outcomes'[m] = IF post'[m] = "new" THEN "none"
                          ELSE IF post'[m] \in {"posting", "answered"} THEN "pending"
                          ELSE post'[m]
BY DEF Outcomes

LEMMA AnswerContract ==
    ASSUME TypeOK, ServerInv, NEW r \in requests, NEW items \in Seq(Messages), Answer(r, items)
    PROVE  [Transport!Next]_(Transport!vars)
<1>1. r \in Request
  BY DEF TypeOK
<1>2. UNCHANGED <<life, handlers, given>>
  BY DEF Answer
<1>3. CASE r.kind # "post"
  <2>1. UNCHANGED <<post, log>>
    BY <1>3 DEF Answer
  <2> QED
    BY <1>2, <2>1, ContractStutters
<1>4. CASE r.kind = "post"
  <2> DEFINE m == r.of
  <2>1. m \in Messages /\ m \notin Stored /\ post[m] # "new"
    BY <1>1, <1>4, RequestFields DEF ServerInv, PostsPending
  <2>2. post[m] \in {"posting", "rejected"}
    BY <2>1 DEF ServerInv, OutcomesStored, TypeOK
  <2>3. log' = Append(log, m) /\ post' = [post EXCEPT ![m] = IF @ = "posting" THEN "answered" ELSE @]
    BY <1>4 DEF Answer
  <2> HIDE DEF m
  <2>4. Stored' = Stored \cup {m}
    BY <2>1, <2>3, AppendSet DEF Stored, TypeOK
  <2>5. \A n \in Messages : Outcomes'[n] = Outcomes[n]
    BY <2>2, <2>3, OutcomeOf, OutcomeOfNext, ZenonT(30) DEF TypeOK
  <2>6. UNCHANGED Outcomes
    BY <2>5 DEF Outcomes
  <2>7. Outcomes[m] \in {"pending", "rejected"}
    BY <2>1, <2>2, OutcomeOf
  <2>8. Transport!Reach(m)
    BY <1>2, <2>4, <2>6, <2>7, Zenon DEF Transport!Reach, Outcomes
  <2>9. Transport!Next
    BY <2>1, <2>8, Zenon DEF Transport!Next
  <2> QED
    BY <2>9
<1> QED
  BY <1>3, <1>4

LEMMA ContractStep ==
    TypeOK /\ ServerInv /\ AdapterInv /\ [Next]_vars => [Transport!Next]_(Transport!vars)
<1> SUFFICES ASSUME TypeOK, ServerInv, AdapterInv, [Next]_vars
             PROVE  [Transport!Next]_(Transport!vars)
  OBVIOUS
<1>1. CASE Tick
  BY <1>1, ContractStutters DEF Tick, rooms, history
<1>2. ASSUME NEW r \in requests, Serve(r) \/ Load(r) \/ Save(r)
      PROVE  [Transport!Next]_(Transport!vars)
  <2>1. CASE Serve(r)
    BY <2>1, PrunedList, AnswerContract DEF Serve, TypeOK
  <2>2. CASE Load(r)
    BY <2>2, ContractStutters DEF Load, rooms, history
  <2>3. CASE Save(r)
    BY <2>3, RequestFields, AnswerContract DEF Save, TypeOK
  <2> QED
    BY <1>2, <2>1, <2>2, <2>3
<1>3. ASSUME NEW m \in Messages, Publish(m) PROVE Transport!Next
  <2>1. UNCHANGED <<life, log, handlers, given>> /\ post[m] = "new"
    BY <1>3 DEF Publish, rooms, history
  <2>2. post' = [post EXCEPT ![m] = IF life[Author[m]] = "open" THEN "posting" ELSE "rejected"]
    BY <1>3 DEF Publish
  <2>3. Outcomes[m] = "none"
    BY <2>1, OutcomeOf
  <2>4. \A n \in Messages : Outcomes'[n] =
          [Outcomes EXCEPT ![m] = IF life[Author[m]] = "open" THEN "pending" ELSE "rejected"][n]
    <3>1. Outcomes \in [Messages -> {Outcomes[n] : n \in Messages}]
      BY DEF Outcomes
    <3> QED
      BY <2>2, <3>1, OutcomeOf, OutcomeOfNext DEF TypeOK
  <2>5. Outcomes' = [Outcomes EXCEPT ![m] = IF life[Author[m]] = "open" THEN "pending" ELSE "rejected"]
    BY <2>4 DEF Outcomes
  <2>6. Stored' = Stored
    BY <2>1 DEF Stored
  <2>7. Transport!Publish(m)
    BY <2>1, <2>3, <2>5, <2>6, Zenon DEF Transport!Publish, Outcomes
  <2> QED
    BY <2>7, Zenon DEF Transport!Next
<1>4. ASSUME NEW m \in Messages, Resolve(m) \/ Reject(m) PROVE Transport!Next
  <2> DEFINE result == IF Resolve(m) THEN "resolved" ELSE "rejected"
  <2>1. UNCHANGED <<life, log, handlers, given>> /\ post[m] \in {"posting", "answered"}
    BY <1>4 DEF Resolve, Reject, rooms, history
  <2>2. post' = [post EXCEPT ![m] = result] /\ (result = "resolved" => m \in Stored)
    BY <1>4 DEF Resolve, Reject, ServerInv, OutcomesStored
  <2>3. result \in {"resolved", "rejected"}
    OBVIOUS
  <2> HIDE DEF result
  <2>4. Outcomes[m] = "pending"
    BY <2>1, OutcomeOf
  <2>5. \A n \in Messages : Outcomes'[n] = [Outcomes EXCEPT ![m] = result][n]
    <3>1. Outcomes \in [Messages -> {Outcomes[n] : n \in Messages}]
      BY DEF Outcomes
    <3> QED
      BY <2>2, <2>3, <3>1, OutcomeOf, OutcomeOfNext DEF TypeOK
  <2>6. Stored' = Stored
    BY <2>1 DEF Stored
  <2> DEFINE f == [n \in {m} |-> result]
  <2>7. /\ f \in [{m} -> {"resolved", "rejected"}] /\ {m} \in SUBSET Messages
        /\ \A n \in {m} : Outcomes[n] = "pending" /\ (f[n] = "resolved" => n \in Stored)
    BY <2>2, <2>3, <2>4
  <2>8. Outcomes' = [n \in Messages |-> IF n \in {m} THEN f[n] ELSE Outcomes[n]]
    <3>1. \A n \in Messages : Outcomes'[n] = IF n \in {m} THEN f[n] ELSE Outcomes[n]
      BY <2>5 DEF Outcomes
    <3> HIDE DEF f
    <3> QED
      BY <3>1 DEF Outcomes
  <2> HIDE DEF f
  <2>9. Transport!Settle({m})
    BY <2>1, <2>6, <2>7, <2>8, Zenon DEF Transport!Settle, Outcomes
  <2> QED
    BY <2>7, <2>9, Zenon DEF Transport!Next
<1>5. ASSUME NEW c \in Clients, NEW h \in Handlers, Subscribe(c, h) PROVE Transport!Next
  <2>1. UNCHANGED <<life, post, log>>
    BY <1>5 DEF Subscribe
  <2>2. UNCHANGED Outcomes /\ Stored' = Stored
    BY <2>1, OutcomesSame DEF Stored
  <2>3. Transport!Subscribe(c, h)
    BY <1>5, <2>1, <2>2, Zenon DEF Subscribe, Transport!Subscribe, Outcomes
  <2> QED
    BY <2>3, Zenon DEF Transport!Next
<1>6. ASSUME NEW c \in Clients, NEW h \in Handlers, Unsubscribe(c, h) PROVE Transport!Next
  <2>1. UNCHANGED <<life, post, log, given>>
    BY <1>6 DEF Unsubscribe, history
  <2>2. UNCHANGED Outcomes /\ Stored' = Stored
    BY <2>1, OutcomesSame DEF Stored
  <2>3. Transport!Unsubscribe(c, h)
    BY <1>6, <2>1, <2>2, Zenon DEF Unsubscribe, Transport!Unsubscribe, Outcomes
  <2> QED
    BY <2>3, Zenon DEF Transport!Next
<1>7. ASSUME NEW c \in Clients, Poll(c) \/ PollFails(c) PROVE UNCHANGED Transport!vars
  BY <1>7, ContractStutters DEF Poll, PollFails, history
<1>8. ASSUME NEW c \in Clients, Process(c) PROVE Transport!Next
  <2>1. UNCHANGED <<life, post, log, handlers>> /\ loop[c] = "replied"
    BY <1>8 DEF Process, server
  <2>2. UNCHANGED Outcomes /\ Stored' = Stored
    BY <2>1, OutcomesSame DEF Stored
  <2>3. life[c] # "closed"
    BY <2>1 DEF AdapterInv, LoopsOfRooms
  <2>4. /\ Fresh(c) \in Seq(Messages) /\ IsInjective(Fresh(c))
        /\ ToSet(Fresh(c)) \subseteq Stored
    BY FreshList, SubsequenceInjective DEF AdapterInv, RepliesStored, StoredOnce, TypeOK
  <2>5. \A h \in handlers[c] : ToSet(Fresh(c)) \cap ToSet(given[c][h]) = {}
    BY FreshList DEF AdapterInv, GivenDelivered
  <2>a. \A s : Transport!ToSet(s) = ToSet(s) /\ (Transport!IsInjective(s) <=> IsInjective(s))
    BY DEF ToSet, Transport!ToSet, IsInjective, Transport!IsInjective
  <2>6. Transport!Handle(c, Fresh(c))
    <3>1. /\ Transport!ToSet(Fresh(c)) \subseteq Stored /\ Transport!IsInjective(Fresh(c))
          /\ \A h \in handlers[c] :
                Transport!ToSet(Fresh(c)) \cap Transport!ToSet(given[c][h]) = {}
      BY <2>4, <2>5, <2>a
    <3>2. given' = [given EXCEPT ![c] = [h \in Handlers |->
                    IF h \in handlers[c] THEN @[h] \o Fresh(c) ELSE @[h]]]
      BY <1>8 DEF Process
    <3> QED
      BY <2>1, <2>2, <2>3, <3>1, <3>2, Zenon DEF Transport!Handle, Transport!Hand, Outcomes
  <2>7. Fresh(c) \in SeqOf(Messages, Cardinality(Messages))
    BY <2>4, ListFits
  <2>8. Fresh(c) \in Transport!SeqOf(Messages, Transport!Cardinality(Messages))
    <3>1. Transport!Cardinality(Messages) = Cardinality(Messages)
      BY DEF Cardinality, Transport!Cardinality
    <3> QED
      BY <2>7, <3>1 DEF SeqOf, Transport!SeqOf
  <2> QED
    BY <2>6, <2>8, Zenon DEF Transport!Next
<1>9. ASSUME NEW c \in Clients, Close(c) PROVE Transport!Next
  <2>1. UNCHANGED <<post, log, handlers, given>>
    BY <1>9 DEF Close, history
  <2>2. UNCHANGED Outcomes /\ Stored' = Stored
    BY <2>1, OutcomesSame DEF Stored
  <2>3. Transport!Close(c)
    BY <1>9, <2>1, <2>2, Zenon DEF Close, Transport!Close, Outcomes
  <2> QED
    BY <2>3, Zenon DEF Transport!Next
<1>10. ASSUME NEW c \in Clients, Closed(c) PROVE Transport!Next
  <2>1. UNCHANGED <<post, log, handlers, given>>
    BY <1>10 DEF Closed, rooms, history
  <2>2. UNCHANGED Outcomes /\ Stored' = Stored
    BY <2>1, OutcomesSame DEF Stored
  <2>3. Transport!Closed(c)
    BY <1>10, <2>1, <2>2, Zenon DEF Closed, Transport!Closed, Outcomes
  <2> QED
    BY <2>3, Zenon DEF Transport!Next
<1>11. CASE UNCHANGED vars
  BY <1>11, ContractStutters DEF vars, rooms, history
<1> QED
  BY <1>1, <1>2, <1>3, <1>4, <1>5, <1>6, <1>7, <1>8, <1>9, <1>10, <1>11 DEF Next

(* What an adapter and either endpoint do together keeps the promises of the
   SignalingTransport interface (packages/protocol/src/signaling.ts). *)
THEOREM ContractIsKept == Spec => KeepsContract
<1>1. Init => TypeOK /\ ServerInv /\ AdapterInv /\ Transport!Init
  BY TypeInit, ServerInit, AdapterInit, ContractInit
<1>2. TypeOK /\ ServerInv /\ AdapterInv /\ [Next]_vars
         => TypeOK' /\ ServerInv' /\ AdapterInv' /\ [Transport!Next]_(Transport!vars)
  BY TypeStep, ServerStep, AdapterStep, ContractStep
<1> QED
  BY <1>1, <1>2, PTL DEF Spec, KeepsContract, Transport!Spec

-----------------------------------------------------------------------------
(* Nothing unheard is lost by the Node endpoint: its queue is in the order in      *)
(* which it stored the messages, and all that is at or before a cursor was heard. *)

Place == [m \in Stored |-> Position(m)]
Heard == UNION {heard[c] : c \in Clients}

(* What a GET with the cursor s drops from the queue has been heard.        *)
HeardUpTo == {s \in Stored : \A m \in ToSet(queue) : Place[m] <= Place[s] => m \in Heard}

QueueInOrder == \A i, j \in DOMAIN queue : i < j => Place[queue[i]] < Place[queue[j]]

DeliveredHeard == \A c \in Clients : delivered[c] \subseteq heard[c]

CursorsHeard ==
    /\ \A c \in Clients : cursor[c] # None => cursor[c] \in HeardUpTo
    /\ \A r \in requests : r.since # None => r.since \in HeardUpTo

(* A reply that awaits the loop has all of the queue up to its last message. *)
RepliesReach ==
    \A c \in Clients : reply[c] # <<>> =>
        \A m \in ToSet(queue) : Place[m] <= Place[Last(reply[c])] => m \in ToSet(reply[c])

NodeInv == endpoint = "node" => QueueInOrder /\ DeliveredHeard /\ CursorsHeard /\ RepliesReach

LEMMA NodeInit == Init => NodeInv
<1> SUFFICES ASSUME Init PROVE NodeInv
  OBVIOUS
<1>1. queue = <<>> /\ requests = {}
      /\ \A c \in Clients : delivered[c] = {} /\ cursor[c] = None /\ reply[c] = <<>>
  BY DEF Init
<1>2. QueueInOrder
  BY <1>1 DEF QueueInOrder
<1>3. DeliveredHeard /\ CursorsHeard /\ RepliesReach
  BY <1>1 DEF DeliveredHeard, CursorsHeard, RepliesReach
<1> QED
  BY <1>2, <1>3 DEF NodeInv

LEMMA Placed ==
    ASSUME TypeOK, ServerInv
    PROVE  /\ \A m \in Stored : Place[m] \in Nat /\ Place[m] <= Len(log) /\ log[Place[m]] = m
           /\ ToSet(queue) \subseteq Stored
           /\ \A i \in DOMAIN queue : queue[i] \in Stored
<1>1. DOMAIN log = 1..Len(log) /\ Len(log) \in Nat
  BY LenProperties DEF TypeOK
<1>2. ASSUME NEW m \in Stored PROVE Place[m] \in 1..Len(log) /\ log[Place[m]] = m
  <2>1. \E i \in DOMAIN log : log[i] = m
    BY DEF Stored, ToSet
  <2> QED
    BY <1>1, <2>1 DEF Place, Position
<1>3. ToSet(queue) \subseteq Stored /\ \A i \in DOMAIN queue : queue[i] \in ToSet(queue)
  BY DEF ServerInv, ListsStored, StoredOnce, ToSet
<1> QED
  BY <1>1, <1>2, <1>3

(* A message keeps its place, and a new one is placed behind all others.    *)
LEMMA PlacesKept ==
    ASSUME TypeOK, ServerInv, TypeOK', ServerInv',
           log' = log \/ \E x \in Messages : x \notin Stored /\ log' = Append(log, x)
    PROVE  /\ Stored \subseteq Stored'
           /\ \A m \in Stored : Place'[m] = Place[m]
           /\ \A m \in Stored' \ Stored : \A s \in Stored : Place'[s] < Place'[m]
<1>1. DOMAIN log = 1..Len(log) /\ Len(log) \in Nat /\ log \in Seq(Messages)
  BY LenProperties DEF TypeOK
<1>2. CASE log' = log
  <2>1. Stored' = Stored
    BY <1>2 DEF Stored
  <2>2. \A m \in Stored : Place'[m] = Place[m]
    BY <1>2, <2>1 DEF Place, Position
  <2> QED
    BY <2>1, <2>2
<1>3. ASSUME NEW x \in Messages, x \notin Stored, log' = Append(log, x)
      PROVE  /\ Stored \subseteq Stored'
             /\ \A m \in Stored : Place'[m] = Place[m]
             /\ \A m \in Stored' \ Stored : \A s \in Stored : Place'[s] < Place'[m]
  <2>1. Stored' = Stored \cup {x}
    <3>1. ToSet(Append(log, x)) = ToSet(log) \cup {x}
      BY <1>1, AppendSet
    <3> QED
      BY <1>3, <3>1 DEF Stored
  <2>2. /\ log' \in Seq(Messages) /\ Len(log') = Len(log) + 1 /\ log'[Len(log) + 1] = x
        /\ \A i \in 1..Len(log) : log'[i] = log[i]
    <3> DEFINE t == Append(log, x)
    <3>1. /\ t \in Seq(Messages) /\ Len(t) = Len(log) + 1 /\ t[Len(log) + 1] = x
          /\ \A i \in 1..Len(log) : t[i] = log[i]
      BY <1>1, AppendProperties
    <3> QED
      BY <1>3, <3>1
  <2>3. DOMAIN log' = 1..(Len(log) + 1)
    BY <2>2, LenProperties
  <2>4. IsInjective(log')
    BY DEF ServerInv, ListsStored
  <2>5. ASSUME NEW m \in Stored' PROVE Place'[m] \in DOMAIN log' /\ log'[Place'[m]] = m
    <3>1. \E i \in DOMAIN log' : log'[i] = m
      BY DEF Stored, ToSet
    <3> QED
      BY <3>1 DEF Place, Position
  <2>6. ASSUME NEW m \in Stored PROVE Place[m] \in 1..Len(log) /\ log[Place[m]] = m
    <3>1. \E i \in DOMAIN log : log[i] = m
      BY DEF Stored, ToSet
    <3> QED
      BY <1>1, <3>1 DEF Place, Position
  <2>7. ASSUME NEW m \in Stored PROVE Place'[m] = Place[m]
    <3>1. Place[m] \in DOMAIN log' /\ log'[Place[m]] = m
      BY <1>1, <2>2, <2>3, <2>6
    <3>2. Place'[m] \in DOMAIN log' /\ log'[Place'[m]] = m
      BY <2>1, <2>5
    <3> QED
      BY <2>4, <3>1, <3>2 DEF IsInjective
  <2>8. Place'[x] = Len(log) + 1
    <3>1. Place'[x] \in DOMAIN log' /\ log'[Place'[x]] = x
      BY <2>1, <2>5
    <3>2. Len(log) + 1 \in DOMAIN log' /\ log'[Len(log) + 1] = x
      BY <1>1, <2>2, <2>3
    <3> QED
      BY <2>4, <3>1, <3>2 DEF IsInjective
  <2>9. \A s \in Stored : Place'[s] < Len(log) + 1
    BY <1>1, <2>6, <2>7
  <2> QED
    BY <2>1, <2>7, <2>8, <2>9
<1> QED
  BY <1>2, <1>3

(* What was heard up to a message stays so, whatever is stored later.       *)
LEMMA HeardUpToGrows ==
    ASSUME TypeOK, ServerInv, TypeOK', ServerInv',
           log' = log \/ \E x \in Messages : x \notin Stored /\ log' = Append(log, x),
           ToSet(queue') \subseteq ToSet(queue) \cup (Stored' \ Stored),
           \A c \in Clients : heard[c] \subseteq heard'[c]
    PROVE  HeardUpTo \subseteq HeardUpTo'
<1>1. /\ Stored \subseteq Stored'
      /\ \A m \in Stored : Place'[m] = Place[m] /\ Place[m] \in Nat
      /\ \A m \in Stored' \ Stored : \A s \in Stored : Place'[s] < Place'[m]
  BY PlacesKept, Placed
<1>2. ASSUME NEW m \in Stored' PROVE Place'[m] \in Nat
  <2>1. DOMAIN log' = 1..Len(log') /\ Len(log') \in Nat
    BY LenProperties DEF TypeOK
  <2>2. \E i \in DOMAIN log' : log'[i] = m
    BY DEF Stored, ToSet
  <2>3. Place'[m] \in DOMAIN log'
    BY <2>2 DEF Place, Position
  <2>4. DOMAIN log' \subseteq Nat
    <3> DEFINE n == Len(log')
    <3>1. n \in Nat /\ DOMAIN log' = 1..n
      BY <2>1
    <3> HIDE DEF n
    <3>2. 1..n \subseteq Nat
      BY <3>1
    <3> QED
      BY <3>1, <3>2
  <2> QED
    BY <2>3, <2>4
<1>3. Heard \subseteq Heard'
  BY DEF Heard
<1>4. ASSUME NEW s \in HeardUpTo PROVE s \in HeardUpTo'
  <2>1. s \in Stored /\ s \in Stored'
    BY <1>1 DEF HeardUpTo
  <2>2. ASSUME NEW m \in ToSet(queue'), Place'[m] <= Place'[s] PROVE m \in Heard'
    <3>1. CASE m \in Stored' \ Stored
      <4>1. Place'[s] < Place'[m] /\ Place'[m] \in Nat /\ Place'[s] \in Nat
        BY <1>1, <1>2, <2>1, <3>1
      <4> QED
        BY <2>2, <4>1
    <3>2. CASE m \in ToSet(queue)
      <4>1. m \in Stored
        BY <3>2, Placed
      <4>2. Place[m] <= Place[s]
        BY <1>1, <2>1, <2>2, <4>1
      <4> QED
        BY <1>3, <3>2, <4>2 DEF HeardUpTo
    <3> QED
      BY <3>1, <3>2
  <2> QED
    BY <2>1, <2>2 DEF HeardUpTo
<1> QED
  BY <1>4

(* A list of the queue is in the order of the queue.                        *)
LEMMA SubsequenceInOrder ==
    ASSUME TypeOK, ServerInv, QueueInOrder, NEW t \in Seq(Messages), Subsequence(t, queue)
    PROVE  \A i, j \in DOMAIN t : i < j => Place[t[i]] < Place[t[j]]
<1> SUFFICES ASSUME NEW i \in DOMAIN t, NEW j \in DOMAIN t, i < j
             PROVE  Place[t[i]] < Place[t[j]]
  OBVIOUS
<1>1. PICK a \in DOMAIN queue, b \in DOMAIN queue : a < b /\ queue[a] = t[i] /\ queue[b] = t[j]
  BY DEF Subsequence
<1>2. Place[queue[a]] < Place[queue[b]]
  BY <1>1 DEF QueueInOrder
<1> QED
  BY <1>1, <1>2

LEMMA SubsequenceOf ==
    ASSUME NEW M, NEW s \in Seq(M), NEW t \in Seq(M), NEW u \in Seq(M),
           Subsequence(t, s), Subsequence(u, t)
    PROVE  Subsequence(u, s)
<1> SUFFICES ASSUME NEW a \in DOMAIN u, NEW b \in DOMAIN u, a < b
             PROVE  \E i, j \in DOMAIN s : i < j /\ s[i] = u[a] /\ s[j] = u[b]
  BY DEF Subsequence
<1>1. PICK i \in DOMAIN t, j \in DOMAIN t : i < j /\ t[i] = u[a] /\ t[j] = u[b]
  BY DEF Subsequence
<1> QED
  BY <1>1 DEF Subsequence

(* The queue after a GET.                                                   *)
LEMMA GetLeaves ==
    ASSUME TypeOK, ServerInv, NodeInv, endpoint = "node", NEW r \in requests, r.kind # "post"
    PROVE  /\ Saved(r, Pruned(queue)) \in Seq(Messages)
           /\ Subsequence(Saved(r, Pruned(queue)), queue)
           /\ \A m \in ToSet(queue) \ ToSet(Saved(r, Pruned(queue))) : Expired(m) \/ m \in Heard
<1> DEFINE p == Pruned(queue)
           t == Newer(p, r.since)
<1>1. /\ p \in Seq(Messages) /\ Subsequence(p, queue)
      /\ \A m \in ToSet(queue) \ ToSet(p) : Expired(m)
  BY PrunedList DEF TypeOK
<1> HIDE DEF p
<1>2. /\ t \in Seq(Messages) /\ Subsequence(t, p)
      /\ \A m \in ToSet(p) \ ToSet(t) : \E i, k \in DOMAIN p : i <= k /\ p[i] = m /\ p[k] = r.since
  BY <1>1, NewerKeeps
<1> HIDE DEF t
<1>3. Saved(r, p) = t
  BY DEF Saved, t
<1>4. queue \in Seq(Messages)
  BY DEF TypeOK
<1>5. Subsequence(t, queue)
  BY <1>1, <1>2, <1>4, SubsequenceOf
<1>6. ASSUME NEW m \in ToSet(p) \ ToSet(t) PROVE m \in Heard
  <2>1. PICK i \in DOMAIN p, k \in DOMAIN p : i <= k /\ p[i] = m /\ p[k] = r.since
    BY <1>2
  <2>2. r.since \in ToSet(p) /\ r.since \in ToSet(queue) /\ m \in ToSet(queue)
    BY <1>1, <2>1 DEF ToSet, Subsequence
  <2>3. r.since # None
    <3>1. ToSet(queue) \subseteq Messages
      BY <1>4, LenProperties, ElementOfSeq DEF ToSet
    <3> QED
      BY <2>2, <3>1, NoneAssumption
  <2>4. r.since \in HeardUpTo
    BY <2>3 DEF NodeInv, CursorsHeard
  <2>5. Place[m] <= Place[r.since]
    <3>1. Place[m] \in Nat /\ Place[r.since] \in Nat
      BY <2>2, Placed
    <3>2. CASE i = k
      BY <2>1, <3>1, <3>2
    <3>3. CASE i # k
      <4>1. i < k
        BY <1>1, <2>1, <3>3, LenProperties
      <4>2. Place[p[i]] < Place[p[k]]
        BY <1>1, <4>1, SubsequenceInOrder DEF NodeInv
      <4> QED
        BY <2>1, <3>1, <4>2
    <3> QED
      BY <3>2, <3>3
  <2> QED
    BY <2>2, <2>4, <2>5 DEF HeardUpTo
<1> QED
  BY <1>1, <1>2, <1>3, <1>5, <1>6 DEF p

(* A step in which the queue only shrinks and nobody's loop moves on.       *)
LEMMA NodeQuiet ==
    ASSUME TypeOK, ServerInv, TypeOK', ServerInv', NodeInv, endpoint' = endpoint,
           UNCHANGED <<log, queue, delivered, cursor, heard>>,
           \A c \in Clients : reply'[c] \in {reply[c], <<>>},
           \A q \in requests' : q.since # None =>
              \/ \E r \in requests : r.since = q.since
              \/ \E c \in Clients : q.since = cursor[c]
    PROVE  NodeInv'
<1> SUFFICES ASSUME endpoint = "node" PROVE NodeInv'
  BY DEF NodeInv
<1>1. HeardUpTo \subseteq HeardUpTo'
  BY HeardUpToGrows
<1>2. Place' = Place
  BY DEF Place, Position, Stored
<1>3. QueueInOrder' /\ DeliveredHeard'
  BY <1>2 DEF NodeInv, QueueInOrder, DeliveredHeard
<1>4. CursorsHeard'
  BY <1>1 DEF NodeInv, CursorsHeard
<1>5. RepliesReach'
  BY <1>2 DEF NodeInv, RepliesReach
<1> QED
  BY <1>3, <1>4, <1>5 DEF NodeInv

LEMMA ServeNode ==
    ASSUME TypeOK, ServerInv, AdapterInv, TypeOK', ServerInv', NodeInv, NEW r \in requests, Serve(r)
    PROVE  NodeInv'
<1>0. r \in Request /\ endpoint = "node"
  BY DEF TypeOK, Serve
<1>1. /\ queue' = Saved(r, Pruned(queue)) /\ requests' = requests \ {r}
      /\ UNCHANGED <<endpoint, delivered, cursor, heard>>
  BY DEF Serve, Answer
<1>2. QueueInOrder /\ DeliveredHeard /\ CursorsHeard /\ RepliesReach
  BY <1>0 DEF NodeInv
<1>3. queue \in Seq(Messages) /\ Pruned(queue) \in Seq(Messages) /\ Subsequence(Pruned(queue), queue)
  BY PrunedList DEF TypeOK
<1>4. DeliveredHeard'
  BY <1>1, <1>2 DEF DeliveredHeard
<1>5. CASE r.kind # "post"
  <2>1. log' = log /\ Stored' = Stored
    BY <1>5 DEF Serve, Answer, Stored
  <2>2. Place' = Place
    BY <2>1 DEF Place, Position
  <2>3. queue' \in Seq(Messages) /\ Subsequence(queue', queue)
    BY <1>0, <1>1, <1>5, GetLeaves
  <2>4. ToSet(queue') \subseteq ToSet(queue)
    BY <2>3 DEF Subsequence
  <2>5. QueueInOrder'
    BY <1>2, <2>2, <2>3, SubsequenceInOrder DEF QueueInOrder
  <2>6. HeardUpTo \subseteq HeardUpTo'
    BY <1>1, <2>1, <2>4, HeardUpToGrows
  <2>7. CursorsHeard'
    BY <1>1, <1>2, <2>6 DEF CursorsHeard
  <2>8. \A c \in Clients : reply'[c] \in {reply[c], queue'}
    BY <1>1, <1>5 DEF Serve, Answer, TypeOK
  <2>9. RepliesReach'
    BY <1>2, <2>2, <2>4, <2>8 DEF RepliesReach
  <2> QED
    BY <1>4, <2>5, <2>7, <2>9 DEF NodeInv
<1>6. CASE r.kind = "post"
  <2> DEFINE m == r.of
             p == Pruned(queue)
  <2>1. m \in Messages /\ m \notin Stored
    BY <1>0, <1>6, RequestFields DEF ServerInv, PostsPending
  <2>2. log' = Append(log, m) /\ queue' = Append(p, m) /\ reply' = reply
    BY <1>1, <1>6 DEF Serve, Answer, Saved
  <2>3. p \in Seq(Messages) /\ Subsequence(p, queue)
    BY <1>3
  <2> HIDE DEF m, p
  <2>4. Stored' = Stored \cup {m} /\ m \in Stored' \ Stored
    BY <2>1, <2>2, AppendSet DEF Stored, TypeOK
  <2>5. /\ \A x \in Stored : Place'[x] = Place[x] /\ Place[x] \in Nat
        /\ \A s \in Stored : Place'[s] < Place'[m]
    BY <2>1, <2>2, <2>4, PlacesKept, Placed
  <2>6. ToSet(queue') = ToSet(p) \cup {m} /\ ToSet(p) \subseteq ToSet(queue) /\ ToSet(queue) \subseteq Stored
    BY <2>1, <2>2, <2>3, AppendSet, Placed DEF Subsequence
  <2>7. QueueInOrder'
    <3> SUFFICES ASSUME NEW i \in DOMAIN queue', NEW j \in DOMAIN queue', i < j
                 PROVE  Place'[queue'[i]] < Place'[queue'[j]]
      BY DEF QueueInOrder
    <3> DEFINE u == Append(p, m)
    <3>1. /\ u \in Seq(Messages) /\ Len(u) = Len(p) + 1 /\ u[Len(p) + 1] = m
          /\ \A k \in 1..Len(p) : u[k] = p[k]
      BY <2>1, <2>3, AppendProperties
    <3>2. DOMAIN u = 1..Len(u) /\ DOMAIN p = 1..Len(p) /\ Len(p) \in Nat /\ queue' = u
      BY <2>2, <2>3, <3>1, LenProperties
    <3> HIDE DEF u
    <3>3. i \in DOMAIN p /\ queue'[i] = p[i] /\ p[i] \in Stored
      <4>1. i \in 1..Len(p)
        BY <3>1, <3>2
      <4>2. p[i] \in ToSet(p)
        BY <3>2, <4>1 DEF ToSet
      <4> QED
        BY <2>6, <3>1, <3>2, <4>1, <4>2
    <3>4. CASE j = Len(p) + 1
      BY <2>5, <3>1, <3>2, <3>3, <3>4
    <3>5. CASE j # Len(p) + 1
      <4>1. j \in 1..Len(p)
        BY <3>1, <3>2, <3>5
      <4>2. j \in DOMAIN p /\ queue'[j] = p[j] /\ p[j] \in Stored
        <5>1. p[j] \in ToSet(p)
          BY <3>2, <4>1 DEF ToSet
        <5> QED
          BY <2>6, <3>1, <3>2, <4>1, <5>1
      <4>3. Place[p[i]] < Place[p[j]]
        BY <1>2, <2>3, <3>3, <4>2, SubsequenceInOrder
      <4> QED
        BY <2>5, <3>3, <4>2, <4>3
    <3> QED
      BY <3>4, <3>5
  <2>8. HeardUpTo \subseteq HeardUpTo'
    <3>1. ToSet(queue') \subseteq ToSet(queue) \cup (Stored' \ Stored)
      BY <2>4, <2>6
    <3> QED
      BY <1>1, <2>1, <2>2, <3>1, HeardUpToGrows
  <2>9. CursorsHeard'
    BY <1>1, <1>2, <2>8 DEF CursorsHeard
  <2>10. ASSUME NEW c \in Clients, reply[c] # <<>>, NEW x \in ToSet(queue'),
                Place'[x] <= Place'[Last(reply[c])]
         PROVE  x \in ToSet(reply[c])
    <3>1. Last(reply[c]) \in Stored
      BY <2>10, LastIs DEF TypeOK, AdapterInv, RepliesStored, StoredOnce
    <3>2. x # m
      <4>1. Place'[Last(reply[c])] < Place'[m] /\ Place'[Last(reply[c])] \in Nat
        BY <2>5, <3>1
      <4>2. Place'[m] \in Nat
        <5>1. DOMAIN log' = 1..Len(log') /\ Len(log') \in Nat /\ m \in Stored'
          BY <2>4, LenProperties DEF TypeOK
        <5>2. \E i \in DOMAIN log' : log'[i] = m
          BY <5>1 DEF Stored, ToSet
        <5>3. Place'[m] \in DOMAIN log'
          BY <5>1, <5>2 DEF Place, Position
        <5> QED
          BY <5>1, <5>3
      <4> QED
        BY <2>10, <4>1, <4>2
    <3>3. x \in ToSet(queue) /\ x \in Stored
      BY <2>6, <3>2
    <3>4. Place[x] <= Place[Last(reply[c])]
      BY <2>5, <2>10, <3>1, <3>3
    <3> QED
      BY <1>2, <2>10, <3>3, <3>4 DEF RepliesReach
  <2>11. RepliesReach'
    BY <2>2, <2>10 DEF RepliesReach
  <2> QED
    BY <1>4, <2>7, <2>9, <2>11 DEF NodeInv
<1> QED
  BY <1>5, <1>6

LEMMA ProcessNode ==
    ASSUME TypeOK, ServerInv, AdapterInv, TypeOK', ServerInv', NodeInv, NEW c \in Clients, Process(c)
    PROVE  NodeInv'
<1> SUFFICES ASSUME endpoint = "node" PROVE NodeInv'
  BY DEF Process, server, NodeInv
<1>1. /\ UNCHANGED <<endpoint, queue, requests, log>>
      /\ delivered'[c] = delivered[c] \cup ToSet(reply[c])
      /\ heard'[c] = heard[c] \cup ToSet(Fresh(c))
      /\ cursor'[c] = IF reply[c] = <<>> THEN cursor[c] ELSE Last(reply[c])
      /\ reply'[c] = <<>>
      /\ \A d \in Clients : d # c => /\ delivered'[d] = delivered[d] /\ heard'[d] = heard[d]
                                     /\ cursor'[d] = cursor[d] /\ reply'[d] = reply[d]
  BY DEF Process, TypeOK, server
<1>2. Place' = Place
  BY <1>1 DEF Place, Position, Stored
<1>3. \A d \in Clients : heard[d] \subseteq heard'[d]
  BY <1>1
<1>4. HeardUpTo \subseteq HeardUpTo'
  BY <1>1, <1>3, HeardUpToGrows
<1>5. QueueInOrder'
  BY <1>1, <1>2 DEF NodeInv, QueueInOrder
<1>6. delivered'[c] \subseteq heard'[c]
  BY <1>1, FreshList DEF NodeInv, DeliveredHeard
<1>7. DeliveredHeard'
  BY <1>1, <1>6 DEF NodeInv, DeliveredHeard
<1>8. ASSUME reply[c] # <<>> PROVE Last(reply[c]) \in HeardUpTo'
  <2>1. Last(reply[c]) \in Stored
    BY <1>8, LastIs DEF TypeOK, AdapterInv, RepliesStored, StoredOnce
  <2>2. ToSet(reply[c]) \subseteq Heard'
    BY <1>1, <1>6 DEF Heard
  <2>3. \A m \in ToSet(queue) : Place[m] <= Place[Last(reply[c])] => m \in ToSet(reply[c])
    BY <1>8 DEF NodeInv, RepliesReach
  <2>4. Stored' = Stored
    BY <1>1 DEF Stored
  <2> QED
    BY <1>1, <1>2, <2>1, <2>2, <2>3, <2>4 DEF HeardUpTo
<1>9. CursorsHeard'
  BY <1>1, <1>4, <1>8 DEF NodeInv, CursorsHeard
<1>10. RepliesReach'
  BY <1>1, <1>2 DEF NodeInv, RepliesReach
<1> QED
  BY <1>5, <1>7, <1>9, <1>10 DEF NodeInv

LEMMA NodeStep ==
    TypeOK /\ ServerInv /\ AdapterInv /\ TypeOK' /\ ServerInv' /\ NodeInv /\ [Next]_vars => NodeInv'
<1> SUFFICES ASSUME TypeOK, ServerInv, AdapterInv, TypeOK', ServerInv', NodeInv, [Next]_vars
             PROVE  NodeInv'
  OBVIOUS
<1>0. requests \subseteq Request
  BY DEF TypeOK
<1>1. CASE Tick
  BY <1>1, NodeQuiet DEF Tick, rooms, history
<1>2. ASSUME NEW r \in requests, Serve(r) PROVE NodeInv'
  BY <1>2, ServeNode
<1>3. ASSUME NEW r \in requests, Load(r) \/ Save(r) PROVE NodeInv'
  BY <1>3 DEF Load, Save, Answer, NodeInv
<1>4. ASSUME NEW m \in Messages, Publish(m) PROVE NodeInv'
  <2>1. Post(m).since = None /\ requests' \subseteq requests \cup {Post(m)}
    BY <1>4 DEF Publish, Post
  <2> QED
    BY <1>4, <2>1, NodeQuiet DEF Publish, rooms, history
<1>5. ASSUME NEW m \in Messages, Resolve(m) \/ Reject(m) PROVE NodeInv'
  <2>1. UNCHANGED <<endpoint, log, queue, rooms, heard>> /\ requests' \subseteq requests
    BY <1>5 DEF Resolve, Reject, server, history
  <2> QED
    BY <2>1, NodeQuiet DEF rooms
<1>6. ASSUME NEW c \in Clients, NEW h \in Handlers, Subscribe(c, h) PROVE NodeInv'
  <2>1. UNCHANGED <<endpoint, queue, requests, reply, log, heard>>
    BY <1>6 DEF Subscribe, server
  <2>2. /\ \A d \in Clients : delivered'[d] \in {delivered[d], {}}
        /\ \A d \in Clients : cursor'[d] \in {cursor[d], None}
    <3>1. CASE UNCHANGED <<delivered, cursor>>
      BY <3>1
    <3>2. CASE /\ delivered' = [delivered EXCEPT ![c] = {}]
               /\ cursor' = [cursor EXCEPT ![c] = None]
      BY <3>2 DEF TypeOK
    <3> QED
      BY <1>6, <3>1, <3>2 DEF Subscribe
  <2>3. HeardUpTo' = HeardUpTo /\ Place' = Place
    BY <2>1 DEF HeardUpTo, Place, Position, Stored, Heard
  <2>4. ASSUME endpoint = "node" PROVE QueueInOrder' /\ RepliesReach'
    BY <2>1, <2>3, <2>4 DEF NodeInv, QueueInOrder, RepliesReach
  <2>5. ASSUME endpoint = "node" PROVE DeliveredHeard' /\ CursorsHeard'
    BY <2>1, <2>2, <2>3, <2>5 DEF NodeInv, DeliveredHeard, CursorsHeard
  <2> QED
    BY <2>1, <2>4, <2>5 DEF NodeInv
<1>7. ASSUME NEW c \in Clients,
             \/ \E h \in Handlers : Unsubscribe(c, h)
             \/ Poll(c) \/ PollFails(c) \/ Close(c) \/ Closed(c)
      PROVE  NodeInv'
  <2>1. UNCHANGED <<endpoint, log, queue, delivered, cursor, heard>>
    BY <1>7 DEF Unsubscribe, Poll, PollFails, Close, Closed, server, rooms, history
  <2>2. \/ requests' \subseteq requests
        \/ requests' = Orphaned(requests, c)
        \/ requests' = requests \cup {Get(c)}
    BY <1>7 DEF Unsubscribe, Poll, PollFails, Close, Closed, server
  <2>3. Get(c).since = cursor[c]
    BY DEF Get
  <2>4. \A q \in Orphaned(requests, c) : \E r \in requests : q.since = r.since
    BY <1>0, OrphanedRequests
  <2>5. \A q \in requests' : q.since # None =>
              \/ \E r \in requests : r.since = q.since
              \/ \E d \in Clients : q.since = cursor[d]
    BY <2>2, <2>3, <2>4
  <2>6. reply' = reply \/ reply' = [reply EXCEPT ![c] = <<>>]
    BY <1>7 DEF Unsubscribe, Poll, PollFails, Close, Closed, rooms
  <2>7. \A d \in Clients : reply'[d] \in {reply[d], <<>>}
    BY <2>6 DEF TypeOK
  <2> QED
    BY <2>1, <2>5, <2>7, NodeQuiet
<1>8. ASSUME NEW c \in Clients, Process(c) PROVE NodeInv'
  BY <1>8, ProcessNode
<1>9. CASE UNCHANGED vars
  BY <1>9, NodeQuiet DEF vars, server, rooms, history
<1> QED
  BY <1>1, <1>2, <1>3, <1>4, <1>5, <1>6, <1>7, <1>8, <1>9 DEF Next

(* The inductive invariant of both endpoints and the adapters. *)
HInv == TypeOK /\ ServerInv /\ AdapterInv /\ NodeInv

(* It holds in every reachable state. *)
THEOREM PollingHolds == Spec => []HInv
<1>1. Init => HInv
  BY TypeInit, ServerInit, AdapterInit, NodeInit DEF HInv
<1>2. HInv /\ [Next]_vars => HInv'
  BY TypeStep, ServerStep, AdapterStep, NodeStep DEF HInv
<1> QED
  BY <1>1, <1>2, PTL DEF Spec

(* What a GET drops from the Node endpoint's queue has expired or was handed to
   some client's handlers (node/server.mjs, pruneTtl and the slice after `since`). *)
THEOREM NothingUnheardIsDropped == Spec => RemovedOnceHeard
<1>1. ASSUME HInv, [Next]_vars, endpoint = "node", NEW m \in ToSet(queue) \ ToSet(queue')
      PROVE  Expired(m) \/ \E c \in Clients : m \in heard[c]
  <2>1. m \in ToSet(queue) /\ m \notin ToSet(queue') /\ queue' # queue
    BY <1>1
  <2>2. PICK r \in requests : Serve(r)
    BY <1>1, <2>1 DEF Next, vars, server, Tick, Load, Save, Publish, Resolve, Reject, Subscribe,
       Unsubscribe, Poll, PollFails, Process, Close, Closed
  <2>3. queue' = Saved(r, Pruned(queue))
    BY <2>2 DEF Serve, Answer
  <2>4. CASE r.kind # "post"
    BY <1>1, <2>3, <2>4, GetLeaves DEF HInv, Heard
  <2>5. CASE r.kind = "post"
    <3>1. r.of \in Messages /\ Pruned(queue) \in Seq(Messages)
          /\ \A x \in ToSet(queue) \ ToSet(Pruned(queue)) : Expired(x)
      BY <1>1, <2>5, RequestFields, PrunedList DEF HInv, TypeOK
    <3>2. queue' = Append(Pruned(queue), r.of)
      BY <2>3, <2>5 DEF Saved
    <3>3. m \notin ToSet(Pruned(queue))
      BY <2>1, <3>1, <3>2, AppendSet
    <3> QED
      BY <2>1, <3>1, <3>3
  <2> QED
    BY <2>4, <2>5
<1>2. HInv /\ [Next]_vars =>
         [endpoint = "node" =>
             \A m \in ToSet(queue) \ ToSet(queue') :
                 Expired(m) \/ \E c \in Clients : m \in heard[c]]_vars
  BY <1>1
<1> QED
  BY <1>2, PollingHolds, PTL DEF Spec, RemovedOnceHeard

=============================================================================
