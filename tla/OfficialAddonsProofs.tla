------------------------ MODULE OfficialAddonsProofs ------------------------
(***************************************************************************)
(* The official add-ons: what a call of one add-on leaves alone, what a    *)
(* peer's presence shows in the end, and what the vault lists.             *)
(***************************************************************************)
EXTENDS OfficialAddons, FiniteSetTheorems, SequenceTheorems, TLAPS

(* What each add-on keeps, sends, stores and asks of the store. *)
Key == Seq(Chars)

BoardState == [initialized : BOOLEAN, strokes : Seq(Pages), ownCount : Nat, peerCount : Nat]
PresenceState ==
    [initialized : BOOLEAN, me : Nat, pendingState : Seq(Nat), window : Nat, waiting : BOOLEAN,
     timers : Seq(Nat), peer : Nat]
VaultState == [initialized : BOOLEAN, list : Seq(Key \X Contents), inbox : SUBSET (Key \X Contents)]
VoiceState == [initialized : BOOLEAN, sending : BOOLEAN, listening : BOOLEAN]
MeterState == [initialized : BOOLEAN, level : Nat]
EchoState == [initialized : BOOLEAN, log : SUBSET BOOLEAN]

State(a) ==
    CASE a = "whiteboard" -> BoardState
      [] a = "presence" -> PresenceState
      [] a = "vault" -> VaultState
      [] a = "voice-call" -> VoiceState
      [] a = "voice-meter" -> MeterState
      [] OTHER -> EchoState

Payload(a) ==
    CASE a = "whiteboard" -> [type : {"stroke"}, segment : Pages]
      [] a = "presence" -> [type : {"state"}, state : Nat]
      [] a = "vault" -> Key \X Contents
      [] a = "echo" -> [type : {"text"}, echoed : BOOLEAN]
      [] OTHER -> {}

Value(a) == IF a = "vault" THEN Contents ELSE Seq(Pages)

VaultCall ==
    [addon : {VaultId}, op : {"put"}, key : Key, value : Contents, then : [do : {"refresh"}]]
    \cup [addon : {VaultId}, op : {"delete"}, key : Key, then : [do : {"refresh"}]]
    \cup [addon : {VaultId}, op : {"list"}, then : [do : {"listed"}]]
    \cup [addon : {VaultId}, op : {"get"}, key : Key, then : [do : {"row"}, rest : SUBSET Key]]

BoardCall ==
    [addon : {VaultId}, op : {"put"}, key : Key, value : Seq(Pages), then : [do : {"saved"}]]
    \cup [addon : {VaultId}, op : {"get"}, key : Key, then : [do : {"load"}]]

CallOf(a) == CASE a = "vault" -> VaultCall [] a = "whiteboard" -> BoardCall [] OTHER -> {}

(* A store has the other add-on's record, as it was, and records of this one. *)
OtherKey == NamespaceKey(OtherId, OtherName)

StoreOK(a, s) ==
    /\ OtherKey \in DOMAIN s /\ s[OtherKey] = Theirs
    /\ \A k \in DOMAIN s : k # OtherKey =>
          s[k] \in Value(a) /\ \E n \in Key : k = NamespaceKey(VaultId, n)

TypeOK ==
    /\ app \in Apps
    /\ st \in [Pages -> State(app)]
    /\ link \in [Pages -> Seq(Payload(app))]
    /\ DOMAIN db = Pages /\ \A p \in Pages : StoreOK(app, db[p])
    /\ conn \in [Pages -> {"none", "opening", "open", "failed"}]
    /\ calls \in [Pages -> Seq(CallOf(app))]
    /\ missed \subseteq Pages /\ disturbed \subseteq Pages

(* The last state of a page that has left it is its state, or that is pending and a
   timer is set that will send it. *)
LastSent(p) == IF link[p] = <<>> THEN st[p].peer ELSE link[p][Len(link[p])].state

PresenceInv ==
    app = "presence" /\ missed = {} => \A p \in Pages :
        LET s == st[Other(p)] IN
        IF s.pendingState = <<>> THEN LastSent(p) = s.me
        ELSE s.pendingState = <<s.me>> /\ s.timers # <<>>

(* The list has the files that are stored, but for those left to get. *)
Shows(list, s, left) ==
    /\ left \subseteq ListedKeys(s, VaultId)
    /\ IsInjective(list)
    /\ ToSet(list) = {<<k, s[NamespaceKey(VaultId, k)]>> : k \in ListedKeys(s, VaultId) \ left}

Refreshes(queue) == {i \in DOMAIN queue : queue[i].then.do \in {"listed", "row"}}

Quiet(p) ==
    /\ conn[p] = "none" /\ calls[p] = <<>>
    /\ st[p].list = <<>> /\ st[p].inbox = {}

(* One refresh at a time, which has shown what it has not left; or none, and all is shown. *)
Refreshed(queue, list, s) ==
    /\ \A i, j \in Refreshes(queue) : i = j
    /\ \A i \in Refreshes(queue) : queue[i].then.do = "row" =>
          /\ queue[i].key \notin queue[i].then.rest
          /\ Shows(list, s, {queue[i].key} \cup queue[i].then.rest)

PageOK(p) ==
    IF ~st[p].initialized THEN Quiet(p)
    ELSE p \notin disturbed =>
            /\ Refreshed(calls[p], st[p].list, db[p])
            /\ Refreshes(calls[p]) = {} /\ conn[p] # "failed" => Shows(st[p].list, db[p], {})

VaultInv == app = "vault" => \A p \in Pages : PageOK(p)

OInv == TypeOK /\ PresenceInv /\ VaultInv

-----------------------------------------------------------------------------
(* Keys. An id has no space, so the first one ends the namespace. *)

LEMMA TwoPages == \A p \in Pages : Other(p) \in Pages /\ Other(p) # p /\ Other(Other(p)) = p
BY AddonConstants DEF Other

LEMMA KeyOf ==
    ASSUME NEW id \in Key, NEW k \in Key
    PROVE  /\ NamespaceKey(id, k) \in Key
           /\ Len(NamespaceKey(id, k)) = Len(id) + 1 + Len(k)
           /\ \A i \in 1 .. Len(id) : NamespaceKey(id, k)[i] = id[i]
           /\ NamespaceKey(id, k)[Len(id) + 1] = Separator
           /\ \A i \in 1 .. Len(k) : NamespaceKey(id, k)[Len(id) + 1 + i] = k[i]
<1>0. Len(id) \in Nat /\ Len(k) \in Nat
  BY LenProperties DEF Key
<1> DEFINE sp == <<Separator>>
           pre == id \o sp
<1>1. sp \in Seq(Chars) /\ Len(sp) = 1 /\ sp[1] = Separator
  BY AddonConstants
<1>2. pre \in Seq(Chars) /\ Len(pre) = Len(id) + 1
      /\ (\A i \in 1 .. Len(id) : pre[i] = id[i]) /\ pre[Len(id) + 1] = Separator
  <2> HIDE DEF sp
  <2>1. 1 \in 1 .. Len(sp)
    BY <1>1
  <2>2. id \in Seq(Chars) /\ sp \in Seq(Chars)
    BY <1>1 DEF Key
  <2>3. /\ id \o sp \in Seq(Chars) /\ Len(id \o sp) = Len(id) + Len(sp)
        /\ \A i \in 1 .. Len(id) : (id \o sp)[i] = id[i]
        /\ \A i \in 1 .. Len(sp) : (id \o sp)[Len(id) + i] = sp[i]
    BY <2>2
  <2> QED
    BY <1>1, <2>1, <2>3
<1>3. NamespaceKey(id, k) = pre \o k
  BY DEF NamespaceKey
<1> HIDE DEF pre
<1>4. pre \o k \in Seq(Chars) /\ Len(pre \o k) = Len(pre) + Len(k)
      /\ (\A i \in 1 .. Len(pre) : (pre \o k)[i] = pre[i])
      /\ \A i \in 1 .. Len(k) : (pre \o k)[Len(pre) + i] = k[i]
  <2>1. pre \in Seq(Chars) /\ k \in Seq(Chars)
    BY <1>2 DEF Key
  <2> QED
    BY <2>1
<1>5. Len(id) + 1 \in 1 .. Len(pre) /\ \A i \in 1 .. Len(id) : i \in 1 .. Len(pre)
  BY <1>0, <1>2
<1> QED
  BY <1>2, <1>3, <1>4, <1>5 DEF Key

LEMMA SpaceOf ==
    ASSUME NEW id \in Key
    PROVE  /\ NamespaceKey(id, <<>>) \in Key
           /\ Len(NamespaceKey(id, <<>>)) = Len(id) + 1
           /\ \A i \in 1 .. Len(id) : NamespaceKey(id, <<>>)[i] = id[i]
           /\ NamespaceKey(id, <<>>)[Len(id) + 1] = Separator
<1>1. PICK k \in Key : k = <<>> /\ Len(k) = 0
  BY EmptySeq DEF Key
<1>2. Len(NamespaceKey(id, k)) = Len(id) + 1 + 0
  BY <1>1, KeyOf
<1>3. Len(id) \in Nat
  BY LenProperties DEF Key
<1>4. Len(NamespaceKey(id, k)) = Len(id) + 1
  BY <1>2, <1>3
<1>5. /\ NamespaceKey(id, k) \in Key
      /\ \A i \in 1 .. Len(id) : NamespaceKey(id, k)[i] = id[i]
      /\ NamespaceKey(id, k)[Len(id) + 1] = Separator
  BY KeyOf
<1> QED
  BY <1>1, <1>4, <1>5

LEMMA Prefix ==
    ASSUME NEW s \in Key, NEW t \in Key, IsPrefix(s, t)
    PROVE  Len(s) <= Len(t) /\ \A i \in 1 .. Len(s) : t[i] = s[i]
<1>1. Len(s) <= Len(t) /\ SubSeq(s, 1, Len(s)) = SubSeq(t, 1, Len(s))
  BY DEF IsPrefix
<1> QED
  BY <1>1, SubSeqProperties, LenProperties DEF Key

(* No key of an add-on begins with the namespace of another. *)
LEMMA PrefixesDiffer ==
    ASSUME NEW a, NEW b, AddonId(a), AddonId(b), a # b, NEW k \in Key
    PROVE  ~ IsPrefix(NamespaceKey(a, <<>>), NamespaceKey(b, k))
<1>0. a \in Key /\ b \in Key /\ <<>> \in Key /\ Len(<<>>) = 0
      /\ Len(a) \in Nat /\ Len(b) \in Nat /\ DOMAIN a = 1 .. Len(a) /\ DOMAIN b = 1 .. Len(b)
  BY LenProperties DEF AddonId, Key
<1> DEFINE s == NamespaceKey(a, <<>>)
           t == NamespaceKey(b, k)
<1>1. s \in Key /\ Len(s) = Len(a) + 1 /\ s[Len(a) + 1] = Separator
      /\ \A i \in 1 .. Len(a) : s[i] = a[i]
  BY <1>0, SpaceOf
<1>2. t \in Key /\ t[Len(b) + 1] = Separator /\ \A i \in 1 .. Len(b) : t[i] = b[i]
  BY <1>0, KeyOf
<1> SUFFICES ASSUME IsPrefix(s, t) PROVE FALSE
  OBVIOUS
<1> HIDE DEF s, t
<1>3. \A i \in 1 .. Len(a) + 1 : t[i] = s[i]
  BY <1>1, <1>2, Prefix
<1>4. CASE Len(a) < Len(b)
  <2>1. Len(a) + 1 \in 1 .. Len(b) /\ Len(a) + 1 \in 1 .. Len(a) + 1
    BY <1>0, <1>4
  <2>2. b[Len(a) + 1] = Separator
    BY <1>1, <1>2, <1>3, <2>1
  <2> QED
    BY <1>0, <2>1, <2>2 DEF AddonId
<1>5. CASE Len(b) < Len(a)
  <2>1. Len(b) + 1 \in 1 .. Len(a) /\ Len(b) + 1 \in 1 .. Len(a) + 1
    BY <1>0, <1>5
  <2>2. a[Len(b) + 1] = Separator
    BY <1>1, <1>2, <1>3, <2>1
  <2> QED
    BY <1>0, <2>1, <2>2 DEF AddonId
<1>6. CASE Len(a) = Len(b)
  <2>1. \A i \in 1 .. Len(a) : a[i] = b[i]
    BY <1>0, <1>1, <1>2, <1>3, <1>6
  <2> QED
    BY <1>0, <1>6, <2>1, SeqEqual DEF Key
<1>7. Len(a) \in Nat /\ Len(b) \in Nat
  BY <1>0, Zenon
<1>8. Len(a) < Len(b) \/ Len(b) < Len(a) \/ Len(a) = Len(b)
  BY <1>7
<1> QED
  BY <1>4, <1>5, <1>6, <1>8, Zenon

LEMMA OwnPrefix ==
    ASSUME NEW a \in Key, NEW k \in Key
    PROVE  IsPrefix(NamespaceKey(a, <<>>), NamespaceKey(a, k))
<1>0. <<>> \in Key /\ Len(<<>>) = 0 /\ Len(a) \in Nat /\ Len(k) \in Nat
  BY LenProperties DEF Key
<1> DEFINE s == NamespaceKey(a, <<>>)
           t == NamespaceKey(a, k)
<1>1. s \in Key /\ Len(s) = Len(a) + 1 /\ s[Len(a) + 1] = Separator
      /\ \A i \in 1 .. Len(a) : s[i] = a[i]
  BY <1>0, SpaceOf
<1>2. t \in Key /\ Len(t) = Len(a) + 1 + Len(k) /\ t[Len(a) + 1] = Separator
      /\ \A i \in 1 .. Len(a) : t[i] = a[i]
  BY <1>0, KeyOf
<1> HIDE DEF s, t
<1>3. \A i \in 1 .. Len(s) : s[i] = t[i]
  BY <1>0, <1>1, <1>2
<1>4. Len(s) <= Len(t)
  BY <1>0, <1>1, <1>2
<1>5. SubSeq(s, 1, Len(s)) \in Seq(Chars) /\ SubSeq(t, 1, Len(s)) \in Seq(Chars)
      /\ Len(SubSeq(s, 1, Len(s))) = Len(s) /\ Len(SubSeq(t, 1, Len(s))) = Len(s)
      /\ \A i \in 1 .. Len(s) : SubSeq(s, 1, Len(s))[i] = s[i] /\ SubSeq(t, 1, Len(s))[i] = t[i]
  BY <1>1, <1>2, <1>4, SubSeqProperties, LenProperties DEF Key
<1>6. SubSeq(s, 1, Len(s)) = SubSeq(t, 1, Len(s))
  BY <1>3, <1>5, SeqEqual
<1> QED
  BY <1>4, <1>6 DEF IsPrefix, s, t

LEMMA KeysDiffer ==
    ASSUME NEW a, NEW b, AddonId(a), AddonId(b), a # b, NEW j \in Key, NEW k \in Key
    PROVE  NamespaceKey(a, j) # NamespaceKey(b, k)
BY OwnPrefix, PrefixesDiffer DEF AddonId, Key

(* A key in the namespace gives back the name it was made of. *)
LEMMA NameOf ==
    ASSUME NEW a \in Key, NEW n \in Key
    PROVE  SubSeq(NamespaceKey(a, n), Len(NamespaceKey(a, <<>>)) + 1, Len(NamespaceKey(a, n))) = n
<1>0. <<>> \in Key /\ Len(<<>>) = 0 /\ Len(a) \in Nat /\ Len(n) \in Nat
  BY LenProperties DEF Key
<1> DEFINE t == NamespaceKey(a, n)
           u == SubSeq(t, Len(a) + 2, Len(a) + 1 + Len(n))
<1>1. t \in Key /\ Len(t) = Len(a) + 1 + Len(n)
      /\ \A i \in 1 .. Len(n) : t[Len(a) + 1 + i] = n[i]
  BY <1>0, KeyOf
<1>2. Len(NamespaceKey(a, <<>>)) = Len(a) + 1
  BY SpaceOf
<1> HIDE DEF t
<1>3. u \in Seq(Chars) /\ Len(u) = Len(n) /\ \A i \in 1 .. Len(n) : u[i] = n[i]
  <2>1. CASE Len(n) = 0
    <3>1. u = <<>>
      BY <1>0, <1>1, <2>1, SubSeqEmpty DEF Key
    <3> QED
      BY <2>1, <3>1
  <2>2. CASE Len(n) > 0
    <3>1. Len(a) + 2 \in 1 .. Len(t) + 1 /\ Len(a) + 1 + Len(n) \in (Len(a) + 2) - 1 .. Len(t)
      BY <1>0, <1>1, <2>2
    <3>2. u \in Seq(Chars) /\ Len(u) = Len(n)
          /\ \A i \in 1 .. Len(n) : u[i] = t[Len(a) + 2 + i - 1]
      BY <1>0, <1>1, <2>2, <3>1, SubSeqProperties DEF Key
    <3>3. \A i \in 1 .. Len(n) : Len(a) + 2 + i - 1 = Len(a) + 1 + i
      BY <1>0
    <3> QED
      BY <1>1, <3>2, <3>3
  <2> QED
    BY <1>0, <2>1, <2>2
<1>4. u = n
  <2> HIDE DEF u
  <2> QED
    BY <1>3, SeqEqual DEF Key
<1>5. Len(NamespaceKey(a, <<>>)) + 1 = Len(a) + 2
  BY <1>0, <1>2
<1>6. SubSeq(t, Len(NamespaceKey(a, <<>>)) + 1, Len(t)) = n
  BY <1>1, <1>4, <1>5
<1> QED
  BY <1>6 DEF t

(* Whatever an add-on asks, every record of every other add-on stays as it is
   (packages/storage/src/index.ts, IndexedDbStorageBackend). *)
THEOREM NoCallTouchesOthers ==
    ASSUME NEW a, NEW b, AddonId(a), AddonId(b), a # b,
           NEW s, NEW c, c.addon = a, c.op \in {"get", "put", "delete", "list", "clear"},
           c.op \in {"put", "delete"} => c.key \in Seq(Chars),
           NEW k \in Seq(Chars), NamespaceKey(b, k) \in DOMAIN s
    PROVE  /\ NamespaceKey(b, k) \in DOMAIN After(s, c)
           /\ After(s, c)[NamespaceKey(b, k)] = s[NamespaceKey(b, k)]
<1> DEFINE x == NamespaceKey(b, k)
<1>1. c.op \in {"put", "delete"} => x # NamespaceKey(c.addon, c.key)
  BY KeysDiffer DEF Key
<1>2. x \notin KeysOf(s, c.addon)
  BY PrefixesDiffer DEF KeysOf, InRange, Key
<1> HIDE DEF x
<1>3. CASE c.op = "put"
  BY <1>1, <1>3 DEF After, Stored, x
<1>4. CASE c.op = "delete"
  BY <1>1, <1>4 DEF After, Without, x
<1>5. CASE c.op = "clear"
  BY <1>2, <1>5 DEF After, Without, x
<1>6. CASE c.op \in {"get", "list"}
  BY <1>6 DEF After
<1> QED
  BY <1>3, <1>4, <1>5, <1>6

LEMMA Removed ==
    ASSUME NEW S, NEW s \in Seq(S), NEW i \in 1 .. Len(s)
    PROVE  /\ RemoveAt(s, i) \in Seq(S)
           /\ Len(RemoveAt(s, i)) = Len(s) - 1
           /\ \A j \in 1 .. Len(s) - 1 : RemoveAt(s, i)[j] = IF j < i THEN s[j] ELSE s[j + 1]
<1>0. Len(s) \in Nat /\ i \in Nat /\ 1 <= i /\ i <= Len(s)
  BY LenProperties
<1> DEFINE u == SubSeq(s, 1, i - 1)
           v == SubSeq(s, i + 1, Len(s))
<1>1. u \in Seq(S) /\ Len(u) = i - 1 /\ \A j \in 1 .. i - 1 : u[j] = s[j]
  <2>1. CASE i = 1
    BY <2>1, SubSeqEmpty, <1>0
  <2>2. CASE i > 1
    BY <1>0, <2>2, SubSeqProperties
  <2> QED
    BY <1>0, <2>1, <2>2
<1>2. v \in Seq(S) /\ Len(v) = Len(s) - i /\ \A j \in 1 .. Len(s) - i : v[j] = s[j + i]
  <2>1. CASE i = Len(s)
    BY <2>1, SubSeqEmpty, <1>0
  <2>2. CASE i < Len(s)
    <3>1. i + 1 \in 1 .. Len(s) + 1 /\ Len(s) \in (i + 1) - 1 .. Len(s)
      BY <1>0, <2>2
    <3>2. v \in Seq(S) /\ Len(v) = Len(s) - i /\ \A j \in 1 .. Len(s) - i : v[j] = s[i + 1 + j - 1]
      BY <1>0, <2>2, <3>1, SubSeqProperties
    <3>3. \A j \in 1 .. Len(s) - i : i + 1 + j - 1 = j + i
      BY <1>0
    <3> QED
      BY <3>2, <3>3
  <2> QED
    BY <1>0, <2>1, <2>2
<1>3. RemoveAt(s, i) = u \o v
  BY DEF RemoveAt
<1> HIDE DEF u, v
<1>4. u \o v \in Seq(S) /\ Len(u \o v) = Len(u) + Len(v)
      /\ (\A j \in 1 .. Len(u) : (u \o v)[j] = u[j])
      /\ \A j \in 1 .. Len(v) : (u \o v)[Len(u) + j] = v[j]
  <2>1. u \in Seq(S) /\ v \in Seq(S)
    BY <1>1, <1>2
  <2> QED
    BY <2>1
<1>5. ASSUME NEW j \in 1 .. Len(s) - 1 PROVE (u \o v)[j] = IF j < i THEN s[j] ELSE s[j + 1]
  <2>1. CASE j < i
    <3>1. j \in 1 .. i - 1
      BY <1>0, <2>1
    <3> QED
      BY <1>1, <1>4, <2>1, <3>1
  <2>2. CASE ~ j < i
    <3>1. PICK l \in 1 .. Len(s) - i : j = (i - 1) + l
      <4>1. j - (i - 1) \in 1 .. Len(s) - i /\ j = (i - 1) + (j - (i - 1))
        BY <1>0, <2>2
      <4> QED
        BY <4>1
    <3>2. l + i = j + 1
      BY <1>0, <3>1
    <3>3. (u \o v)[j] = v[l]
      BY <1>1, <1>2, <1>4, <3>1
    <3> QED
      BY <1>2, <2>2, <3>1, <3>2, <3>3
  <2> QED
    BY <2>1, <2>2
<1>6. Len(u) + Len(v) = Len(s) - 1
  BY <1>0, <1>1, <1>2
<1> QED
  BY <1>3, <1>4, <1>5, <1>6

-----------------------------------------------------------------------------
(* Calls and the store. *)

LEMMA Ids == VaultId \in Key /\ OtherId \in Key /\ OtherName \in Key /\ Snapshot \in Key
             /\ Names \subseteq Key
BY AddonConstants DEF AddonId, Key

LEMMA VaultCallIs ==
    ASSUME NEW c \in VaultCall
    PROVE  /\ c.addon = VaultId /\ c.op \in {"put", "delete", "list", "get"}
           /\ c.op \in {"put", "delete", "get"} => c.key \in Key
           /\ c.op = "put" => c.value \in Contents
           /\ c.then.do \in {"refresh", "listed", "row"}
           /\ c.then.do = "refresh" <=> c.op \in {"put", "delete"}
           /\ c.then.do = "listed" <=> c.op = "list"
           /\ c.then.do = "row" <=> c.op = "get"
           /\ c.then.do = "row" => c.then.rest \subseteq Key
BY DEF VaultCall

LEMMA BoardCallIs ==
    ASSUME NEW c \in BoardCall
    PROVE  /\ c.addon = VaultId /\ c.op \in {"put", "get"} /\ c.key \in Key
           /\ c.op = "put" => c.value \in Seq(Pages)
           /\ c.then.do \in {"saved", "load"}
           /\ c.then.do = "load" <=> c.op = "get"
BY DEF BoardCall

LEMMA CallIs ==
    ASSUME NEW a, NEW c \in CallOf(a)
    PROVE  /\ c.addon = VaultId /\ c.op \in {"put", "delete", "list", "get"}
           /\ c.op \in {"put", "delete", "get"} => c.key \in Key
           /\ c.op = "put" => c.value \in Value(a)
<1>1. CASE a = "vault"
  <2>1. c \in VaultCall
    BY <1>1 DEF CallOf
  <2> QED
    BY <1>1, <2>1, VaultCallIs DEF Value
<1>2. CASE a = "whiteboard"
  <2>1. c \in BoardCall
    BY <1>2 DEF CallOf
  <2> QED
    BY <1>2, <2>1, BoardCallIs DEF Value
<1>3. CASE a \notin {"vault", "whiteboard"}
  BY <1>3 DEF CallOf
<1> QED
  BY <1>1, <1>2, <1>3

LEMMA OwnKey ==
    ASSUME NEW n \in Key
    PROVE  NamespaceKey(VaultId, n) # OtherKey
BY Ids, KeysDiffer, AddonConstants DEF OtherKey

LEMMA StoreStays ==
    ASSUME NEW a, NEW s, StoreOK(a, s), NEW c \in CallOf(a)
    PROVE  StoreOK(a, After(s, c))
<1>0. /\ c.addon = VaultId /\ c.op \in {"put", "delete", "list", "get"}
      /\ c.op \in {"put", "delete", "get"} => c.key \in Key
      /\ c.op = "put" => c.value \in Value(a)
  BY CallIs
<1> DEFINE x == NamespaceKey(VaultId, c.key)
<1>1. CASE c.op = "put"
  <2>1. x # OtherKey /\ c.key \in Key /\ c.value \in Value(a)
    BY <1>0, <1>1, OwnKey
  <2>2. After(s, c) = Stored(s, x, c.value)
    BY <1>0, <1>1 DEF After
  <2>3. \A k \in DOMAIN s \cup {x} : k = x \/ k \in DOMAIN s
    OBVIOUS
  <2>4. x = NamespaceKey(VaultId, c.key)
    OBVIOUS
  <2> HIDE DEF x
  <2> QED
    BY <2>1, <2>2, <2>3, <2>4 DEF StoreOK, Stored
<1>2. CASE c.op = "delete"
  <2>1. x # OtherKey
    BY <1>0, <1>2, OwnKey
  <2>2. After(s, c) = Without(s, {x})
    BY <1>0, <1>2 DEF After
  <2> HIDE DEF x
  <2> QED
    BY <2>1, <2>2 DEF StoreOK, Without
<1>3. CASE c.op \in {"list", "get"}
  BY <1>3 DEF After
<1> QED
  BY <1>0, <1>1, <1>2, <1>3

LEMMA Listed ==
    ASSUME NEW a, NEW s, StoreOK(a, s), NEW n \in ListedKeys(s, VaultId)
    PROVE  /\ n \in Key /\ NamespaceKey(VaultId, n) \in DOMAIN s
           /\ s[NamespaceKey(VaultId, n)] \in Value(a)
<1>1. PICK k \in KeysOf(s, VaultId) :
         n = SubSeq(k, Len(NamespaceKey(VaultId, <<>>)) + 1, Len(k))
  BY DEF ListedKeys
<1>2. k \in DOMAIN s /\ IsPrefix(NamespaceKey(VaultId, <<>>), k)
  BY <1>1 DEF KeysOf, InRange
<1>3. k # OtherKey
  BY <1>2, Ids, PrefixesDiffer, AddonConstants DEF OtherKey
<1>4. PICK m \in Key : k = NamespaceKey(VaultId, m)
  BY <1>2, <1>3 DEF StoreOK
<1>5. n = m
  BY <1>1, <1>4, Ids, NameOf
<1> QED
  BY <1>2, <1>3, <1>4, <1>5 DEF StoreOK

LEMMA Answers ==
    ASSUME NEW a, NEW s, StoreOK(a, s), NEW c \in CallOf(a)
    PROVE  /\ c.op = "get" /\ NamespaceKey(VaultId, c.key) \in DOMAIN s =>
                 /\ Resolved(s, c) = {s[NamespaceKey(VaultId, c.key)]}
                 /\ s[NamespaceKey(VaultId, c.key)] \in Value(a)
           /\ c.op = "get" /\ NamespaceKey(VaultId, c.key) \notin DOMAIN s => Resolved(s, c) = {}
           /\ c.op = "list" => Resolved(s, c) = ListedKeys(s, VaultId)
<1>0. c.addon = VaultId /\ (c.op = "get" => c.key \in Key)
  BY CallIs
<1>1. CASE c.op = "get"
  <2> DEFINE x == NamespaceKey(VaultId, c.key)
  <2>1. x # OtherKey
    BY <1>0, <1>1, OwnKey
  <2>2. Resolved(s, c) = {s[k] : k \in {x} \cap DOMAIN s}
    BY <1>0, <1>1 DEF Resolved
  <2>3. x \in DOMAIN s => s[x] \in Value(a)
    BY <2>1 DEF StoreOK
  <2> HIDE DEF x
  <2>4. x \in DOMAIN s => Resolved(s, c) = {s[x]}
    BY <2>2
  <2>5. x \notin DOMAIN s => Resolved(s, c) = {}
    BY <2>2
  <2> QED
    BY <1>1, <2>3, <2>4, <2>5 DEF x
<1>2. CASE c.op = "list"
  BY <1>0, <1>2 DEF Resolved
<1> QED
  BY <1>1, <1>2

LEMMA QueueAsked ==
    ASSUME NEW S, NEW q \in Seq(S), NEW c \in S
    PROVE  /\ Asked(q, c) \in Seq(S)
           /\ Asked(q, c) = q \/ Asked(q, c) = Append(q, c)
BY DEF Asked

LEMMA RowsAre ==
    ASSUME NEW q \in Seq(VaultCall), NEW names \in SUBSET Key
    PROVE  /\ names = {} => Rows(q, names) = q
           /\ names # {} => \E n \in names :
                 Rows(q, names) = Append(q, CallOn("get", n, [do |-> "row", rest |-> names \ {n}]))
           /\ Rows(q, names) \in Seq(VaultCall)
<1>1. CASE names = {}
  BY <1>1 DEF Rows
<1>2. CASE names # {}
  <2> DEFINE n == CHOOSE n \in names : TRUE
  <2>1. n \in names
    BY <1>2
  <2> HIDE DEF n
  <2>2. CallOn("get", n, [do |-> "row", rest |-> names \ {n}]) \in VaultCall
    BY <2>1 DEF CallOn, VaultCall
  <2>3. Rows(q, names) = Append(q, CallOn("get", n, [do |-> "row", rest |-> names \ {n}]))
    BY <1>2 DEF Rows, n
  <2>4. Rows(q, names) \in Seq(VaultCall)
    <3> DEFINE c == CallOn("get", n, [do |-> "row", rest |-> names \ {n}])
    <3>1. c \in VaultCall /\ Rows(q, names) = Append(q, c)
      BY <2>2, <2>3
    <3> HIDE DEF c
    <3> QED
      BY <3>1
  <2> QED
    BY <1>2, <2>1, <2>3, <2>4, Zenon
<1> QED
  BY <1>1, <1>2

(* The row of an answered get. *)
LEMMA RowAdded ==
    ASSUME NEW k, NEW answer
    PROVE  /\ answer = {} => SetToSeq({<<k, v>> : v \in answer}) = <<>>
           /\ \A w : answer = {w} => SetToSeq({<<k, v>> : v \in answer}) = << <<k, w>> >>
<1>1. ASSUME answer = {} PROVE SetToSeq({<<k, v>> : v \in answer}) = <<>>
  <2>1. {<<k, v>> : v \in answer} = {} /\ Cardinality({}) = 0
    BY <1>1, FS_EmptySet
  <2>2. SetToSeq({}) = CHOOSE f \in [1 .. 0 -> {}] : IsInjective(f)
    BY <2>1 DEF SetToSeq
  <2>3. \A f \in [1 .. 0 -> {}] : f = <<>> /\ IsInjective(f)
    BY DEF IsInjective
  <2>4. <<>> \in [1 .. 0 -> {}]
    OBVIOUS
  <2> QED
    BY <2>1, <2>2, <2>3, <2>4
<1>2. ASSUME NEW w, answer = {w}
      PROVE  SetToSeq({<<k, v>> : v \in answer}) = << <<k, w>> >>
  <2> DEFINE x == <<k, w>>
  <2>1. {<<k, v>> : v \in answer} = {x}
    BY <1>2
  <2> HIDE DEF x
  <2>2. Cardinality({x}) = 1
    BY FS_Singleton
  <2>3. SetToSeq({x}) = CHOOSE f \in [1 .. 1 -> {x}] : IsInjective(f)
    BY <2>2 DEF SetToSeq
  <2>4. <<x>> \in [1 .. 1 -> {x}] /\ IsInjective(<<x>>)
    BY DEF IsInjective
  <2>5. \A f \in [1 .. 1 -> {x}] : f = <<x>>
    OBVIOUS
  <2>6. SetToSeq({x}) = <<x>>
    BY <2>3, <2>4, <2>5
  <2> QED
    BY <2>1, <2>6 DEF x
<1> QED
  BY <1>1, <1>2

-----------------------------------------------------------------------------
(* Types. *)

AppNames == {"whiteboard", "presence", "echo", "vault", "voice-call", "voice-meter"}

LEMMA AppIs == TypeOK => app \in AppNames
BY AddonConstants DEF TypeOK, AppNames

LEMMA StateIs ==
    /\ State("whiteboard") = BoardState /\ State("presence") = PresenceState
    /\ State("vault") = VaultState /\ State("voice-call") = VoiceState
    /\ State("voice-meter") = MeterState /\ State("echo") = EchoState
BY DEF State

LEMMA PayloadIs ==
    /\ Payload("whiteboard") = [type : {"stroke"}, segment : Pages]
    /\ Payload("presence") = [type : {"state"}, state : Nat]
    /\ Payload("vault") = Key \X Contents
    /\ Payload("echo") = [type : {"text"}, echoed : BOOLEAN]
    /\ Payload("voice-call") = {}
    /\ Payload("voice-meter") = {}
BY DEF Payload

LEMMA FreshIs == \A a \in AppNames : Fresh(a) \in State(a) /\ Fresh(a).initialized = FALSE
<1>1. Fresh("whiteboard") \in BoardState /\ Fresh("whiteboard").initialized = FALSE
  BY DEF Fresh, BoardState
<1>2. Fresh("presence") \in PresenceState /\ Fresh("presence").initialized = FALSE
  BY DEF Fresh, PresenceState
<1>3. Fresh("vault") \in VaultState /\ Fresh("vault").initialized = FALSE
  BY DEF Fresh, VaultState
<1>4. Fresh("voice-call") \in VoiceState /\ Fresh("voice-call").initialized = FALSE
  BY DEF Fresh, VoiceState
<1>5. Fresh("voice-meter") \in MeterState /\ Fresh("voice-meter").initialized = FALSE
  BY DEF Fresh, MeterState
<1>6. Fresh("echo") \in EchoState /\ Fresh("echo").initialized = FALSE
  BY DEF Fresh, EchoState
<1> QED
  BY <1>1, <1>2, <1>3, <1>4, <1>5, <1>6, StateIs DEF AppNames

LEMMA Initialized ==
    \A a \in AppNames : \A s \in State(a) :
        s.initialized \in BOOLEAN /\ [s EXCEPT !.initialized = TRUE] \in State(a)
<1>1. \A s \in BoardState :
         s.initialized \in BOOLEAN /\ [s EXCEPT !.initialized = TRUE] \in BoardState
  BY DEF BoardState
<1>2. \A s \in PresenceState :
         s.initialized \in BOOLEAN /\ [s EXCEPT !.initialized = TRUE] \in PresenceState
  BY DEF PresenceState
<1>3. \A s \in VaultState :
         s.initialized \in BOOLEAN /\ [s EXCEPT !.initialized = TRUE] \in VaultState
  BY DEF VaultState
<1>4. \A s \in VoiceState :
         s.initialized \in BOOLEAN /\ [s EXCEPT !.initialized = TRUE] \in VoiceState
  BY DEF VoiceState
<1>5. \A s \in MeterState :
         s.initialized \in BOOLEAN /\ [s EXCEPT !.initialized = TRUE] \in MeterState
  BY DEF MeterState
<1>6. \A s \in EchoState :
         s.initialized \in BOOLEAN /\ [s EXCEPT !.initialized = TRUE] \in EchoState
  BY DEF EchoState
<1> QED
  BY <1>1, <1>2, <1>3, <1>4, <1>5, <1>6, StateIs DEF AppNames

LEMMA TypeInit == Init => TypeOK
<1> SUFFICES ASSUME Init PROVE TypeOK
  OBVIOUS
<1>1. app \in Apps /\ app \in AppNames
  BY AddonConstants DEF Init, AppNames
<1>2. st \in [Pages -> State(app)]
  BY <1>1, FreshIs DEF Init
<1>3. link \in [Pages -> Seq(Payload(app))] /\ calls \in [Pages -> Seq(CallOf(app))]
  BY DEF Init
<1>4. DOMAIN db = Pages /\ \A p \in Pages : StoreOK(app, db[p])
  <2>1. StoreOK(app, OtherRecord)
    BY DEF StoreOK, OtherRecord, OtherKey
  <2> QED
    BY <2>1 DEF Init
<1>5. conn \in [Pages -> {"none", "opening", "open", "failed"}]
      /\ missed \subseteq Pages /\ disturbed \subseteq Pages
  BY DEF Init
<1> QED
  BY <1>1, <1>2, <1>3, <1>4, <1>5 DEF TypeOK

LEMMA RpcType ==
    ASSUME TypeOK, NEW p \in Pages, NEW c \in CallOf(app), Rpc(p, c)
    PROVE  /\ calls' \in [Pages -> Seq(CallOf(app))]
           /\ conn' \in [Pages -> {"none", "opening", "open", "failed"}]
           /\ db' = db
<1>1. calls \in [Pages -> Seq(CallOf(app))] /\ conn \in [Pages -> {"none", "opening", "open", "failed"}]
  BY DEF TypeOK
<1>2. Asked(calls[p], c) \in Seq(CallOf(app))
  BY <1>1, QueueAsked
<1> QED
  BY <1>1, <1>2 DEF Rpc

LEMMA SendType ==
    ASSUME TypeOK, NEW p \in Pages, NEW m \in Payload(app), SendTo(p, m)
    PROVE  link' \in [Pages -> Seq(Payload(app))]
<1>1. link \in [Pages -> Seq(Payload(app))] /\ Other(p) \in Pages
  BY TwoPages DEF TypeOK
<1>2. Append(link[Other(p)], m) \in Seq(Payload(app))
  BY <1>1
<1> QED
  BY <1>1, <1>2 DEF SendTo

(* What a call of the vault goes on with. *)
LEMMA VaultGoes ==
    ASSUME NEW db1, StoreOK("vault", db1), NEW c \in VaultCall,
           NEW s \in VaultState, NEW q \in Seq(VaultCall)
    PROVE  LET next == VaultGoesOn(s, q, c, Resolved(db1, c)) IN
           next.s \in VaultState /\ next.queue \in Seq(VaultCall)
<1> DEFINE answer == Resolved(db1, c)
<1>0. /\ c.op \in {"put", "delete", "list", "get"}
      /\ c.op \in {"put", "delete", "get"} => c.key \in Key
      /\ c.then.do \in {"refresh", "listed", "row"}
      /\ c.then.do = "listed" <=> c.op = "list"
      /\ c.then.do = "row" <=> c.op = "get"
      /\ c.then.do = "row" => c.then.rest \subseteq Key
  BY VaultCallIs
<1>a. c \in CallOf("vault") /\ Value("vault") = Contents
  BY DEF CallOf, Value
<1>1. CASE c.then.do = "refresh"
  <2>1. Call("list", [do |-> "listed"]) \in VaultCall
    BY DEF Call, VaultCall
  <2>2. VaultGoesOn(s, q, c, answer) = [s |-> s, queue |-> Asked(q, Call("list", [do |-> "listed"]))]
    BY <1>1 DEF VaultGoesOn
  <2> QED
    BY <2>1, <2>2, QueueAsked
<1>2. CASE c.then.do = "listed"
  <2>1. answer = ListedKeys(db1, VaultId)
    BY <1>0, <1>a, <1>2, Answers
  <2>2. answer \in SUBSET Key
    BY <2>1, Listed
  <2>3. VaultGoesOn(s, q, c, answer) = [s |-> [s EXCEPT !.list = Cleared(@)], queue |-> Rows(q, answer)]
    BY <1>2 DEF VaultGoesOn
  <2>4. [s EXCEPT !.list = Cleared(@)] \in VaultState
    <3> DEFINE n == Cleared(s.list)
    <3>1. n \in Seq(Key \X Contents)
      BY DEF Cleared
    <3> HIDE DEF n
    <3>2. [s EXCEPT !.list = n] \in VaultState
      BY <3>1 DEF VaultState
    <3> QED
      BY <3>2 DEF n
  <2>5. Rows(q, answer) \in Seq(VaultCall)
    BY <2>2, RowsAre
  <2> QED
    BY <2>3, <2>4, <2>5
<1>3. CASE c.then.do = "row"
  <2> DEFINE more == SetToSeq({<<c.key, v>> : v \in answer})
  <2>1. answer = {} \/ \E w \in Contents : answer = {w}
    BY <1>0, <1>a, <1>3, Answers
  <2>2. more \in Seq(Key \X Contents)
    <3> HIDE DEF answer
    <3>1. CASE answer = {}
      <4>1. more = <<>>
        BY <3>1, RowAdded, Zenon
      <4> HIDE DEF more
      <4> QED
        BY <4>1
    <3>2. ASSUME NEW w \in Contents, answer = {w} PROVE more \in Seq(Key \X Contents)
      <4>1. more = << <<c.key, w>> >>
        BY <3>2, RowAdded, Zenon
      <4>2. <<c.key, w>> \in Key \X Contents
        BY <1>0, <1>3
      <4> HIDE DEF more
      <4> QED
        BY <4>1, <4>2
    <3> QED
      BY <2>1, <3>1, <3>2
  <2>3. VaultGoesOn(s, q, c, answer) = [s |-> [s EXCEPT !.list = @ \o more], queue |-> Rows(q, c.then.rest)]
    BY <1>3 DEF VaultGoesOn
  <2>4. [s EXCEPT !.list = @ \o more] \in VaultState
    <3> HIDE DEF more
    <3> DEFINE n == s.list \o more
    <3>1. n \in Seq(Key \X Contents)
      BY <2>2 DEF VaultState
    <3> HIDE DEF n
    <3>2. [s EXCEPT !.list = n] \in VaultState
      BY <3>1 DEF VaultState
    <3> QED
      BY <3>2 DEF n
  <2>5. Rows(q, c.then.rest) \in Seq(VaultCall)
    BY <1>0, <1>3, RowsAre
  <2> DEFINE ns == [s EXCEPT !.list = @ \o more]
             nq == Rows(q, c.then.rest)
  <2>6. VaultGoesOn(s, q, c, Resolved(db1, c)) = [s |-> ns, queue |-> nq]
    BY <2>3
  <2>7. ns \in VaultState /\ nq \in Seq(VaultCall)
    BY <2>4, <2>5
  <2> HIDE DEF ns, nq
  <2> QED
    BY <2>6, <2>7
<1> QED
  BY <1>0, <1>1, <1>2, <1>3

(* What a call of the whiteboard goes on with. *)
LEMMA BoardGoes ==
    ASSUME NEW db1, StoreOK("whiteboard", db1), NEW c \in BoardCall,
           NEW s \in BoardState, NEW q \in Seq(BoardCall)
    PROVE  LET next == WhiteboardGoesOn(s, q, c, Resolved(db1, c)) IN
           next.s \in BoardState /\ next.queue \in Seq(BoardCall)
<1> DEFINE answer == Resolved(db1, c)
           snap == CHOOSE v \in answer : TRUE
           len == Len(snap)
           ns == IF c.then.do = "load" /\ answer # {}
                 THEN [s EXCEPT !.strokes = snap, !.ownCount = len, !.peerCount = 0] ELSE s
<1>1. c \in CallOf("whiteboard") /\ Value("whiteboard") = Seq(Pages)
  BY DEF CallOf, Value
<1>2. ASSUME c.then.do = "load", answer # {} PROVE snap \in Seq(Pages)
  <2>1. c.op = "get"
    BY <1>2, BoardCallIs
  <2>2. answer \subseteq Seq(Pages)
    <3>1. answer = {db1[NamespaceKey(VaultId, c.key)]}
          /\ db1[NamespaceKey(VaultId, c.key)] \in Seq(Pages)
      BY <1>1, <1>2, <2>1, Answers
    <3> QED
      BY <3>1
  <2> HIDE DEF answer
  <2> QED
    BY <1>2, <2>2
<1>3. WhiteboardGoesOn(s, q, c, answer) = [s |-> ns, queue |-> q]
  BY DEF WhiteboardGoesOn
<1>4. ns \in BoardState
  <2>1. CASE c.then.do = "load" /\ answer # {}
    <3>1. snap \in Seq(Pages) /\ len \in Nat
      <4>1. snap \in Seq(Pages)
        BY <1>2, <2>1
      <4> HIDE DEF snap
      <4> QED
        BY <4>1
    <3>2. ns = [s EXCEPT !.strokes = snap, !.ownCount = len, !.peerCount = 0]
      BY <2>1
    <3> HIDE DEF snap, len, ns
    <3> QED
      BY <3>1, <3>2 DEF BoardState
  <2>2. CASE ~ (c.then.do = "load" /\ answer # {})
    BY <2>2
  <2> QED
    BY <2>1, <2>2
<1> HIDE DEF ns
<1> QED
  BY <1>3, <1>4

LEMMA VaultActsType ==
    ASSUME TypeOK, app = "vault", NEW p \in Pages, VaultActs(p)
    PROVE  TypeOK'
<1>0. /\ app' = app /\ st' = st /\ db' = db
      /\ UNCHANGED <<missed, disturbed>>
  BY DEF VaultActs, Rpc, storageVars
<1>1. /\ CallOf(app) = VaultCall /\ Payload(app) = Key \X Contents
      /\ st[p] \in VaultState
  BY PayloadIs, StateIs DEF TypeOK, CallOf
<1>2. \A i \in DOMAIN st[p].list : st[p].list[i] \in Key \X Contents
  BY <1>1 DEF VaultState
<1>3. \A f \in st[p].inbox : f \in Key \X Contents
  BY <1>1 DEF VaultState
<1>4. \A n \in Key, v \in Contents : CallPut(n, v, [do |-> "refresh"]) \in CallOf(app)
  BY <1>1 DEF CallPut, VaultCall
<1>5. \A n \in Key : CallOn("delete", n, [do |-> "refresh"]) \in CallOf(app)
  BY <1>1 DEF CallOn, VaultCall
<1>6. \A f \in Key \X Contents : f[1] \in Key /\ f[2] \in Contents
  OBVIOUS
<1>7. \/ /\ \E c \in CallOf(app) : Rpc(p, c)
         /\ UNCHANGED link
      \/ /\ \E m \in Payload(app) : SendTo(p, m)
         /\ UNCHANGED storageVars
  <2>1. CASE /\ \E n \in Names, v \in Contents : Rpc(p, CallPut(n, v, [do |-> "refresh"]))
             /\ UNCHANGED <<st, link>>
    BY <1>4, <2>1, Ids
  <2>2. CASE /\ \E i \in DOMAIN st[p].list :
                   Rpc(p, CallOn("delete", st[p].list[i][1], [do |-> "refresh"]))
             /\ UNCHANGED <<st, link>>
    BY <1>2, <1>5, <1>6, <2>2
  <2>3. CASE /\ \E i \in DOMAIN st[p].list : SendTo(p, st[p].list[i])
             /\ UNCHANGED <<st, storageVars>>
    BY <1>1, <1>2, <2>3
  <2>4. CASE /\ \E f \in st[p].inbox : Rpc(p, CallPut(f[1], f[2], [do |-> "refresh"]))
             /\ UNCHANGED <<st, link>>
    BY <1>3, <1>4, <1>6, <2>4
  <2> QED
    BY <2>1, <2>2, <2>3, <2>4 DEF VaultActs
<1>8. CASE /\ \E c \in CallOf(app) : Rpc(p, c)
           /\ UNCHANGED link
  <2>1. /\ calls' \in [Pages -> Seq(CallOf(app))]
        /\ conn' \in [Pages -> {"none", "opening", "open", "failed"}]
    BY <1>8, RpcType
  <2> QED
    BY <1>0, <1>8, <2>1 DEF TypeOK
<1>9. CASE /\ \E m \in Payload(app) : SendTo(p, m)
           /\ UNCHANGED storageVars
  <2>1. link' \in [Pages -> Seq(Payload(app))]
    BY <1>9, SendType
  <2> QED
    BY <1>0, <1>9, <2>1 DEF TypeOK, storageVars
<1> QED
  BY <1>7, <1>8, <1>9

LEMMA BoardActsType ==
    ASSUME TypeOK, app = "whiteboard", NEW p \in Pages, WhiteboardActs(p)
    PROVE  TypeOK'
<1>0. app' = app /\ db' = db /\ UNCHANGED <<missed, disturbed>>
  BY DEF WhiteboardActs, Rpc, storageVars
<1>1. /\ CallOf(app) = BoardCall /\ Payload(app) = [type : {"stroke"}, segment : Pages]
      /\ State(app) = BoardState /\ st \in [Pages -> BoardState]
  BY PayloadIs, StateIs DEF TypeOK, CallOf
<1>a. st[p].strokes \in Seq(Pages) /\ st[p].ownCount \in Nat
  BY <1>1 DEF BoardState
<1>2. CASE /\ st' = [st EXCEPT ![p].strokes = Append(@, p), ![p].ownCount = @ + 1]
           /\ SendTo(p, [type |-> "stroke", segment |-> p])
           /\ UNCHANGED storageVars
  <2> DEFINE strokes == Append(st[p].strokes, p)
             count == st[p].ownCount + 1
             s == [st[p] EXCEPT !.strokes = strokes, !.ownCount = count]
  <2>1. strokes \in Seq(Pages) /\ count \in Nat
    BY <1>a
  <2>2. st' = [st EXCEPT ![p] = s]
    BY <1>2
  <2> HIDE DEF strokes, count
  <2>3. s \in BoardState
    BY <1>1, <2>1 DEF BoardState
  <2> HIDE DEF s
  <2>4. st' \in [Pages -> State(app)]
    BY <1>1, <2>2, <2>3
  <2>5. [type |-> "stroke", segment |-> p] \in Payload(app)
    BY <1>1
  <2>6. link' \in [Pages -> Seq(Payload(app))]
    BY <1>2, <2>5, SendType
  <2> QED
    BY <1>0, <1>2, <2>4, <2>6 DEF TypeOK, storageVars
<1>3. CASE /\ st' = [st EXCEPT ![p].strokes = <<>>, ![p].ownCount = 0, ![p].peerCount = 0]
           /\ UNCHANGED <<link, storageVars>>
  <2> DEFINE strokes == <<>>
             s == [st[p] EXCEPT !.strokes = strokes, !.ownCount = 0, !.peerCount = 0]
  <2>1. strokes \in Seq(Pages)
    OBVIOUS
  <2>2. st' = [st EXCEPT ![p] = s]
    BY <1>3
  <2> HIDE DEF strokes
  <2>3. s \in BoardState
    BY <1>1, <2>1 DEF BoardState
  <2> HIDE DEF s
  <2>4. st' \in [Pages -> State(app)]
    BY <1>1, <2>2, <2>3
  <2> QED
    BY <1>0, <1>3, <2>4 DEF TypeOK, storageVars
<1>4. ASSUME NEW c \in CallOf(app), Rpc(p, c), UNCHANGED <<st, link>>
      PROVE  TypeOK'
  <2>1. /\ calls' \in [Pages -> Seq(CallOf(app))]
        /\ conn' \in [Pages -> {"none", "opening", "open", "failed"}]
    BY <1>4, RpcType
  <2> QED
    BY <1>0, <1>4, <2>1 DEF TypeOK
<1>5. CallPut(Snapshot, st[p].strokes, [do |-> "saved"]) \in CallOf(app)
      /\ CallOn("get", Snapshot, [do |-> "load"]) \in CallOf(app)
  BY <1>1, <1>a, Ids DEF CallPut, CallOn, BoardCall
<1> QED
  BY <1>2, <1>3, <1>4, <1>5 DEF WhiteboardActs

(* The steps of a presence, as far as they matter. *)
LEMMA FlushIs ==
    ASSUME NEW r \in PresenceState
    PROVE  /\ Flushed(r) \in PresenceState
           /\ Flushed(r).me = r.me /\ Flushed(r).pendingState = <<>> /\ Flushed(r).peer = r.peer
<1> DEFINE none == <<>>
           window == r.window + 1
           s == [r EXCEPT !.pendingState = none, !.window = window, !.waiting = TRUE]
<1>1. none \in Seq(Nat) /\ window \in Nat
  BY DEF PresenceState
<1>2. Flushed(r) = s
  BY DEF Flushed
<1>3. none = <<>>
  OBVIOUS
<1> HIDE DEF none, window
<1>4. s \in PresenceState /\ s.me = r.me /\ s.pendingState = none /\ s.peer = r.peer
  BY <1>1 DEF PresenceState
<1> QED
  BY <1>2, <1>3, <1>4

LEMMA ChangeIs ==
    ASSUME TypeOK, app = "presence", NEW p \in Pages, PresenceChange(p)
    PROVE  \E s \in PresenceState :
              /\ st' = [st EXCEPT ![p] = s]
              /\ s.me = st[p].me + 1 /\ s.peer = st[p].peer
              /\ \/ s.pendingState = <<s.me>> /\ s.timers # <<>> /\ UNCHANGED link
                 \/ s.pendingState = <<>> /\ SendTo(p, [type |-> "state", state |-> s.me])
<1> DEFINE r == st[p]
           me == r.me + 1
           changed == [r EXCEPT !.me = me]
           pending == <<me>>
           s == [changed EXCEPT !.pendingState = pending]
           timers == Append(s.timers, s.window)
           t == [s EXCEPT !.timers = timers]
<1>1. r \in PresenceState
  BY StateIs DEF TypeOK
<1>2. me \in Nat /\ pending \in Seq(Nat) /\ pending[1] = me
  BY <1>1 DEF PresenceState
<1>3. \/ st' = [st EXCEPT ![p] = t] /\ UNCHANGED link
      \/ st' = [st EXCEPT ![p] = Flushed(s)]
         /\ SendTo(p, [type |-> "state", state |-> s.pendingState[1]])
  <2>1. changed.me = me
    BY <1>1 DEF PresenceState
  <2>2. Pending(changed) = pending
    BY <2>1 DEF Pending
  <2> QED
    BY <2>2 DEF PresenceChange
<1>4. changed \in PresenceState /\ changed.me = me /\ changed.peer = r.peer
  <2> HIDE DEF me
  <2> QED
    BY <1>1, <1>2 DEF PresenceState
<1>5. s \in PresenceState /\ s.me = me /\ s.peer = r.peer /\ s.pendingState = pending
  <2> HIDE DEF changed, me, pending
  <2> QED
    BY <1>2, <1>4 DEF PresenceState
<1>6. timers \in Seq(Nat) /\ timers # <<>>
  <2>1. s.timers \in Seq(Nat) /\ s.window \in Nat
    <3> HIDE DEF s
    <3> QED
      BY <1>5 DEF PresenceState
  <2> HIDE DEF s
  <2> QED
    BY <2>1
<1>7. t \in PresenceState /\ t.me = me /\ t.peer = r.peer /\ t.pendingState = pending /\ t.timers # <<>>
  <2> HIDE DEF s, timers
  <2> QED
    BY <1>5, <1>6 DEF PresenceState
<1>8. CASE st' = [st EXCEPT ![p] = t] /\ UNCHANGED link
  <2>1. t.pendingState = <<t.me>>
    BY <1>7
  <2> HIDE DEF t
  <2> QED
    BY <1>7, <1>8, <2>1
<1>9. CASE st' = [st EXCEPT ![p] = Flushed(s)]
           /\ SendTo(p, [type |-> "state", state |-> s.pendingState[1]])
  <2>1. s.pendingState[1] = me
    BY <1>2, <1>5
  <2>2. Flushed(s) \in PresenceState /\ Flushed(s).me = me
        /\ Flushed(s).peer = r.peer /\ Flushed(s).pendingState = <<>>
    <3> HIDE DEF s
    <3> QED
      BY <1>5, FlushIs
  <2> HIDE DEF s
  <2>3. SendTo(p, [type |-> "state", state |-> Flushed(s).me])
    BY <1>9, <2>1, <2>2
  <2> QED
    BY <1>9, <2>2, <2>3
<1> QED
  BY <1>3, <1>8, <1>9

LEMMA TimerIs ==
    ASSUME TypeOK, NEW p \in Pages, TimerFires(p)
    PROVE  /\ app = "presence"
           /\ \E s \in PresenceState :
              /\ st' = [st EXCEPT ![p] = s]
              /\ s.me = st[p].me /\ s.peer = st[p].peer /\ s.pendingState = <<>>
              /\ IF st[p].pendingState = <<>> THEN UNCHANGED link
                 ELSE /\ st[p].pendingState[1] \in Nat
                      /\ SendTo(p, [type |-> "state", state |-> st[p].pendingState[1]])
<1> DEFINE r == st[p]
           timers == Tail(r.timers)
           s == [r EXCEPT !.timers = timers]
<1>0. app = "presence" /\ r.timers # <<>>
  BY DEF TimerFires
<1>1. r \in PresenceState
  BY <1>0, StateIs DEF TypeOK
<1>2. timers \in Seq(Nat)
  BY <1>0, <1>1 DEF PresenceState
<1>3. IF s.pendingState = <<>>
      THEN st' = [st EXCEPT ![p] = s] /\ UNCHANGED link
      ELSE /\ st' = [st EXCEPT ![p] = Flushed(s)]
           /\ SendTo(p, [type |-> "state", state |-> s.pendingState[1]])
  BY DEF TimerFires
<1>4. s \in PresenceState /\ s.me = r.me /\ s.peer = r.peer /\ s.pendingState = r.pendingState
  <2> HIDE DEF timers
  <2> QED
    BY <1>1, <1>2 DEF PresenceState
<1>5. r.pendingState # <<>> => r.pendingState[1] \in Nat
  BY <1>1 DEF PresenceState
<1>6. Flushed(s) \in PresenceState /\ Flushed(s).me = r.me
      /\ Flushed(s).peer = r.peer /\ Flushed(s).pendingState = <<>>
  <2> HIDE DEF s
  <2> QED
    BY <1>4, FlushIs
<1> HIDE DEF s
<1>7. CASE r.pendingState = <<>>
  BY <1>0, <1>3, <1>4, <1>7
<1>8. CASE r.pendingState # <<>>
  BY <1>0, <1>3, <1>4, <1>5, <1>6, <1>8
<1> QED
  BY <1>7, <1>8

LEMMA WindowIs ==
    ASSUME TypeOK, NEW p \in Pages, WindowPasses(p)
    PROVE  /\ app = "presence" /\ UNCHANGED link
           /\ \E s \in PresenceState :
              /\ st' = [st EXCEPT ![p] = s]
              /\ s.me = st[p].me /\ s.peer = st[p].peer
              /\ s.pendingState = st[p].pendingState /\ s.timers = st[p].timers
<1> DEFINE s == [st[p] EXCEPT !.waiting = FALSE]
<1>1. app = "presence" /\ st' = [st EXCEPT ![p] = s] /\ UNCHANGED link
  BY DEF WindowPasses
<1>2. st[p] \in PresenceState
  BY <1>1, StateIs DEF TypeOK
<1>3. s \in PresenceState /\ s.me = st[p].me /\ s.peer = st[p].peer
      /\ s.pendingState = st[p].pendingState /\ s.timers = st[p].timers
  BY <1>2 DEF PresenceState
<1> HIDE DEF s
<1> QED
  BY <1>1, <1>3

(* A payload arrives at an add-on that is ready for it. *)
LEMMA Arrives ==
    ASSUME app \in AppNames, NEW r \in State(app), NEW m \in Payload(app)
    PROVE  Received(r, m) \in State(app)
<1> DEFINE s == Received(r, m)
<1>1. CASE app = "whiteboard"
  <2> DEFINE strokes == Append(r.strokes, m.segment)
             count == r.peerCount + 1
  <2>1. r \in BoardState /\ m.segment \in Pages
    <3>1. r \in BoardState /\ m \in [type : {"stroke"}, segment : Pages]
      BY <1>1, StateIs, PayloadIs, Zenon
    <3> QED
      BY <3>1
  <2>2. strokes \in Seq(Pages) /\ count \in Nat
    BY <2>1 DEF BoardState
  <2>3. s = [r EXCEPT !.strokes = strokes, !.peerCount = count]
    BY <1>1 DEF Received
  <2> HIDE DEF strokes, count, s
  <2>4. s \in BoardState
    BY <2>1, <2>2, <2>3 DEF BoardState
  <2> QED
    BY <1>1, <2>4, StateIs DEF s
<1>2. CASE app = "presence"
  <2>1. r \in PresenceState /\ m.state \in Nat
    <3>1. r \in PresenceState /\ m \in [type : {"state"}, state : Nat]
      BY <1>2, StateIs, PayloadIs, Zenon
    <3> QED
      BY <3>1
  <2>2. s = [r EXCEPT !.peer = m.state]
    BY <1>2 DEF Received
  <2>3. s \in PresenceState
    BY <2>1, <2>2 DEF PresenceState
  <2> QED
    BY <1>2, <2>3, StateIs
<1>3. CASE app = "vault"
  <2> DEFINE box == r.inbox \cup {m}
  <2>1. r \in VaultState /\ m \in Key \X Contents
    BY <1>3, StateIs, PayloadIs
  <2>2. box \in SUBSET (Key \X Contents)
    BY <2>1 DEF VaultState
  <2>3. s = [r EXCEPT !.inbox = box]
    BY <1>3 DEF Received
  <2> HIDE DEF box, s
  <2>4. s \in VaultState
    BY <2>1, <2>2, <2>3 DEF VaultState
  <2> QED
    BY <1>3, <2>4, StateIs DEF s
<1>4. CASE app = "echo"
  <2> DEFINE log == r.log \cup {m.echoed}
  <2>1. r \in EchoState /\ m.echoed \in BOOLEAN
    <3>1. r \in EchoState /\ m \in [type : {"text"}, echoed : BOOLEAN]
      BY <1>4, StateIs, PayloadIs, Zenon
    <3> QED
      BY <3>1
  <2>2. log \in SUBSET BOOLEAN
    BY <2>1 DEF EchoState
  <2>3. s = [r EXCEPT !.log = log]
    BY <1>4 DEF Received
  <2> HIDE DEF log, s
  <2>4. s \in EchoState
    BY <2>1, <2>2, <2>3 DEF EchoState
  <2> QED
    BY <1>4, <2>4, StateIs DEF s
<1>5. app \notin {"voice-call", "voice-meter"}
  BY DEF Payload
<1> QED
  BY <1>1, <1>2, <1>3, <1>4, <1>5 DEF AppNames

(* An answered call: what was asked, and what its handler goes on with. *)
LEMMA AnswerIs ==
    ASSUME TypeOK, NEW p \in Pages, StorageResult(p)
    PROVE  /\ UNCHANGED <<app, link, conn, missed>> /\ conn[p] = "open"
           /\ \E i \in DOMAIN calls[p] :
              LET c == calls[p][i]
                  queue == RemoveAt(calls[p], i)
                  next == IF app = "vault" THEN VaultGoesOn(st[p], queue, c, Resolved(db[p], c))
                          ELSE WhiteboardGoesOn(st[p], queue, c, Resolved(db[p], c))
              IN  /\ app \in {"vault", "whiteboard"}
                  /\ c \in CallOf(app) /\ queue \in Seq(CallOf(app))
                  /\ next.s \in State(app) /\ next.queue \in Seq(CallOf(app))
                  /\ db' = [db EXCEPT ![p] = After(@, c)]
                  /\ st' = [st EXCEPT ![p] = next.s]
                  /\ calls' = [calls EXCEPT ![p] = next.queue]
                  /\ disturbed' = Disturbed(p, c, queue)
<1>1. /\ UNCHANGED <<app, link, conn, missed>> /\ conn[p] = "open"
  BY DEF StorageResult
<1>2. PICK i \in DOMAIN calls[p] :
         LET c == calls[p][i]
             queue == RemoveAt(calls[p], i)
             next == CASE c.then.do \in {"saved", "load"} -> WhiteboardGoesOn(st[p], queue, c, Resolved(db[p], c))
                       [] OTHER -> VaultGoesOn(st[p], queue, c, Resolved(db[p], c))
         IN  /\ db' = [db EXCEPT ![p] = After(@, c)]
             /\ st' = [st EXCEPT ![p] = next.s]
             /\ calls' = [calls EXCEPT ![p] = next.queue]
             /\ disturbed' = Disturbed(p, c, queue)
  BY DEF StorageResult
<1> DEFINE c == calls[p][i]
           queue == RemoveAt(calls[p], i)
           board == WhiteboardGoesOn(st[p], queue, c, Resolved(db[p], c))
           vault == VaultGoesOn(st[p], queue, c, Resolved(db[p], c))
<1>3. calls[p] \in Seq(CallOf(app)) /\ i \in 1 .. Len(calls[p]) /\ st[p] \in State(app)
      /\ StoreOK(app, db[p])
  BY DEF TypeOK
<1>4. c \in CallOf(app)
  BY <1>3
<1>5. queue \in Seq(CallOf(app))
  BY <1>3, Removed
<1>6. app \in {"vault", "whiteboard"}
  BY <1>4 DEF CallOf
<1>7. CASE app = "vault"
  <2>1. c \in VaultCall /\ queue \in Seq(VaultCall) /\ st[p] \in VaultState
        /\ CallOf(app) = VaultCall /\ State(app) = VaultState
    BY <1>3, <1>4, <1>5, <1>7, StateIs DEF CallOf
  <2>2. c.then.do \notin {"saved", "load"}
    BY <2>1, VaultCallIs
  <2>3. vault.s \in VaultState /\ vault.queue \in Seq(VaultCall)
    BY <1>3, <1>7, <2>1, VaultGoes
  <2> HIDE DEF c, queue, board, vault
  <2>4. /\ app \in {"vault", "whiteboard"}
        /\ c \in CallOf(app) /\ queue \in Seq(CallOf(app))
        /\ vault.s \in State(app) /\ vault.queue \in Seq(CallOf(app))
        /\ db' = [db EXCEPT ![p] = After(@, c)]
        /\ st' = [st EXCEPT ![p] = vault.s]
        /\ calls' = [calls EXCEPT ![p] = vault.queue]
        /\ disturbed' = Disturbed(p, c, queue)
    BY <1>2, <1>4, <1>5, <1>6, <2>1, <2>2, <2>3 DEF c, queue, board, vault
  <2> QED
    BY <1>1, <1>7, <2>4 DEF c, queue, vault
<1>8. CASE app = "whiteboard"
  <2>1. c \in BoardCall /\ queue \in Seq(BoardCall) /\ st[p] \in BoardState
        /\ CallOf(app) = BoardCall /\ State(app) = BoardState
    BY <1>3, <1>4, <1>5, <1>8, StateIs DEF CallOf
  <2>2. c.then.do \in {"saved", "load"}
    BY <2>1, BoardCallIs
  <2>3. board.s \in BoardState /\ board.queue \in Seq(BoardCall)
    BY <1>3, <1>8, <2>1, BoardGoes
  <2> HIDE DEF c, queue, board, vault
  <2>4. /\ app \in {"vault", "whiteboard"} /\ app # "vault"
        /\ c \in CallOf(app) /\ queue \in Seq(CallOf(app))
        /\ board.s \in State(app) /\ board.queue \in Seq(CallOf(app))
        /\ db' = [db EXCEPT ![p] = After(@, c)]
        /\ st' = [st EXCEPT ![p] = board.s]
        /\ calls' = [calls EXCEPT ![p] = board.queue]
        /\ disturbed' = Disturbed(p, c, queue)
    BY <1>2, <1>4, <1>5, <1>6, <1>8, <2>1, <2>2, <2>3 DEF c, queue, board, vault
  <2> QED
    BY <1>1, <2>4 DEF c, queue, board
<1> QED
  BY <1>6, <1>7, <1>8

(* Every step keeps the types. *)
LEMMA StateKept ==
    ASSUME TypeOK, NEW p \in Pages, NEW s \in State(app), st' = [st EXCEPT ![p] = s]
    PROVE  st' \in [Pages -> State(app)]
BY DEF TypeOK

LEMMA TypeStep == TypeOK /\ [Next]_vars => TypeOK'
<1> SUFFICES ASSUME TypeOK, [Next]_vars PROVE TypeOK'
  OBVIOUS
<1>0. app \in AppNames
  BY AppIs
<1>1. CASE UNCHANGED vars
  BY <1>1 DEF vars, storageVars, boundVars, TypeOK
<1>2. ASSUME NEW p \in Pages, UserActs(p) PROVE TypeOK'
  <2>1. CASE app = "presence" /\ PresenceChange(p)
    <3>1. PICK s \in PresenceState :
             /\ st' = [st EXCEPT ![p] = s]
             /\ \/ s.pendingState = <<s.me>> /\ s.timers # <<>> /\ UNCHANGED link
                \/ s.pendingState = <<>> /\ SendTo(p, [type |-> "state", state |-> s.me])
      BY <2>1, ChangeIs
    <3>2. st' \in [Pages -> State(app)]
      BY <2>1, <3>1, StateIs, StateKept
    <3>3. link' \in [Pages -> Seq(Payload(app))]
      <4>1. s.me \in Nat
        BY DEF PresenceState
      <4>2. [type |-> "state", state |-> s.me] \in Payload(app)
        BY <2>1, <4>1, PayloadIs
      <4>3. CASE UNCHANGED link
        BY <4>3 DEF TypeOK
      <4> QED
        BY <3>1, <4>2, <4>3, SendType
    <3> QED
      BY <2>1, <3>2, <3>3 DEF PresenceChange, TypeOK, storageVars
  <2>2. CASE app = "echo" /\ EchoActs(p)
    <3>1. [type |-> "text", echoed |-> FALSE] \in Payload(app)
      BY <2>2, PayloadIs
    <3>2. link' \in [Pages -> Seq(Payload(app))]
      BY <2>2, <3>1, SendType DEF EchoActs
    <3> QED
      BY <2>2, <3>2 DEF EchoActs, TypeOK, storageVars
  <2>3. CASE VoiceShows(p)
    <3>1. \E s \in State(app) : st' = [st EXCEPT ![p] = s]
      <4>1. ASSUME NEW on \in BOOLEAN, app = "voice-call", st' = [st EXCEPT ![p].sending = on]
            PROVE  \E s \in State(app) : st' = [st EXCEPT ![p] = s]
        <5>1. st[p] \in VoiceState
          BY <4>1, StateIs DEF TypeOK
        <5>2. [st[p] EXCEPT !.sending = on] \in VoiceState
          BY <5>1 DEF VoiceState
        <5> QED
          BY <4>1, <5>2, StateIs
      <4>2. ASSUME NEW on \in BOOLEAN, app = "voice-call", st' = [st EXCEPT ![p].listening = on]
            PROVE  \E s \in State(app) : st' = [st EXCEPT ![p] = s]
        <5>1. st[p] \in VoiceState
          BY <4>2, StateIs DEF TypeOK
        <5>2. [st[p] EXCEPT !.listening = on] \in VoiceState
          BY <5>1 DEF VoiceState
        <5> QED
          BY <4>2, <5>2, StateIs
      <4>3. ASSUME NEW n \in 0 .. 1, app = "voice-meter", st' = [st EXCEPT ![p].level = n]
            PROVE  \E s \in State(app) : st' = [st EXCEPT ![p] = s]
        <5>1. st[p] \in MeterState
          BY <4>3, StateIs DEF TypeOK
        <5>2. [st[p] EXCEPT !.level = n] \in MeterState
          BY <5>1 DEF MeterState
        <5> QED
          BY <4>3, <5>2, StateIs
      <4> QED
        BY <2>3, <4>1, <4>2, <4>3 DEF VoiceShows
    <3>2. st' \in [Pages -> State(app)]
      BY <3>1, StateKept
    <3> QED
      BY <2>3, <3>2 DEF VoiceShows, TypeOK, storageVars
  <2> QED
    BY <1>2, <2>1, <2>2, <2>3, VaultActsType, BoardActsType DEF UserActs
<1>3. ASSUME NEW p \in Pages, Initialize(p) PROVE TypeOK'
  <2>1. [st[p] EXCEPT !.initialized = TRUE] \in State(app)
    BY <1>0, Initialized DEF TypeOK
  <2>2. st' = [st EXCEPT ![p] = [st[p] EXCEPT !.initialized = TRUE]]
    BY <1>3 DEF Initialize
  <2>3. st' \in [Pages -> State(app)]
    BY <2>1, <2>2, StateKept
  <2>4. /\ calls' \in [Pages -> Seq(CallOf(app))]
        /\ conn' \in [Pages -> {"none", "opening", "open", "failed"}]
        /\ db' = db
    <3>1. CASE app = "vault"
      <4>1. Call("list", [do |-> "listed"]) \in CallOf(app)
        BY <3>1 DEF Call, CallOf, VaultCall
      <4> QED
        BY <1>3, <3>1, <4>1, RpcType DEF Initialize
    <3>2. CASE app # "vault"
      BY <1>3, <3>2 DEF Initialize, storageVars, TypeOK
    <3> QED
      BY <3>1, <3>2
  <2> QED
    BY <1>3, <2>3, <2>4 DEF Initialize, boundVars, TypeOK
<1>4. ASSUME NEW p \in Pages, Deliver(p) PROVE TypeOK'
  <2> DEFINE m == Head(link[p])
  <2>0. /\ link \in [Pages -> Seq(Payload(app))] /\ link[p] # <<>> /\ Other(p) \in Pages /\ Other(p) # p
        /\ st[p] \in State(app)
    BY <1>4, TwoPages DEF Deliver, TypeOK
  <2>1. m \in Payload(app) /\ Tail(link[p]) \in Seq(Payload(app))
    BY <2>0
  <2>2. UNCHANGED <<app, db, conn, calls, disturbed>> /\ missed' \subseteq Pages
    BY <1>4 DEF Deliver, storageVars, TypeOK
  <2>3. st' \in [Pages -> State(app)]
    <3>1. CASE ~st[p].initialized
      BY <1>4, <3>1 DEF Deliver, TypeOK
    <3>2. CASE st[p].initialized
      <4>1. Received(st[p], m) \in State(app)
        BY <1>0, <2>0, <2>1, Arrives
      <4>2. st' = [st EXCEPT ![p] = Received(st[p], m)]
        BY <1>4, <3>2 DEF Deliver
      <4> QED
        BY <4>1, <4>2, StateKept
    <3> QED
      BY <3>1, <3>2
  <2>4. link' \in [Pages -> Seq(Payload(app))]
    <3>1. CASE link' = [link EXCEPT ![p] = Tail(link[p])]
      BY <2>0, <2>1, <3>1
    <3>2. CASE /\ app = "echo"
               /\ link' = [link EXCEPT ![p] = Tail(link[p]),
                              ![Other(p)] = Append(@, [type |-> "text", echoed |-> TRUE])]
      <4> DEFINE t == Tail(link[p])
                 u == Append(link[Other(p)], [type |-> "text", echoed |-> TRUE])
      <4>1. [type |-> "text", echoed |-> TRUE] \in Payload(app)
        BY <3>2, PayloadIs
      <4>2. t \in Seq(Payload(app)) /\ u \in Seq(Payload(app))
        BY <2>0, <2>1, <4>1
      <4>3. link' = [link EXCEPT ![p] = t, ![Other(p)] = u]
        BY <2>0, <3>2
      <4> HIDE DEF t, u
      <4> QED
        BY <2>0, <4>2, <4>3
    <3> QED
      BY <1>4, <3>1, <3>2 DEF Deliver
  <2> QED
    BY <2>2, <2>3, <2>4 DEF TypeOK
<1>5. ASSUME NEW p \in Pages, Reload(p) PROVE TypeOK'
  <2>1. st' \in [Pages -> State(app)]
    BY <1>0, <1>5, FreshIs, StateKept DEF Reload
  <2>2. link' \in [Pages -> Seq(Payload(app))] /\ calls' \in [Pages -> Seq(CallOf(app))]
        /\ conn' \in [Pages -> {"none", "opening", "open", "failed"}]
        /\ missed' \subseteq Pages /\ disturbed' \subseteq Pages /\ app' = app
    BY <1>5 DEF Reload, TypeOK
  <2>3. DOMAIN db' = Pages /\ \A q \in Pages : StoreOK(app, db'[q])
    <3>1. CASE UNCHANGED db
      BY <3>1 DEF TypeOK
    <3>2. CASE calls[p] # <<>> /\ db' = [db EXCEPT ![p] = After(@, Head(calls[p]))]
      <4>1. Head(calls[p]) \in CallOf(app) /\ StoreOK(app, db[p])
        BY <3>2 DEF TypeOK
      <4>2. StoreOK(app, After(db[p], Head(calls[p])))
        BY <4>1, StoreStays
      <4> QED
        BY <3>2, <4>2 DEF TypeOK
    <3> QED
      BY <1>5, <3>1, <3>2 DEF Reload
  <2> QED
    BY <2>1, <2>2, <2>3 DEF TypeOK
<1>6. ASSUME NEW p \in Pages, DbOpens(p) PROVE TypeOK'
  <2>1. UNCHANGED <<app, st, link, db, missed, disturbed>>
        /\ conn' \in [Pages -> {"none", "opening", "open", "failed"}]
    BY <1>6 DEF DbOpens, boundVars, TypeOK
  <2>2. calls' \in [Pages -> Seq(CallOf(app))]
    <3>1. <<>> \in Seq(CallOf(app)) /\ calls \in [Pages -> Seq(CallOf(app))]
      BY DEF TypeOK
    <3> QED
      BY <1>6, <3>1 DEF DbOpens
  <2> QED
    BY <2>1, <2>2 DEF TypeOK
<1>7. ASSUME NEW p \in Pages, StorageResult(p) PROVE TypeOK'
  <2>1. PICK i \in DOMAIN calls[p], c \in CallOf(app), s \in State(app), q \in Seq(CallOf(app)) :
           /\ UNCHANGED <<app, link, conn, missed>>
           /\ calls' = [calls EXCEPT ![p] = q]
           /\ db' = [db EXCEPT ![p] = After(@, c)] /\ st' = [st EXCEPT ![p] = s]
           /\ disturbed' \subseteq disturbed \cup {p}
    <3> DEFINE c(i) == calls[p][i]
               queue(i) == RemoveAt(calls[p], i)
               next(i) == IF app = "vault" THEN VaultGoesOn(st[p], queue(i), c(i), Resolved(db[p], c(i)))
                          ELSE WhiteboardGoesOn(st[p], queue(i), c(i), Resolved(db[p], c(i)))
    <3>1. UNCHANGED <<app, link, conn, missed>>
      BY <1>7, AnswerIs
    <3>2. PICK i \in DOMAIN calls[p] :
             /\ c(i) \in CallOf(app) /\ queue(i) \in Seq(CallOf(app))
             /\ next(i).s \in State(app) /\ next(i).queue \in Seq(CallOf(app))
             /\ db' = [db EXCEPT ![p] = After(@, c(i))]
             /\ st' = [st EXCEPT ![p] = next(i).s]
             /\ calls' = [calls EXCEPT ![p] = next(i).queue]
             /\ disturbed' = Disturbed(p, c(i), queue(i))
      BY <1>7, AnswerIs
    <3>3. disturbed' \subseteq disturbed \cup {p}
      BY <3>2 DEF Disturbed
    <3> HIDE DEF c, queue, next
    <3> QED
      BY <3>1, <3>2, <3>3
  <2>2. StoreOK(app, After(db[p], c)) /\ q \in Seq(CallOf(app))
    BY StoreStays DEF TypeOK
  <2>3. st' \in [Pages -> State(app)]
    BY <2>1 DEF TypeOK
  <2>4. DOMAIN db' = Pages /\ \A r \in Pages : StoreOK(app, db'[r])
    BY <2>1, <2>2 DEF TypeOK
  <2>5. calls' \in [Pages -> Seq(CallOf(app))] /\ disturbed' \subseteq Pages
    BY <2>1 DEF TypeOK
  <2> QED
    BY <2>1, <2>3, <2>4, <2>5 DEF TypeOK
<1>7a. ASSUME NEW p \in Pages, StorageFails(p) PROVE TypeOK'
  <2>1. PICK i \in DOMAIN calls[p] : calls' = [calls EXCEPT ![p] = RemoveAt(@, i)]
    BY <1>7a DEF StorageFails
  <2>2. calls \in [Pages -> Seq(CallOf(app))] /\ i \in 1 .. Len(calls[p])
    BY <2>1 DEF TypeOK
  <2>3. calls' \in [Pages -> Seq(CallOf(app))]
    BY <2>1, <2>2, Removed
  <2> QED
    BY <1>7a, <2>3 DEF StorageFails, TypeOK
<1>8. ASSUME NEW p \in Pages, WindowPasses(p) PROVE TypeOK'
  <2>1. st' \in [Pages -> State(app)]
    BY <1>8, WindowIs, StateIs, StateKept
  <2> QED
    BY <1>8, <2>1 DEF WindowPasses, storageVars, boundVars, TypeOK
<1>9. ASSUME NEW p \in Pages, TimerFires(p) PROVE TypeOK'
  <2>1. app = "presence" /\ st' \in [Pages -> State(app)]
    BY <1>9, TimerIs, StateIs, StateKept
  <2>2. \/ UNCHANGED link
        \/ /\ st[p].pendingState[1] \in Nat
           /\ SendTo(p, [type |-> "state", state |-> st[p].pendingState[1]])
    BY <1>9, TimerIs
  <2>3. link' \in [Pages -> Seq(Payload(app))]
    <3>1. CASE UNCHANGED link
      BY <3>1 DEF TypeOK
    <3>2. ASSUME NEW n \in Nat, SendTo(p, [type |-> "state", state |-> n])
          PROVE  link' \in [Pages -> Seq(Payload(app))]
      <4>1. [type |-> "state", state |-> n] \in Payload(app)
        BY <2>1, PayloadIs
      <4> QED
        BY <3>2, <4>1, SendType
    <3> QED
      BY <2>2, <3>1, <3>2
  <2> QED
    BY <1>9, <2>1, <2>3 DEF TimerFires, storageVars, boundVars, TypeOK
<1> QED
  BY <1>1, <1>2, <1>3, <1>4, <1>5, <1>6, <1>7, <1>7a, <1>8, <1>9 DEF Next

-----------------------------------------------------------------------------
(* What a peer's presence shows. *)

(* Which of two pages a step is about. *)
LEMMA ThisOrOther == \A p, q \in Pages : q # p => q = Other(p)
BY AddonConstants DEF Other

LEMMA LastOfTail ==
    ASSUME NEW S, NEW s \in Seq(S), s # <<>>
    PROVE  /\ Len(s) = 1 => Tail(s) = <<>> /\ s[Len(s)] = Head(s)
           /\ Len(s) # 1 => Tail(s) # <<>> /\ Tail(s)[Len(Tail(s))] = s[Len(s)]
<1>1. Len(s) \in Nat /\ Len(s) >= 1 /\ Head(s) = s[1]
  OBVIOUS
<1>2. /\ Tail(s) \in Seq(S) /\ Len(Tail(s)) = Len(s) - 1
      /\ \A i \in 1 .. Len(s) - 1 : Tail(s)[i] = s[i + 1]
  BY <1>1, HeadTailProperties
<1>3. CASE Len(s) = 1
  <2>1. Len(Tail(s)) = 0
    BY <1>2, <1>3
  <2>2. Tail(s) = <<>>
    BY <1>2, <2>1, EmptySeq
  <2> QED
    BY <1>1, <1>3, <2>2
<1>4. CASE Len(s) # 1
  <2>1. Len(s) - 1 \in 1 .. Len(s) - 1 /\ Len(s) - 1 + 1 = Len(s) /\ Len(s) - 1 # 0
    <3>1. \A n \in Nat : n >= 1 /\ n # 1 => n - 1 \in 1 .. n - 1 /\ n - 1 + 1 = n /\ n - 1 # 0
      OBVIOUS
    <3> QED
      BY <1>1, <1>4, <3>1
  <2>2. Tail(s)[Len(s) - 1] = s[Len(s)]
    BY <1>2, <2>1
  <2> QED
    BY <1>2, <1>4, <2>1, <2>2, EmptySeq
<1> QED
  BY <1>3, <1>4

LEMMA PresenceInit == Init => PresenceInv
<1> SUFFICES ASSUME Init, app = "presence", NEW p \in Pages
             PROVE  LET s == st[Other(p)] IN s.pendingState = <<>> /\ LastSent(p) = s.me
  BY DEF PresenceInv
<1>1. Other(p) \in Pages
  BY TwoPages
<1>2. \A q \in Pages : st[q] = Fresh("presence") /\ link[q] = <<>>
  BY DEF Init
<1>3. Fresh("presence").pendingState = <<>> /\ Fresh("presence").me = 0 /\ Fresh("presence").peer = 0
  BY DEF Fresh
<1> QED
  BY <1>1, <1>2, <1>3 DEF LastSent

(* A step of page p that sends nothing, or sends its state last. *)
LEMMA PresenceSends ==
    ASSUME TypeOK, PresenceInv, app = "presence", missed = {}, missed' = missed, app' = app,
           NEW p \in Pages, NEW s \in PresenceState, st' = [st EXCEPT ![p] = s], s.peer = st[p].peer,
           \/ /\ UNCHANGED link /\ s.me = st[p].me /\ s.pendingState = st[p].pendingState
              /\ s.timers = st[p].timers \/ s.pendingState = <<>>
           \/ UNCHANGED link /\ s.pendingState = <<s.me>> /\ s.timers # <<>>
           \/ s.pendingState = <<>> /\ SendTo(p, [type |-> "state", state |-> s.me])
    PROVE  PresenceInv'
<1> DEFINE o == Other(p)
<1>0. /\ o \in Pages /\ o # p /\ Other(o) = p
      /\ \A q \in Pages : q # p => q = o
      /\ link \in [Pages -> Seq(Payload(app))] /\ DOMAIN st = Pages
  BY TwoPages, ThisOrOther DEF TypeOK
<1>1. st'[p] = s /\ st'[o] = st[o]
  BY <1>0
<1> DEFINE Good(q, r, last) == IF r.pendingState = <<>> THEN last = r.me
                               ELSE r.pendingState = <<r.me>> /\ r.timers # <<>>
<1>2. \A q \in Pages : Good(q, st[Other(q)], LastSent(q))
  BY DEF PresenceInv
<1>3. Good(p, st[o], LastSent(p)) /\ Good(o, st[p], LastSent(o))
  BY <1>0, <1>2
<1>4. CASE /\ UNCHANGED link
           /\ \/ /\ s.me = st[p].me /\ s.pendingState = st[p].pendingState
                 /\ s.timers = st[p].timers \/ s.pendingState = <<>>
              \/ s.pendingState = <<s.me>> /\ s.timers # <<>>
  <2>1. LastSent(p)' = LastSent(p) /\ LastSent(o)' = LastSent(o)
    BY <1>1, <1>4 DEF LastSent
  <2>2. Good(p, st'[o], LastSent(p)')
    BY <1>1, <1>3, <2>1
  <2>3. Good(o, st'[p], LastSent(o)')
    BY <1>1, <1>3, <1>4, <2>1
  <2> QED
    BY <1>0, <2>2, <2>3 DEF PresenceInv
<1>5. CASE s.pendingState = <<>> /\ SendTo(p, [type |-> "state", state |-> s.me])
  <2> DEFINE m == [type |-> "state", state |-> s.me]
  <2>1. link'[p] = link[p] /\ link'[o] = Append(link[o], m)
    BY <1>0, <1>5 DEF SendTo
  <2>2. link[o] \in Seq(Payload(app)) /\ m \in Payload(app)
    BY <1>0, PayloadIs DEF PresenceState
  <2>3. link'[o] # <<>> /\ link'[o][Len(link'[o])] = m
    <3> HIDE DEF m
    <3> QED
      BY <2>1, <2>2
  <2>4. LastSent(o)' = s.me
    BY <2>3 DEF LastSent
  <2>5. LastSent(p)' = LastSent(p)
    BY <1>1, <2>1 DEF LastSent
  <2>6. Good(p, st'[o], LastSent(p)')
    BY <1>1, <1>3, <2>5
  <2>7. Good(o, st'[p], LastSent(o)')
    BY <1>1, <1>5, <2>4
  <2> QED
    BY <1>0, <2>6, <2>7 DEF PresenceInv
<1> QED
  BY <1>4, <1>5

LEMMA PresenceStep == TypeOK /\ TypeOK' /\ PresenceInv /\ [Next]_vars => PresenceInv'
<1> SUFFICES ASSUME TypeOK, TypeOK', PresenceInv, [Next]_vars, app' = "presence", missed' = {}
             PROVE  PresenceInv'
  BY DEF PresenceInv
<1>1. app' = app /\ missed \subseteq missed'
  BY ZenonT(30) DEF Next, UserActs, VaultActs, WhiteboardActs, PresenceChange, EchoActs, VoiceShows, Initialize,
     Deliver, Reload, DbOpens, StorageResult, StorageFails, WindowPasses, TimerFires, vars, boundVars
<1>0. app = "presence" /\ missed = {} /\ st \in [Pages -> PresenceState]
      /\ link \in [Pages -> Seq(Payload(app))]
  BY <1>1, StateIs DEF TypeOK
<1>2. CASE UNCHANGED <<st, link>>
  BY <1>0, <1>1, <1>2 DEF PresenceInv, LastSent
<1>3. ASSUME NEW p \in Pages, UserActs(p) PROVE PresenceInv'
  <2>1. PresenceChange(p)
    BY <1>0, <1>3 DEF UserActs, VoiceShows
  <2>2. PICK s \in PresenceState :
           /\ st' = [st EXCEPT ![p] = s]
           /\ s.me = st[p].me + 1 /\ s.peer = st[p].peer
           /\ \/ s.pendingState = <<s.me>> /\ s.timers # <<>> /\ UNCHANGED link
              \/ s.pendingState = <<>> /\ SendTo(p, [type |-> "state", state |-> s.me])
    BY <1>0, <2>1, ChangeIs
  <2> QED
    BY <1>0, <1>1, <2>2, PresenceSends
<1>4. ASSUME NEW p \in Pages, WindowPasses(p) PROVE PresenceInv'
  BY <1>0, <1>1, <1>4, WindowIs, PresenceSends
<1>5. ASSUME NEW p \in Pages, TimerFires(p) PROVE PresenceInv'
  <2>1. PICK s \in PresenceState :
           /\ st' = [st EXCEPT ![p] = s]
           /\ s.me = st[p].me /\ s.peer = st[p].peer /\ s.pendingState = <<>>
           /\ IF st[p].pendingState = <<>> THEN UNCHANGED link
              ELSE SendTo(p, [type |-> "state", state |-> st[p].pendingState[1]])
    BY <1>5, TimerIs
  <2>2. CASE st[p].pendingState = <<>>
    BY <1>0, <1>1, <2>1, <2>2, PresenceSends
  <2>3. CASE st[p].pendingState # <<>>
    <3>1. st[p].pendingState = <<st[p].me>>
      BY <1>0, <2>3, TwoPages DEF PresenceInv
    <3>2. st[p].pendingState[1] = s.me
      BY <2>1, <3>1
    <3>3. SendTo(p, [type |-> "state", state |-> s.me])
      BY <2>1, <2>3, <3>2
    <3> QED
      BY <1>0, <1>1, <2>1, <3>3, PresenceSends
  <2> QED
    BY <2>2, <2>3
<1>6. ASSUME NEW p \in Pages, Initialize(p) PROVE PresenceInv'
  <2> DEFINE s == [st[p] EXCEPT !.initialized = TRUE]
  <2>1. st' = [st EXCEPT ![p] = s] /\ UNCHANGED link
    BY <1>6 DEF Initialize
  <2>2. s \in PresenceState /\ s.peer = st[p].peer /\ s.me = st[p].me
        /\ s.pendingState = st[p].pendingState /\ s.timers = st[p].timers
    BY <1>0 DEF PresenceState
  <2> HIDE DEF s
  <2> QED
    BY <1>0, <1>1, <2>1, <2>2, PresenceSends
<1>7. ASSUME NEW p \in Pages, Deliver(p) PROVE PresenceInv'
  <2> DEFINE m == Head(link[p])
             o == Other(p)
             s == Received(st[p], m)
  <2>1. link[p] \in Seq(Payload(app)) /\ link[p] # <<>>
    BY <1>0, <1>7 DEF Deliver
  <2>2. st[p].initialized
    BY <1>0, <1>7 DEF Deliver
  <2>3. /\ st' = [st EXCEPT ![p] = s]
        /\ link' = [link EXCEPT ![p] = Tail(link[p])]
    BY <1>0, <1>7, <2>2 DEF Deliver
  <2>4. m \in Payload(app) /\ m.state \in Nat
    <3>1. m \in Payload(app)
      BY <2>1
    <3>2. m \in [type : {"state"}, state : Nat]
      BY <1>0, <3>1, PayloadIs, Zenon
    <3> QED
      BY <3>1, <3>2
  <2>5. s \in PresenceState /\ s.peer = m.state /\ s.me = st[p].me
        /\ s.pendingState = st[p].pendingState /\ s.timers = st[p].timers
    <3> HIDE DEF m
    <3>1. s = [st[p] EXCEPT !.peer = m.state]
      BY <1>0 DEF Received
    <3> QED
      BY <1>0, <2>4, <3>1 DEF PresenceState
  <2>6. o \in Pages /\ o # p /\ Other(o) = p /\ \A q \in Pages : q # p => q = o
    BY TwoPages, ThisOrOther
  <2>7. st'[p] = s /\ st'[o] = st[o] /\ link'[o] = link[o] /\ link'[p] = Tail(link[p])
    BY <1>0, <2>3, <2>6
  <2>8. LastSent(o)' = LastSent(o)
    BY <2>7 DEF LastSent
  <2>9. LastSent(p)' = LastSent(p)
    <3>1. CASE Len(link[p]) = 1
      <4>1. Tail(link[p]) = <<>> /\ link[p][Len(link[p])] = m
        BY <2>1, <3>1, LastOfTail
      <4>2. link'[p] = <<>>
        BY <2>7, <4>1
      <4>3. LastSent(p)' = m.state
        BY <2>5, <2>7, <4>2 DEF LastSent
      <4>4. LastSent(p) = m.state
        BY <2>1, <4>1 DEF LastSent
      <4> QED
        BY <4>3, <4>4
    <3>2. CASE Len(link[p]) # 1
      <4>1. Tail(link[p]) # <<>> /\ Tail(link[p])[Len(Tail(link[p]))] = link[p][Len(link[p])]
        BY <2>1, <3>2, LastOfTail
      <4> QED
        BY <2>1, <2>7, <4>1 DEF LastSent
    <3> QED
      BY <3>1, <3>2
  <2> HIDE DEF s, m, o
  <2>10. \A q \in Pages :
            LET r == st[Other(q)] IN
            IF r.pendingState = <<>> THEN LastSent(q) = r.me
            ELSE r.pendingState = <<r.me>> /\ r.timers # <<>>
    BY <1>0 DEF PresenceInv
  <2>11. \A q \in Pages : q = p \/ q = o
    BY <2>6
  <2>12. Other(p) = o /\ Other(o) = p
    BY <2>6 DEF o
  <2>13. LET r == st'[o] IN
         IF r.pendingState = <<>> THEN LastSent(p)' = r.me
         ELSE r.pendingState = <<r.me>> /\ r.timers # <<>>
    BY <2>7, <2>9, <2>10, <2>12
  <2>14. LET r == st'[p] IN
         IF r.pendingState = <<>> THEN LastSent(o)' = r.me
         ELSE r.pendingState = <<r.me>> /\ r.timers # <<>>
    BY <2>5, <2>6, <2>7, <2>8, <2>10, <2>12
  <2> QED
    BY <2>11, <2>12, <2>13, <2>14 DEF PresenceInv
<1>8. ASSUME NEW p \in Pages, Reload(p) PROVE FALSE
  BY <1>8 DEF Reload
<1>9. ASSUME NEW p \in Pages, StorageResult(p) PROVE FALSE
  BY <1>0, <1>9, AnswerIs
<1>10. ASSUME NEW p \in Pages, StorageFails(p) PROVE UNCHANGED <<st, link>>
  BY <1>10 DEF StorageFails
<1> QED
  BY <1>2, <1>3, <1>4, <1>5, <1>6, <1>7, <1>8, <1>9, <1>10 DEF Next, DbOpens, vars

-----------------------------------------------------------------------------
(* What the vault lists. *)

(* The row that is added is of a file that was left. *)
LEMMA ShowsMore ==
    ASSUME NEW s, StoreOK("vault", s), NEW list \in Seq(Key \X Contents), NEW k, NEW rest,
           k \notin rest, Shows(list, s, {k} \cup rest), NEW x, x = <<k, s[NamespaceKey(VaultId, k)]>>
    PROVE  Shows(Append(list, x), s, rest)
<1> DEFINE row(j) == <<j, s[NamespaceKey(VaultId, j)]>>
           left == ListedKeys(s, VaultId) \ ({k} \cup rest)
<1>1. /\ k \in ListedKeys(s, VaultId) /\ rest \subseteq ListedKeys(s, VaultId)
      /\ IsInjective(list) /\ ToSet(list) = {row(j) : j \in left}
  BY DEF Shows
<1>2. x \notin ToSet(list)
  <2>1. \A j \in left : row(j) # x
    OBVIOUS
  <2> HIDE DEF row
  <2> QED
    BY <1>1, <2>1
<1>3. /\ Append(list, x) \in Seq((Key \X Contents) \cup {x}) /\ Len(Append(list, x)) = Len(list) + 1
      /\ Append(list, x)[Len(list) + 1] = x /\ Len(list) \in Nat
      /\ \A i \in 1 .. Len(list) : Append(list, x)[i] = list[i] /\ list[i] # x
  <2>1. \A i \in 1 .. Len(list) : list[i] \in ToSet(list)
    BY DEF ToSet
  <2>2. list \in Seq((Key \X Contents) \cup {x})
    BY SeqMonotonic
  <2> QED
    BY <1>2, <2>1, <2>2, SMTT(30)
<1> DEFINE more == Append(list, x)
<1> HIDE DEF more
<1>4. DOMAIN more = 1 .. Len(list) + 1 /\ DOMAIN list = 1 .. Len(list)
  BY <1>3 DEF more
<1>5. IsInjective(more)
  <2> SUFFICES ASSUME NEW i \in 1 .. Len(list) + 1, NEW j \in 1 .. Len(list) + 1, more[i] = more[j]
               PROVE  i = j
    BY <1>4 DEF IsInjective
  <2>1. CASE i = Len(list) + 1 /\ j = Len(list) + 1
    BY <2>1
  <2>2. CASE i \in 1 .. Len(list) /\ j \in 1 .. Len(list)
    BY <1>1, <1>3, <1>4, <2>2 DEF IsInjective, more
  <2>3. CASE i = Len(list) + 1 /\ j \in 1 .. Len(list)
    BY <1>3, <2>3 DEF more
  <2>4. CASE j = Len(list) + 1 /\ i \in 1 .. Len(list)
    BY <1>3, <2>4 DEF more
  <2> QED
    BY <1>3, <2>1, <2>2, <2>3, <2>4
<1>6. ToSet(more) = ToSet(list) \cup {x}
  <2>1. \A i \in 1 .. Len(list) + 1 : i = Len(list) + 1 \/ i \in 1 .. Len(list)
    BY <1>3
  <2>2. Len(list) + 1 \in 1 .. Len(list) + 1 /\ \A i \in 1 .. Len(list) : i \in 1 .. Len(list) + 1
    BY <1>3
  <2>3. \A i \in DOMAIN more : more[i] \in ToSet(list) \cup {x}
    BY <1>3, <1>4, <2>1 DEF ToSet, more
  <2>4. \A i \in DOMAIN list : list[i] = more[i] /\ i \in DOMAIN more
    BY <1>3, <1>4, <2>2 DEF more
  <2>5. x = more[Len(list) + 1] /\ Len(list) + 1 \in DOMAIN more
    BY <1>3, <1>4, <2>2 DEF more
  <2> QED
    BY <2>3, <2>4, <2>5 DEF ToSet
<1>7. ListedKeys(s, VaultId) \ rest = left \cup {k}
  BY <1>1
<1>8. ToSet(more) = {row(j) : j \in ListedKeys(s, VaultId) \ rest}
  <2>1. x = row(k)
    OBVIOUS
  <2> HIDE DEF row, left
  <2> QED
    BY <1>1, <1>6, <1>7, <2>1
<1> QED
  BY <1>1, <1>5, <1>8 DEF Shows, more

LEMMA ShowsNone ==
    ASSUME NEW s PROVE Shows(<<>>, s, ListedKeys(s, VaultId))
<1>1. DOMAIN <<>> = {}
  OBVIOUS
<1>2. IsInjective(<<>>) /\ ToSet(<<>>) = {}
  BY <1>1 DEF IsInjective, ToSet
<1> QED
  BY <1>2 DEF Shows

(* A call more, of a write or of a refresh. *)
LEMMA RefreshesMore ==
    ASSUME NEW q \in Seq(VaultCall), NEW c \in VaultCall
    PROVE  /\ c.then.do = "refresh" => Refreshes(Append(q, c)) = Refreshes(q)
           /\ c.then.do # "refresh" => Refreshes(Append(q, c)) = Refreshes(q) \cup {Len(q) + 1}
           /\ \A i \in Refreshes(q) : Append(q, c)[i] = q[i]
           /\ Append(q, c)[Len(q) + 1] = c
<1> DEFINE a == Append(q, c)
<1>1. /\ Len(q) \in Nat /\ DOMAIN q = 1 .. Len(q) /\ DOMAIN a = 1 .. Len(q) + 1
      /\ a[Len(q) + 1] = c /\ \A i \in 1 .. Len(q) : a[i] = q[i]
  OBVIOUS
<1>2. \A i : i \in 1 .. Len(q) + 1 <=> i = Len(q) + 1 \/ i \in 1 .. Len(q)
  BY <1>1
<1>3. c.then.do \in {"refresh", "listed", "row"}
  BY VaultCallIs
<1> HIDE DEF a
<1>4. Len(q) + 1 \notin 1 .. Len(q)
  BY <1>1
<1>5. Refreshes(a) = {i \in 1 .. Len(q) + 1 : a[i].then.do \in {"listed", "row"}}
      /\ Refreshes(q) = {i \in 1 .. Len(q) : q[i].then.do \in {"listed", "row"}}
  BY <1>1 DEF Refreshes
<1>6. c.then.do = "refresh" => Refreshes(a) = Refreshes(q)
  BY <1>1, <1>2, <1>5
<1>7. c.then.do # "refresh" => Refreshes(a) = Refreshes(q) \cup {Len(q) + 1}
  BY <1>1, <1>2, <1>3, <1>5
<1> QED
  BY <1>1, <1>5, <1>6, <1>7 DEF a

LEMMA RefreshedMore ==
    ASSUME NEW q \in Seq(VaultCall), NEW c \in VaultCall, c.then.do = "refresh", NEW list, NEW s,
           Refreshed(q, list, s)
    PROVE  Refreshed(Append(q, c), list, s) /\ Refreshes(Append(q, c)) = Refreshes(q)
<1> DEFINE a == Append(q, c)
<1>1. Refreshes(a) = Refreshes(q) /\ \A i \in Refreshes(q) : a[i] = q[i]
  BY RefreshesMore
<1> HIDE DEF a
<1>2. Refreshed(a, list, s)
  BY <1>1 DEF Refreshed
<1> QED
  BY <1>1, <1>2 DEF a

(* A call less. *)
LEMMA RefreshesLess ==
    ASSUME NEW q \in Seq(VaultCall), NEW i \in 1 .. Len(q), NEW list, NEW s, Refreshed(q, list, s)
    PROVE  LET r == RemoveAt(q, i) IN
           /\ i \notin Refreshes(q) => /\ Refreshed(r, list, s)
                                       /\ Refreshes(r) = {} => Refreshes(q) = {}
           /\ i \in Refreshes(q) => Refreshes(r) = {}
<1> DEFINE r == RemoveAt(q, i)
           up(l) == IF l < i THEN l ELSE l + 1
           down(j) == IF j < i THEN j ELSE j - 1
<1>0. Len(q) \in Nat /\ i \in Nat /\ 1 <= i /\ i <= Len(q) /\ DOMAIN q = 1 .. Len(q)
  OBVIOUS
<1>1. Len(r) = Len(q) - 1 /\ r \in Seq(VaultCall) /\ DOMAIN r = 1 .. Len(q) - 1
      /\ \A l \in 1 .. Len(q) - 1 : r[l] = q[up(l)]
  <2>1. Len(r) = Len(q) - 1 /\ r \in Seq(VaultCall)
        /\ \A l \in 1 .. Len(q) - 1 : r[l] = IF l < i THEN q[l] ELSE q[l + 1]
    BY Removed
  <2> HIDE DEF r
  <2> QED
    BY <2>1
<1>2. \A l \in 1 .. Len(q) - 1 : up(l) \in 1 .. Len(q) /\ up(l) # i
  BY <1>0
<1>3. \A l, m \in 1 .. Len(q) - 1 : up(l) = up(m) => l = m
  BY <1>0
<1>4. \A j \in 1 .. Len(q) : j # i => down(j) \in 1 .. Len(q) - 1 /\ up(down(j)) = j
  BY <1>0
<1> HIDE DEF r, up, down
<1>5. \A l \in Refreshes(r) : l \in 1 .. Len(q) - 1 /\ up(l) \in Refreshes(q) /\ r[l] = q[up(l)]
  BY <1>0, <1>1, <1>2 DEF Refreshes
<1>6. \A j \in Refreshes(q) : j # i => down(j) \in Refreshes(r)
  BY <1>0, <1>1, <1>4 DEF Refreshes
<1>7. Refreshed(r, list, s)
  BY <1>3, <1>5 DEF Refreshed
<1>8. i \in Refreshes(q) => Refreshes(r) = {}
  BY <1>2, <1>5 DEF Refreshed
<1>9. i \notin Refreshes(q) /\ Refreshes(r) = {} => Refreshes(q) = {}
  BY <1>6
<1> QED
  BY <1>7, <1>8, <1>9 DEF r

(* The next row, of what is left. *)
LEMMA RefreshedRows ==
    ASSUME NEW q \in Seq(VaultCall), Refreshes(q) = {}, NEW names \in SUBSET Key,
           NEW list, NEW s, Shows(list, s, names)
    PROVE  LET r == Rows(q, names) IN
           /\ Refreshed(r, list, s)
           /\ Refreshes(r) = {} => Shows(list, s, {})
<1> DEFINE r == Rows(q, names)
<1>1. CASE names = {}
  <2>1. r = q
    BY <1>1, RowsAre
  <2> QED
    BY <1>1, <2>1 DEF Refreshed
<1>2. CASE names # {}
  <2>1. PICK n \in names : r = Append(q, CallOn("get", n, [do |-> "row", rest |-> names \ {n}]))
    BY <1>2, RowsAre
  <2> DEFINE c == CallOn("get", n, [do |-> "row", rest |-> names \ {n}])
  <2>2. c \in VaultCall /\ c.then.do = "row" /\ c.key = n /\ c.then.rest = names \ {n}
    BY DEF CallOn, VaultCall
  <2>3. r = Append(q, c)
    BY <2>1
  <2> HIDE DEF r, c
  <2>4. Refreshes(r) = {Len(q) + 1} /\ r[Len(q) + 1] = c
    BY <2>2, <2>3, RefreshesMore
  <2>5. {n} \cup (names \ {n}) = names
    OBVIOUS
  <2>6. n \notin names \ {n}
    OBVIOUS
  <2>7. Refreshed(r, list, s)
    BY <2>2, <2>4, <2>5, <2>6 DEF Refreshed
  <2> QED
    BY <2>4, <2>7 DEF r
<1> QED
  BY <1>1, <1>2

LEMMA VaultInit == Init => VaultInv
<1> SUFFICES ASSUME Init, app = "vault", NEW p \in Pages PROVE PageOK(p)
  BY DEF VaultInv
<1>1. st[p] = Fresh("vault") /\ conn[p] = "none" /\ calls[p] = <<>>
  BY DEF Init
<1>2. ~ Fresh("vault").initialized /\ Fresh("vault").list = <<>> /\ Fresh("vault").inbox = {}
  BY DEF Fresh
<1> QED
  BY <1>1, <1>2 DEF PageOK, Quiet

(* A page that a step leaves alone. *)
LEMMA PageKept ==
    ASSUME NEW p \in Pages, PageOK(p), st'[p] = st[p], calls'[p] = calls[p], db'[p] = db[p],
           conn'[p] = conn[p] \/ (st[p].initialized /\ (conn'[p] = "failed" <=> conn[p] = "failed")),
           p \in disturbed => p \in disturbed'
    PROVE  PageOK(p)'
BY DEF PageOK, Quiet

LEMMA VaultActsKeep ==
    ASSUME TypeOK, app = "vault", NEW p \in Pages, PageOK(p), VaultActs(p)
    PROVE  PageOK(p)' /\ \A q \in Pages : q # p => calls'[q] = calls[q] /\ conn'[q] = conn[q]
<1>0. /\ st' = st /\ db' = db /\ disturbed' = disturbed
      /\ calls \in [Pages -> Seq(VaultCall)] /\ DOMAIN conn = Pages /\ st[p] \in VaultState
  BY StateIs DEF VaultActs, Rpc, storageVars, TypeOK, CallOf
<1>1. st[p].initialized
  BY DEF VaultActs, PageOK, Quiet
<1>2. CASE UNCHANGED storageVars
  BY <1>0, <1>2, PageKept DEF storageVars
<1>3. ASSUME NEW c \in VaultCall, c.then.do = "refresh", Rpc(p, c)
      PROVE  PageOK(p)' /\ \A q \in Pages : q # p => calls'[q] = calls[q] /\ conn'[q] = conn[q]
  <2>1. \A q \in Pages : q # p => calls'[q] = calls[q] /\ conn'[q] = conn[q]
    BY <1>0, <1>3 DEF Rpc
  <2>2. conn'[p] = "failed" <=> conn[p] = "failed"
    BY <1>0, <1>3 DEF Rpc
  <2>3. CASE calls'[p] = calls[p]
    BY <1>0, <1>1, <2>1, <2>2, <2>3, PageKept
  <2>4. CASE calls'[p] = Append(calls[p], c)
    <3>1. ASSUME p \notin disturbed
          PROVE  /\ Refreshed(calls'[p], st[p].list, db[p])
                 /\ Refreshes(calls'[p]) = Refreshes(calls[p])
      <4>1. Refreshed(calls[p], st[p].list, db[p])
        BY <1>1, <3>1 DEF PageOK
      <4> QED
        BY <1>0, <1>3, <2>4, <4>1, RefreshedMore
    <3> QED
      BY <1>0, <1>1, <2>1, <2>2, <3>1 DEF PageOK
  <2>5. calls'[p] = calls[p] \/ calls'[p] = Append(calls[p], c)
    BY <1>0, <1>3 DEF Rpc, Asked
  <2> QED
    BY <2>3, <2>4, <2>5
<1>4. \A i \in DOMAIN st[p].list : st[p].list[i] \in Key \X Contents
  BY <1>0 DEF VaultState
<1>5. \A f \in st[p].inbox : f \in Key \X Contents
  BY <1>0 DEF VaultState
<1>6. \A n \in Key, v \in Contents :
         LET c == CallPut(n, v, [do |-> "refresh"]) IN c \in VaultCall /\ c.then.do = "refresh"
  BY DEF CallPut, VaultCall
<1>7. \A n \in Key :
         LET c == CallOn("delete", n, [do |-> "refresh"]) IN c \in VaultCall /\ c.then.do = "refresh"
  BY DEF CallOn, VaultCall
<1>8. \A f \in Key \X Contents : f[1] \in Key /\ f[2] \in Contents
  OBVIOUS
<1>9. UNCHANGED storageVars \/ \E c \in VaultCall : c.then.do = "refresh" /\ Rpc(p, c)
  <2>1. CASE \E n \in Names, v \in Contents : Rpc(p, CallPut(n, v, [do |-> "refresh"]))
    BY <1>6, <2>1, Ids
  <2>2. CASE \E i \in DOMAIN st[p].list :
                Rpc(p, CallOn("delete", st[p].list[i][1], [do |-> "refresh"]))
    BY <1>4, <1>7, <1>8, <2>2
  <2>3. CASE UNCHANGED storageVars
    BY <2>3
  <2>4. CASE \E f \in st[p].inbox : Rpc(p, CallPut(f[1], f[2], [do |-> "refresh"]))
    BY <1>5, <1>6, <1>8, <2>4
  <2> QED
    BY <2>1, <2>2, <2>3, <2>4 DEF VaultActs
<1> QED
  BY <1>2, <1>3, <1>9 DEF storageVars

(* An answer, on a page whose list is in order or put in order by it. *)
LEMMA AnswerKeeps ==
    ASSUME TypeOK, app = "vault", NEW p \in Pages, PageOK(p), StorageResult(p)
    PROVE  PageOK(p)'
<1> DEFINE c(i) == calls[p][i]
           queue(i) == RemoveAt(calls[p], i)
           answer(i) == Resolved(db[p], c(i))
           next(i) == VaultGoesOn(st[p], queue(i), c(i), answer(i))
<1>1. conn[p] = "open" /\ conn' = conn
  BY AnswerIs
<1>2. PICK i \in DOMAIN calls[p] :
         /\ c(i) \in CallOf(app) /\ queue(i) \in Seq(CallOf(app))
         /\ next(i).s \in State(app) /\ next(i).queue \in Seq(CallOf(app))
         /\ db' = [db EXCEPT ![p] = After(@, c(i))]
         /\ st' = [st EXCEPT ![p] = next(i).s]
         /\ calls' = [calls EXCEPT ![p] = next(i).queue]
         /\ disturbed' = Disturbed(p, c(i), queue(i))
  BY AnswerIs
<1> DEFINE k == c(i)
           q == queue(i)
           a == answer(i)
           n == next(i)
<1>3. /\ st[p].initialized /\ DOMAIN st = Pages /\ DOMAIN db = Pages /\ DOMAIN calls = Pages
      /\ st[p] \in VaultState /\ StoreOK("vault", db[p])
      /\ calls[p] \in Seq(VaultCall) /\ i \in 1 .. Len(calls[p]) /\ k \in VaultCall /\ q \in Seq(VaultCall)
  BY <1>1, <1>2, StateIs DEF PageOK, Quiet, TypeOK, CallOf
<1>4. /\ k.op \in {"put", "delete", "list", "get"}
      /\ k.op \in {"put", "delete", "get"} => k.key \in Key
      /\ k.then.do \in {"refresh", "listed", "row"}
      /\ k.then.do = "refresh" <=> k.op \in {"put", "delete"}
      /\ k.then.do = "listed" <=> k.op = "list"
      /\ k.then.do = "row" <=> k.op = "get"
      /\ k.then.do = "row" => k.then.rest \subseteq Key
  BY <1>3, VaultCallIs
<1>5. i \in Refreshes(calls[p]) <=> k.then.do \in {"listed", "row"}
  BY <1>3 DEF Refreshes
<1>6. st[p].list \in Seq(Key \X Contents) /\ k \in CallOf("vault")
  BY <1>3 DEF VaultState, CallOf
<1> SUFFICES ASSUME p \notin disturbed', st'[p].initialized
             PROVE  /\ Refreshed(calls'[p], st'[p].list, db'[p])
                    /\ Refreshes(calls'[p]) = {} => Shows(st'[p].list, db'[p], {})
  <2>1. st'[p].initialized
    <3>1. CASE st' = st
      BY <1>3, <3>1
    <3>2. CASE st' = [st EXCEPT ![p] = n.s]
      <4>1. n.s.initialized = st[p].initialized
        <5>1. VaultGoesOn(st[p], q, k, a).s.initialized = st[p].initialized
          BY <1>3, <1>4 DEF VaultGoesOn, VaultState
        <5> QED
          BY <5>1
      <4> QED
        BY <1>3, <3>2, <4>1
    <3> QED
      BY <1>2, <3>1, <3>2
  <2> QED
    BY <2>1 DEF PageOK
<1>7. ASSUME p \notin disturbed
      PROVE  /\ Refreshed(calls[p], st[p].list, db[p])
             /\ Refreshes(calls[p]) = {} => Shows(st[p].list, db[p], {})
  BY <1>1, <1>3, <1>7 DEF PageOK
<1>8. ASSUME p \notin disturbed
      PROVE  /\ i \notin Refreshes(calls[p]) => /\ Refreshed(q, st[p].list, db[p])
                                                /\ Refreshes(q) = {} => Refreshes(calls[p]) = {}
             /\ i \in Refreshes(calls[p]) => Refreshes(q) = {}
  BY <1>3, <1>7, <1>8, RefreshesLess
<1>10. CASE /\ db' = [db EXCEPT ![p] = After(@, k)]
            /\ st' = [st EXCEPT ![p] = n.s]
            /\ calls' = [calls EXCEPT ![p] = n.queue]
            /\ disturbed' = Disturbed(p, k, q)
  <2>a. k.then.do # "listed" => p \notin disturbed
    BY <1>10 DEF Disturbed
  <2>1. /\ st'[p] = n.s /\ calls'[p] = n.queue /\ db'[p] = After(db[p], k)
    <3> HIDE DEF n, k
    <3> QED
      BY <1>3, <1>10
  <2>2. CASE k.then.do = "refresh"
    <3> DEFINE l == Call("list", [do |-> "listed"])
    <3>1. l \in VaultCall /\ l.then.do = "listed" /\ ValidCall(l)
      BY DEF Call, VaultCall, ValidCall
    <3>2. n.queue = Append(q, l)
      <4>1. n = [s |-> st[p], queue |-> Asked(q, l)]
        BY <2>2 DEF VaultGoesOn
      <4>2. n.queue = Asked(q, l)
        BY <4>1
      <4> QED
        BY <3>1, <4>2 DEF Asked
    <3>3. ~ Refreshing(q)
      BY <1>10, <2>2 DEF Disturbed
    <3>4. Refreshes(q) = {}
      <4> HIDE DEF q
      <4> QED
        BY <3>3 DEF Refreshing, Refreshes
    <3> HIDE DEF l, q, n
    <3>5. Refreshes(Append(q, l)) = {Len(q) + 1} /\ Append(q, l)[Len(q) + 1] = l
      BY <1>3, <3>1, <3>4, RefreshesMore
    <3>6. Refreshes(calls'[p]) = {Len(q) + 1} /\ calls'[p][Len(q) + 1] = l
      BY <2>1, <3>2, <3>5
    <3> QED
      BY <3>1, <3>6 DEF Refreshed
  <2>3. CASE k.then.do = "listed"
    <3>1. a = ListedKeys(db[p], VaultId) /\ After(db[p], k) = db[p]
      BY <1>3, <1>4, <1>6, <2>3, Answers DEF After
    <3>2. a \in SUBSET Key
      BY <1>3, <3>1, Listed
    <3>3. n = [s |-> [st[p] EXCEPT !.list = Cleared(@)], queue |-> Rows(q, a)]
      BY <2>3 DEF VaultGoesOn
    <3>4. n.s.list = <<>> /\ n.queue = Rows(q, a)
      <4>1. n.queue = Rows(q, a)
        BY <3>3
      <4>2. n.s = [st[p] EXCEPT !.list = Cleared(@)]
        BY <3>3
      <4>3. n.s.list = Cleared(st[p].list)
        <5> HIDE DEF n
        <5> QED
          BY <1>3, <4>2 DEF VaultState
      <4> QED
        BY <4>1, <4>3 DEF Cleared
    <3>5. Refreshes(q) = {}
      <4>1. CASE Refreshing(q)
        BY <1>5, <1>8, <1>10, <2>3, <4>1 DEF Disturbed
      <4>2. CASE ~ Refreshing(q)
        <5> HIDE DEF q
        <5> QED
          BY <4>2 DEF Refreshing, Refreshes
      <4> QED
        BY <4>1, <4>2
    <3> HIDE DEF a, n, q
    <3>6. Shows(<<>>, db[p], a)
      BY <3>1, ShowsNone
    <3>7. /\ Refreshed(Rows(q, a), <<>>, db[p])
          /\ Refreshes(Rows(q, a)) = {} => Shows(<<>>, db[p], {})
      BY <1>3, <3>2, <3>5, <3>6, RefreshedRows
    <3> QED
      BY <2>1, <3>1, <3>4, <3>7
  <2>4. CASE k.then.do = "row"
    <3> DEFINE x == <<k.key, db[p][NamespaceKey(VaultId, k.key)]>>
               rest == k.then.rest
               list == st[p].list
    <3>1. i \in Refreshes(calls[p]) /\ Refreshes(q) = {}
      BY <1>5, <1>8, <2>a, <2>4
    <3>2. k.key \notin rest /\ Shows(list, db[p], {k.key} \cup rest)
      BY <1>7, <2>a, <2>4, <3>1 DEF Refreshed
    <3>3. k.key \in ListedKeys(db[p], VaultId)
      BY <3>2 DEF Shows
    <3>4. NamespaceKey(VaultId, k.key) \in DOMAIN db[p]
      BY <1>3, <3>3, Listed
    <3>5. a = {db[p][NamespaceKey(VaultId, k.key)]} /\ After(db[p], k) = db[p]
      BY <1>3, <1>4, <1>6, <2>4, <3>4, Answers DEF After
    <3>6. SetToSeq({<<k.key, v>> : v \in a}) = <<x>>
      <4>1. SetToSeq({<<k.key, v>> : v \in a}) = << <<k.key, db[p][NamespaceKey(VaultId, k.key)]>> >>
        BY <3>5, RowAdded, Zenon
      <4> QED
        BY <4>1
    <3>7. n = [s |-> [st[p] EXCEPT !.list = @ \o <<x>>], queue |-> Rows(q, rest)]
      BY <2>4, <3>6 DEF VaultGoesOn
    <3> HIDE DEF x
    <3>8. list \o <<x>> = Append(list, x)
      <4>1. x \in (Key \X Contents) \cup {x} /\ list \in Seq((Key \X Contents) \cup {x})
        BY <1>6, SeqMonotonic
      <4> QED
        BY <4>1, AppendIsConcat
    <3>9. n.s.list = Append(list, x) /\ n.queue = Rows(q, rest)
      <4>1. n.queue = Rows(q, rest)
        BY <3>7
      <4>2. n.s = [st[p] EXCEPT !.list = @ \o <<x>>]
        BY <3>7
      <4>3. n.s.list = list \o <<x>>
        <5> HIDE DEF n
        <5> QED
          BY <1>3, <4>2 DEF VaultState
      <4> QED
        BY <3>8, <4>1, <4>3
    <3>10. rest \in SUBSET Key
      BY <1>4, <2>4
    <3>11. Shows(Append(list, x), db[p], rest)
      <4>1. x = <<k.key, db[p][NamespaceKey(VaultId, k.key)]>>
        BY DEF x
      <4> QED
        BY <1>3, <1>6, <3>2, <4>1, ShowsMore
    <3> HIDE DEF a, n, q, rest, list
    <3>12. /\ Refreshed(Rows(q, rest), Append(list, x), db[p])
           /\ Refreshes(Rows(q, rest)) = {} => Shows(Append(list, x), db[p], {})
      BY <1>3, <3>1, <3>10, <3>11, RefreshedRows
    <3> QED
      BY <2>1, <3>5, <3>9, <3>12
  <2> QED
    BY <1>4, <2>2, <2>3, <2>4
<1> QED
  BY <1>2, <1>10

(* A call that fails on such a page: no refresh is left if it was part of one. *)
LEMMA FailureKeeps ==
    ASSUME TypeOK, app = "vault", NEW p \in Pages, PageOK(p), StorageFails(p)
    PROVE  PageOK(p)'
<1>1. PICK i \in DOMAIN calls[p] :
         /\ calls' = [calls EXCEPT ![p] = RemoveAt(@, i)]
         /\ disturbed' = IF calls[p][i].then.do \in {"listed", "row"} THEN disturbed \cup {p} ELSE disturbed
  BY DEF StorageFails
<1>2. UNCHANGED <<st, db, conn>> /\ conn[p] = "open"
  BY DEF StorageFails
<1>3. /\ st[p].initialized /\ calls[p] \in Seq(VaultCall) /\ i \in 1 .. Len(calls[p])
      /\ calls'[p] = RemoveAt(calls[p], i)
  BY <1>1, <1>2 DEF PageOK, Quiet, TypeOK, CallOf
<1> SUFFICES ASSUME p \notin disturbed'
             PROVE  /\ Refreshed(calls'[p], st[p].list, db[p])
                    /\ Refreshes(calls'[p]) = {} => Shows(st[p].list, db[p], {})
  BY <1>2, <1>3 DEF PageOK
<1>4. p \notin disturbed /\ i \notin Refreshes(calls[p])
  BY <1>1 DEF Refreshes
<1>5. /\ Refreshed(calls[p], st[p].list, db[p])
      /\ Refreshes(calls[p]) = {} => Shows(st[p].list, db[p], {})
  BY <1>2, <1>3, <1>4 DEF PageOK
<1> QED
  BY <1>3, <1>4, <1>5, RefreshesLess

LEMMA VaultStep == TypeOK /\ TypeOK' /\ VaultInv /\ [Next]_vars => VaultInv'
<1> SUFFICES ASSUME TypeOK, TypeOK', VaultInv, [Next]_vars, app' = "vault", NEW o \in Pages
             PROVE  PageOK(o)'
  BY DEF VaultInv
<1>1. app' = app
  BY ZenonT(30) DEF Next, UserActs, VaultActs, WhiteboardActs, PresenceChange, EchoActs, VoiceShows, Initialize,
     Deliver, Reload, DbOpens, StorageResult, StorageFails, WindowPasses, TimerFires, vars, boundVars
<1>0. /\ app = "vault" /\ PageOK(o)
      /\ DOMAIN st = Pages /\ DOMAIN calls = Pages /\ DOMAIN conn = Pages /\ DOMAIN db = Pages
      /\ \A p \in Pages : st[p] \in VaultState
  BY <1>1, StateIs DEF TypeOK, VaultInv
<1>2. CASE UNCHANGED vars
  BY <1>0, <1>2, PageKept DEF vars, storageVars, boundVars
<1>3. ASSUME NEW p \in Pages, UserActs(p) PROVE PageOK(o)'
  <2>1. VaultActs(p)
    BY <1>0, <1>3 DEF UserActs, VoiceShows
  <2>2. CASE o = p
    BY <1>0, <2>1, <2>2, VaultActsKeep
  <2>3. CASE o # p
    <3>1. calls'[o] = calls[o] /\ conn'[o] = conn[o]
      BY <1>0, <2>1, <2>3, VaultActsKeep DEF VaultInv
    <3>2. UNCHANGED <<st, db, disturbed>>
      BY <2>1 DEF VaultActs, Rpc, storageVars
    <3> QED
      BY <1>0, <3>1, <3>2, PageKept
  <2> QED
    BY <2>2, <2>3
<1>4. ASSUME NEW p \in Pages, Initialize(p) PROVE PageOK(o)'
  <2> DEFINE c == Call("list", [do |-> "listed"])
  <2>0. st' = [st EXCEPT ![p] = [st[p] EXCEPT !.initialized = TRUE]] /\ Rpc(p, c)
        /\ disturbed' = disturbed /\ ~ st[p].initialized
    BY <1>0, <1>4 DEF Initialize, boundVars
  <2>1. CASE o # p
    BY <1>0, <2>0, <2>1, PageKept DEF Rpc
  <2>2. CASE o = p
    <3>1. conn[p] = "none" /\ calls[p] = <<>>
      BY <1>0, <2>0, <2>2 DEF PageOK, Quiet
    <3>2. c \in VaultCall /\ c.then.do = "listed" /\ ValidCall(c)
      BY DEF Call, VaultCall, ValidCall
    <3>3. calls'[p] = Append(calls[p], c)
      <4> HIDE DEF c
      <4> QED
        BY <1>0, <2>0, <3>1, <3>2 DEF Rpc, Asked
    <3>4. calls[p] \in Seq(VaultCall) /\ Refreshes(calls[p]) = {}
      BY <3>1 DEF Refreshes
    <3> HIDE DEF c
    <3>5. Refreshes(calls'[p]) = {Len(calls[p]) + 1} /\ calls'[p][Len(calls[p]) + 1] = c
      BY <3>2, <3>3, <3>4, RefreshesMore
    <3>6. Refreshed(calls'[p], st'[p].list, db'[p])
      BY <3>2, <3>5 DEF Refreshed
    <3>7. st'[p].initialized
      BY <1>0, <2>0 DEF VaultState
    <3> QED
      BY <2>2, <3>5, <3>6, <3>7 DEF PageOK
  <2> QED
    BY <2>1, <2>2
<1>5. ASSUME NEW p \in Pages, Deliver(p) PROVE PageOK(o)'
  <2>1. UNCHANGED <<calls, conn, db, disturbed>>
    BY <1>5 DEF Deliver, storageVars
  <2>2. CASE ~ st[p].initialized
    BY <1>0, <1>5, <2>1, <2>2, PageKept DEF Deliver
  <2>3. CASE st[p].initialized
    <3> DEFINE box == st[p].inbox \cup {Head(link[p])}
    <3>1. st' = [st EXCEPT ![p] = [st[p] EXCEPT !.inbox = box]]
      <4>1. st' = [st EXCEPT ![p] = Received(st[p], Head(link[p]))]
        BY <1>5, <2>3 DEF Deliver
      <4>2. Received(st[p], Head(link[p])) = [st[p] EXCEPT !.inbox = box]
        BY <1>0 DEF Received
      <4> QED
        BY <4>1, <4>2
    <3> HIDE DEF box
    <3>2. st'[o].initialized = st[o].initialized /\ st'[o].list = st[o].list
          /\ (o # p => st'[o] = st[o])
      BY <1>0, <3>1 DEF VaultState
    <3>3. CASE o # p
      BY <1>0, <2>1, <3>2, <3>3, PageKept
    <3>4. CASE o = p
      BY <1>0, <2>1, <2>3, <3>2, <3>4 DEF PageOK
    <3> QED
      BY <3>3, <3>4
  <2> QED
    BY <2>2, <2>3
<1>6. ASSUME NEW p \in Pages, Reload(p) PROVE PageOK(o)'
  <2>1. CASE o # p
    <3>1. st'[o] = st[o] /\ calls'[o] = calls[o] /\ conn'[o] = conn[o] /\ db'[o] = db[o]
          /\ (o \in disturbed => o \in disturbed')
      BY <1>0, <1>6, <2>1 DEF Reload
    <3> QED
      BY <1>0, <3>1, PageKept
  <2>2. CASE o = p
    <3>1. st'[p] = Fresh("vault") /\ calls'[p] = <<>> /\ conn'[p] = "none"
      BY <1>0, <1>6 DEF Reload
    <3>2. ~ Fresh("vault").initialized /\ Fresh("vault").list = <<>> /\ Fresh("vault").inbox = {}
      BY DEF Fresh
    <3> QED
      BY <2>2, <3>1, <3>2 DEF PageOK, Quiet
  <2> QED
    BY <2>1, <2>2
<1>7. ASSUME NEW p \in Pages, DbOpens(p) PROVE PageOK(o)'
  <2>1. UNCHANGED <<st, db, disturbed>> /\ conn[p] = "opening"
    BY <1>7 DEF DbOpens, boundVars
  <2>2. CASE o # p
    <3>1. calls'[o] = calls[o] /\ conn'[o] = conn[o]
      BY <1>0, <1>7, <2>2 DEF DbOpens
    <3> QED
      BY <1>0, <2>1, <3>1, PageKept
  <2>3. CASE o = p
    <3>0. st[p].initialized
      BY <1>0, <2>1, <2>3 DEF PageOK, Quiet
    <3>1. CASE conn' = [conn EXCEPT ![p] = "open"] /\ UNCHANGED calls
      BY <1>0, <2>1, <2>3, <3>0, <3>1, PageKept
    <3>2. CASE conn' = [conn EXCEPT ![p] = "failed"] /\ calls' = [calls EXCEPT ![p] = <<>>]
      <4>1. conn'[p] = "failed" /\ calls'[p] = <<>>
        BY <1>0, <3>2
      <4>2. Refreshes(calls'[p]) = {}
        BY <4>1 DEF Refreshes
      <4>3. Refreshed(calls'[p], st'[p].list, db'[p])
        BY <4>2 DEF Refreshed
      <4> QED
        BY <2>1, <2>3, <3>0, <4>1, <4>3 DEF PageOK
    <3> QED
      BY <1>7, <3>1, <3>2 DEF DbOpens
  <2> QED
    BY <2>2, <2>3
<1>8. ASSUME NEW p \in Pages, StorageResult(p) PROVE PageOK(o)'
  <2>1. CASE o = p
    BY <1>0, <1>8, <2>1, AnswerKeeps
  <2>2. CASE o # p
    <3>1. UNCHANGED conn
      BY <1>8, AnswerIs
    <3>2. st'[o] = st[o] /\ calls'[o] = calls[o] /\ db'[o] = db[o]
          /\ (o \in disturbed => o \in disturbed')
      <4>1. /\ \E d : db' = [db EXCEPT ![p] = d]
            /\ \E s : st' = [st EXCEPT ![p] = s]
            /\ \E q : calls' = [calls EXCEPT ![p] = q]
        BY <1>8, Zenon DEF StorageResult
      <4>2. disturbed \subseteq disturbed' \cup {p}
        BY <1>8 DEF StorageResult, Disturbed
      <4> QED
        BY <1>0, <2>2, <4>1, <4>2
    <3> QED
      BY <1>0, <3>1, <3>2, PageKept
  <2> QED
    BY <2>1, <2>2
<1>9. ASSUME NEW p \in Pages, StorageFails(p) PROVE PageOK(o)'
  <2>1. CASE o = p
    BY <1>0, <1>9, <2>1, FailureKeeps
  <2>2. CASE o # p
    <3>1. /\ UNCHANGED <<st, db, conn>> /\ disturbed \subseteq disturbed'
          /\ \E q : calls' = [calls EXCEPT ![p] = q]
      BY <1>9 DEF StorageFails
    <3> QED
      BY <1>0, <2>2, <3>1, PageKept
  <2> QED
    BY <2>1, <2>2
<1>10. ASSUME NEW p \in Pages, WindowPasses(p) \/ TimerFires(p) PROVE FALSE
  BY <1>0, <1>10 DEF WindowPasses, TimerFires
<1> QED
  BY <1>2, <1>3, <1>4, <1>5, <1>6, <1>7, <1>8, <1>9, <1>10 DEF Next

-----------------------------------------------------------------------------
(* The inductive invariant, and what it says of the add-ons. *)
THEOREM AddonsHold == Spec => []OInv
<1>1. Init => OInv
  BY TypeInit, PresenceInit, VaultInit DEF OInv
<1>2. OInv /\ [Next]_vars => OInv'
  BY TypeStep, PresenceStep, VaultStep DEF OInv
<1> QED
  BY <1>1, <1>2, PTL DEF Spec

(* No call of an add-on reads or changes a record of another: ids have no space, so the
   keys of two never meet (packages/storage/src/index.ts, namespaceKey). *)
THEOREM OthersAreUntouched == Spec => []OthersUntouched
<1>1. OInv => OthersUntouched
  <2> SUFFICES ASSUME OInv, NEW p \in Pages
               PROVE  /\ \A k \in DOMAIN OtherRecord : k \in DOMAIN db[p] /\ db[p][k] = Theirs
                      /\ app = "vault" => \A i \in DOMAIN st[p].list : st[p].list[i][2] # Theirs
    BY DEF OthersUntouched
  <2>1. \A k \in DOMAIN OtherRecord : k = OtherKey
    BY DEF OtherRecord, OtherKey
  <2>2. OtherKey \in DOMAIN db[p] /\ db[p][OtherKey] = Theirs
    BY DEF OInv, TypeOK, StoreOK
  <2>3. ASSUME app = "vault", NEW i \in DOMAIN st[p].list PROVE st[p].list[i][2] # Theirs
    <3>1. st[p] \in VaultState
      BY <2>3, StateIs DEF OInv, TypeOK
    <3>2. st[p].list[i] \in Key \X Contents
      BY <2>3, <3>1 DEF VaultState
    <3> QED
      BY <3>2, AddonConstants
  <2> QED
    BY <2>1, <2>2, <2>3
<1> QED
  BY <1>1, AddonsHold, PTL

(* However the throttle merges changes and its timers fire, a peer's last state is what is
   shown in the end (addons/avatar-presence, emitStateChange and flushState). *)
THEOREM LastStateIsShown == Spec => []LastStateShown
<1>1. OInv => LastStateShown
  <2> SUFFICES ASSUME OInv, NEW p \in Pages, app = "presence", st[Other(p)].timers = <<>>,
                      link[p] = <<>>, missed = {}
               PROVE  st[p].peer = st[Other(p)].me
    BY DEF LastStateShown
  <2> QED
    BY DEF OInv, PresenceInv, LastSent
<1> QED
  BY <1>1, AddonsHold, PTL

(* The vault lists each stored file once when nothing is under way, unless its last refresh
   failed half way or began beside another (addons/local-vault, refreshList). *)
THEOREM ListIsTheStore == Spec => []ListMatchesStore
<1>1. OInv => ListMatchesStore
  <2> SUFFICES ASSUME OInv, NEW p \in Pages, app = "vault", st[p].initialized, conn[p] = "open",
                      calls[p] = <<>>, p \notin disturbed
               PROVE  /\ IsInjective(st[p].list)
                      /\ ToSet(st[p].list) =
                            {<<k, db[p][NamespaceKey(VaultId, k)]>> : k \in ListedKeys(db[p], VaultId)}
    BY DEF ListMatchesStore
  <2>1. Refreshes(calls[p]) = {}
    BY DEF Refreshes
  <2>2. Shows(st[p].list, db[p], {})
    BY <2>1 DEF OInv, VaultInv, PageOK
  <2>3. ListedKeys(db[p], VaultId) \ {} = ListedKeys(db[p], VaultId)
    OBVIOUS
  <2> QED
    BY <2>2, <2>3 DEF Shows
<1> QED
  BY <1>1, AddonsHold, PTL


=============================================================================
