---------------------------- MODULE SupplyProofs ----------------------------
(***************************************************************************)
(* What a reader is told is verified was signed, for any add-ons, keys,    *)
(* versions and releases. The argument: every signature in the working     *)
(* tree, and so every one that was ever released, is recorded in signed;   *)
(* a page mounts bytes, and a card of the gallery says "verified", only    *)
(* after verifyManifest() has tied them to such a signature and its key to *)
(* the registry that was read. What the gate has passed loads; and the     *)
(* gallery accounts for every registry in its list (GInv, at the end).     *)
(***************************************************************************)
EXTENDS Supply, FiniteSetTheorems, WellFoundedInduction, SequenceTheorems, TLAPS

(* The signature is one that signed knows of.                               *)
Recorded(s) == <<s.signature.by, s.signature.of>> \in signed

(* The publisher's tree, and the releases, a sequence of anything.          *)
TreeRecorded == \A a \in DOMAIN sigs : Recorded(sigs[a])
ReleasesRecorded == \A n \in DOMAIN releases : \A a \in DOMAIN releases[n].sigs : Recorded(releases[n].sigs[a])
ReleasesInOrder == \E S : releases \in Seq(S)

(* The fields of page, whatever is in them.                                 *)
PageFields ==
    {"via", "keys", "ids", "from", "stage", "reason", "addon", "mode", "bytes", "sig", "seen"}
PageShape == page = [f \in PageFields |-> page[f]]

SiteInv == TreeRecorded /\ ReleasesInOrder /\ ReleasesRecorded
IInv == SiteInv /\ PageShape /\ MountedWasSigned

-----------------------------------------------------------------------------
(* The first release is signed with the first key.                          *)
LEMMA InitHolds == Init => IInv
<1> SUFFICES ASSUME Init PROVE IInv
  OBVIOUS
<1>1. PublishingInit /\ page = NothingRead
  BY DEF Init, PageInit
<1>2. TreeRecorded
  BY <1>1 DEF PublishingInit, TreeRecorded, Recorded, SignedManifest, GeneratedPair
<1>3. ReleasesInOrder /\ ReleasesRecorded
  <2> DEFINE first == [manifests |-> manifests, sigs |-> sigs, registry |-> registry]
  <2>1. releases = <<first>>
    BY <1>1 DEF PublishingInit
  <2>2. releases \in Seq({first})
    BY <2>1
  <2>3. \A n \in DOMAIN releases : releases[n] = first
    BY <2>1
  <2>4. first.sigs = sigs
    OBVIOUS
  <2> HIDE DEF first
  <2> QED
    BY <1>2, <2>2, <2>3, <2>4 DEF ReleasesInOrder, ReleasesRecorded, TreeRecorded, Recorded
<1>4. PageShape /\ MountedWasSigned
  BY <1>1 DEF NothingRead, PageShape, PageFields, MountedWasSigned
<1> QED
  BY <1>2, <1>3, <1>4 DEF IInv, SiteInv

(* signManifest() records what it signs.                                    *)
LEMMA SignWithRecords ==
    ASSUME SiteInv, NEW a, NEW pair, SignWith(a, pair), UNCHANGED releases
    PROVE  SiteInv' /\ signed \subseteq signed'
<1>1. signed \subseteq signed' /\ <<pair.private, manifests[a]>> \in signed'
  BY DEF SignWith
<1>2. TreeRecorded'
  <2> SUFFICES ASSUME NEW x \in DOMAIN sigs' PROVE Recorded(sigs[x])'
    BY DEF TreeRecorded
  <2>1. CASE x = a
    <3>1. sigs'[x] = SignedManifest(manifests[a], pair)
      BY <2>1 DEF SignWith, Put
    <3> QED
      BY <3>1, <1>1 DEF Recorded, SignedManifest
  <2>2. CASE x # a
    <3>1. x \in DOMAIN sigs /\ sigs'[x] = sigs[x]
      BY <2>2 DEF SignWith, Put
    <3> QED
      BY <3>1, <1>1 DEF SiteInv, TreeRecorded, Recorded
  <2> QED
    BY <2>1, <2>2
<1>3. ReleasesInOrder' /\ ReleasesRecorded'
  BY <1>1 DEF SiteInv, ReleasesInOrder, ReleasesRecorded, Recorded
<1> QED
  BY <1>1, <1>2, <1>3 DEF SiteInv

(* A release is a copy of the tree.                                         *)
LEMMA ReleaseRecords ==
    ASSUME SiteInv, Release
    PROVE  SiteInv' /\ signed \subseteq signed'
<1> DEFINE site == [manifests |-> manifests, sigs |-> sigs, registry |-> registry]
<1>1. releases' = Append(releases, site) /\ UNCHANGED <<sigs, signed>>
  BY DEF Release, tree
<1>2. site.sigs = sigs
  OBVIOUS
<1> HIDE DEF site
<1>3. PICK S : releases \in Seq(S)
  BY DEF SiteInv, ReleasesInOrder
<1>4. releases \in Seq(S \cup {site})
  BY <1>3
<1>5. releases' \in Seq(S \cup {site})
  BY <1>1, <1>4
<1>6. \A n \in DOMAIN releases' : releases'[n] = site \/ (n \in DOMAIN releases /\ releases'[n] = releases[n])
  BY <1>1, <1>4
<1>7. TreeRecorded' /\ ReleasesInOrder'
  BY <1>1, <1>5 DEF SiteInv, TreeRecorded, Recorded, ReleasesInOrder
<1>8. ReleasesRecorded'
  BY <1>1, <1>2, <1>6 DEF SiteInv, TreeRecorded, ReleasesRecorded, Recorded
<1> QED
  BY <1>1, <1>7, <1>8 DEF SiteInv

(* Everything else the publisher does leaves signatures and releases alone. *)
LEMMA PublishRecords ==
    ASSUME SiteInv, NEW works, Publish(works)
    PROVE  SiteInv' /\ signed \subseteq signed'
<1>1. CASE UNCHANGED <<sigs, releases, signed>>
  BY <1>1 DEF SiteInv, TreeRecorded, ReleasesRecorded, Recorded, ReleasesInOrder
<1>2. ASSUME NEW a \in works, WriteManifest(a) \/ ListVersion(a) PROVE UNCHANGED <<sigs, releases, signed>>
  BY <1>2 DEF WriteManifest, ListVersion
<1>3. ASSUME NEW a \in works, NEW p \in Paths, SignManifest(a, p) PROVE SiteInv' /\ signed \subseteq signed'
  <2>1. PICK pair : SignWith(a, pair)
    BY <1>3 DEF SignManifest
  <2>2. UNCHANGED releases
    BY <1>3 DEF SignManifest
  <2> QED
    BY <2>1, <2>2, SignWithRecords
<1>4. ASSUME NEW a \in works, NEW p \in Paths, NEW k \in Keys, NEW force \in BOOLEAN, GenerateKey(a, p, k, force)
      PROVE SiteInv' /\ signed \subseteq signed'
  <2>1. SignWith(a, GeneratedPair(k)) /\ UNCHANGED releases
    BY <1>4 DEF GenerateKey
  <2> QED
    BY <2>1, SignWithRecords
<1>5. ASSUME NEW k \in Keys, AddTrustedKey(k) \/ RemoveTrustedKey(k) PROVE UNCHANGED <<sigs, releases, signed>>
  BY <1>5 DEF AddTrustedKey, RemoveTrustedKey
<1>6. ASSUME NEW p \in Paths, StartSignAll(p) PROVE UNCHANGED <<sigs, releases, signed>>
  BY <1>6 DEF StartSignAll, tree
<1>7. CASE SignNext
  <2>1. SignWith(Head(signing.todo), signing.pair) /\ UNCHANGED releases
    BY <1>7 DEF SignNext
  <2> QED
    BY <2>1, SignWithRecords
<1>8. CASE AbortSignAll
  <2>1. UNCHANGED <<sigs, releases, signed>>
    BY <1>8 DEF AbortSignAll, tree
  <2> QED
    BY <1>1, <2>1
<1>9. CASE Release
  BY <1>9, ReleaseRecords
<1> QED
  BY <1>1, <1>2, <1>3, <1>4, <1>5, <1>6, <1>7, <1>8, <1>9 DEF Publish

-----------------------------------------------------------------------------
(* A page that is not mounted vouches for nothing.                          *)
LEMMA NotMounted ==
    ASSUME PageShape, NEW n, NEW why, Refuse(n, why)
    PROVE  PageShape' /\ MountedWasSigned'
BY DEF PageShape, PageFields, MountedWasSigned, Refuse

(* What is mounted has passed the parser; of its signature the caller says. *)
LEMMA MountVouches ==
    ASSUME PageShape, NEW n, NEW bytes, NEW sig, Mount(n, bytes, sig), UNCHANGED signed,
           page.mode = "required" => \E k \in page.keys : <<k, bytes>> \in signed
    PROVE  PageShape' /\ MountedWasSigned'
<1>1. CASE ParsedManifest(bytes) = {}
  <2>1. Refuse(n, "manifest")
    BY <1>1 DEF Mount
  <2> QED
    BY <2>1, NotMounted
<1>2. CASE ParsedManifest(bytes) # {}
  <2>1. page' = [page EXCEPT !.stage = "mounted", !.bytes = <<bytes>>, !.sig = sig, !.seen = @ \cup {n}]
    BY <1>2 DEF Mount
  <2>2. PageShape' /\ page'.keys = page.keys /\ page'.mode = page.mode /\ page'.bytes = <<bytes>>
    BY <2>1 DEF PageShape, PageFields
  <2>3. page'.bytes[1] = bytes
    BY <2>2
  <2> QED
    BY <2>2, <2>3 DEF MountedWasSigned
<1> QED
  BY <1>1, <1>2

(* load() and the reading of the registry.                                  *)
LEMMA PageStep ==
    ASSUME IInv, Page, UNCHANGED publisherVars
    PROVE  PageShape' /\ MountedWasSigned'
<1> USE DEF IInv
<1>0. UNCHANGED <<signed, releases>>
  BY DEF publisherVars
<1>1. ASSUME NEW via, NEW n, Read(via, n) PROVE PageShape' /\ MountedWasSigned'
  BY <1>1 DEF Read, NothingRead, PageShape, PageFields, MountedWasSigned
<1>2. ASSUME NEW n \in Answers, OpenLauncher(n) PROVE PageShape' /\ MountedWasSigned'
  BY <1>1, <1>2 DEF OpenLauncher
<1>3. ASSUME NEW n \in Answers, OpenHandoff(n) PROVE PageShape' /\ MountedWasSigned'
  <2>1. CASE HandoffAccepts(releases[n].registry)
    BY <1>1, <1>3, <2>1 DEF OpenHandoff
  <2>2. CASE ~HandoffAccepts(releases[n].registry)
    BY <1>3, <2>2 DEF OpenHandoff, NothingRead, PageShape, PageFields, MountedWasSigned
  <2> QED
    BY <2>1, <2>2
<1>4. ASSUME NEW a \in Addons, NEW mode \in Modes, StartLoad(a, mode) PROVE PageShape' /\ MountedWasSigned'
  BY <1>4 DEF StartLoad, PageShape, PageFields, MountedWasSigned
<1>5. ASSUME NEW n \in Answers, ManifestAnswered(n) PROVE PageShape' /\ MountedWasSigned'
  <2> DEFINE found == releases[n].manifests
  <2>1. CASE page.addon \notin DOMAIN found
    BY <1>5, <2>1, NotMounted DEF ManifestAnswered
  <2>2. CASE page.addon \in DOMAIN found /\ page.mode = "none"
    BY <1>0, <1>5, <2>2, MountVouches DEF ManifestAnswered
  <2>3. CASE page.addon \in DOMAIN found /\ page.mode # "none" /\ page.keys = {}
    BY <1>5, <2>3, NotMounted DEF ManifestAnswered
  <2>4. CASE page.addon \in DOMAIN found /\ page.mode # "none" /\ page.keys # {}
    BY <1>5, <2>4 DEF ManifestAnswered, PageShape, PageFields, MountedWasSigned
  <2> QED
    BY <2>1, <2>2, <2>3, <2>4
<1>6. ASSUME NEW n \in Answers, SignatureAnswered(n) PROVE PageShape' /\ MountedWasSigned'
  <2> DEFINE found == releases[n].sigs
             bytes == page.bytes[1]
             result == VerifyResult(bytes, found[page.addon], page.keys)
  <2>1. CASE page.addon \notin DOMAIN found /\ page.mode = "required"
    BY <1>6, <2>1, NotMounted DEF SignatureAnswered
  <2>2. CASE page.addon \notin DOMAIN found /\ page.mode # "required"
    <3>1. Mount(n, bytes, <<>>)
      BY <1>6, <2>2 DEF SignatureAnswered
    <3> QED
      BY <1>0, <2>2, <3>1, MountVouches
  <2>3. CASE page.addon \in DOMAIN found /\ ~ValidSignature(found[page.addon])
    BY <1>6, <2>3, NotMounted DEF SignatureAnswered
  <2>4. CASE page.addon \in DOMAIN found /\ ValidSignature(found[page.addon]) /\ result # "ok"
    <3>1. Refuse(n, result)
      BY <1>6, <2>4 DEF SignatureAnswered
    <3> QED
      BY <3>1, NotMounted
  <2>5. CASE page.addon \in DOMAIN found /\ ValidSignature(found[page.addon]) /\ result = "ok"
    <3>1. Mount(n, bytes, <<found[page.addon]>>)
      BY <1>6, <2>5 DEF SignatureAnswered
    <3>2. PICK S : releases \in Seq(S)
      BY DEF SiteInv, ReleasesInOrder
    <3>3. n \in DOMAIN releases
      BY <3>2 DEF Answers
    <3>4. Recorded(found[page.addon])
      BY <2>5, <3>3 DEF SiteInv, ReleasesRecorded
    <3> DEFINE s == found[page.addon]
    <3>5. s.publicKey \in page.keys /\ s.signature.by = s.publicKey /\ s.signature.of = bytes
      BY <2>5 DEF VerifyResult
    <3>6. \E k \in page.keys : <<k, bytes>> \in signed
      BY <3>4, <3>5 DEF Recorded
    <3> QED
      BY <1>0, <3>1, <3>6, MountVouches
  <2> QED
    BY <2>1, <2>2, <2>3, <2>4, <2>5
<1>6a. ASSUME FetchFails PROVE PageShape' /\ MountedWasSigned'
  BY <1>6a DEF FetchFails, PageShape, PageFields, MountedWasSigned
<1>7. ASSUME LoadOver PROVE PageShape' /\ MountedWasSigned'
  BY <1>1, <1>7 DEF LoadOver
<1>8. ASSUME Reload PROVE PageShape' /\ MountedWasSigned'
  BY <1>8 DEF Reload, NothingRead, PageShape, PageFields, MountedWasSigned
<1> QED
  BY <1>2, <1>3, <1>4, <1>5, <1>6, <1>6a, <1>7, <1>8 DEF Page

-----------------------------------------------------------------------------
LEMMA StepHolds == IInv /\ [Next]_vars => IInv'
<1> SUFFICES ASSUME IInv, [Next]_vars PROVE IInv'
  OBVIOUS
<1>1. ASSUME SiteInv', signed \subseteq signed', UNCHANGED page PROVE IInv'
  BY <1>1 DEF IInv, PageShape, MountedWasSigned
<1>2. ASSUME UNCHANGED publisherVars PROVE SiteInv' /\ signed \subseteq signed'
  BY <1>2 DEF IInv, SiteInv, TreeRecorded, ReleasesRecorded, Recorded, ReleasesInOrder, publisherVars, tree
<1>3. CASE Publish(Works[reader]) /\ UNCHANGED page
  BY <1>1, <1>3, PublishRecords DEF IInv
<1>4. CASE Release /\ UNCHANGED page
  BY <1>1, <1>4, ReleaseRecords DEF IInv
<1>5. CASE Page /\ UNCHANGED publisherVars
  BY <1>2, <1>5, PageStep DEF IInv
<1>6. CASE UNCHANGED <<publisherVars, page>>
  BY <1>1, <1>2, <1>6
<1> QED
  BY <1>3, <1>4, <1>5, <1>6 DEF Next, OpenGallery, vars

(* What a host page has mounted under required verification was signed,     *)
(* byte for byte, with a key of the registry it has read (AddonHost.load(), *)
(* packages/addon-runtime/src/index.ts:314), whatever was edited, signed,   *)
(* rotated and released between its three fetches.                          *)
THEOREM MountedAddonsWereSigned == Spec => []MountedWasSigned
<1>1. IInv => MountedWasSigned
  BY DEF IInv
<1> QED
  BY InitHolds, StepHolds, <1>1, PTL DEF Spec

-----------------------------------------------------------------------------
(* What the gate has passed loads.                                          *)

(* Of a release: every add-on its registry lists verifies and is mounted.   *)
Loadable(site, a) ==
    /\ a \in DOMAIN site.manifests /\ a \in DOMAIN site.sigs
    /\ Verified(site.manifests[a], site.sigs[a], site.registry.trustedKeys)
    /\ ParsedManifest(site.manifests[a]) # {}

Gated(site) == \A e \in Range(site.registry.addons) : Loadable(site, e.path)

TreeParses == \A a \in DOMAIN manifests : ParsedManifest(manifests[a]) # {}
ReleasesGated == \A n \in DOMAIN releases : Gated(releases[n])

Several(s) == \E x, y \in s : x # y

(* A page has read the registry of one release, and looks at others only    *)
(* while it loads; the manifest it holds is that release's or else it has   *)
(* seen several.                                                            *)
FromRelease ==
    /\ page.via \in {"launcher", "hand-off"}
    /\ page.from \in DOMAIN releases
    /\ page.keys = releases[page.from].registry.trustedKeys
    /\ page.ids = {e.path : e \in Range(releases[page.from].registry.addons)}

Loading ==
    /\ page.addon \in page.ids /\ page.from \in page.seen
    /\ page.stage = "signature" =>
          Several(page.seen) \/ page.bytes[1] = releases[page.from].manifests[page.addon]

PageTracked ==
    /\ IsFiniteSet(page.seen)
    /\ page.via \in {"launcher", "hand-off"} => FromRelease
    /\ page.stage # "idle" => FromRelease
    /\ page.stage \in {"manifest", "signature"} => Loading
    /\ page.stage = "refused" /\ page.reason # "fetch" => Several(page.seen)

RInv == ReleasesInOrder /\ TreeParses /\ ReleasesGated /\ PageShape /\ PageTracked

(* A set of several elements has more than one.                             *)
LEMMA SeveralCounts ==
    ASSUME NEW s, IsFiniteSet(s), Several(s)
    PROVE  Cardinality(s) > 1
<1>1. PICK x, y \in s : x # y
  BY DEF Several
<1>2. IsFiniteSet({x}) /\ Cardinality({x}) = 1
  BY FS_Singleton
<1>3. IsFiniteSet({x} \cup {y}) /\ Cardinality({x} \cup {y}) = 2
  BY <1>1, <1>2, FS_AddElement
<1>4. ({x} \cup {y}) \in SUBSET s
  BY <1>1
<1>5. Cardinality({x} \cup {y}) <= Cardinality(s)
  BY <1>4, FS_Subset
<1>6. Cardinality(s) \in Nat
  BY FS_CardinalityType
<1> QED
  BY <1>3, <1>5, <1>6

(* A manifest as it is written by hand is one the runtime mounts.           *)
LEMMA WrittenManifestParses ==
    ASSUME NEW a \in Addons, NEW i \in DOMAIN Versions
    PROVE  ParsedManifest(ManifestOf(a, Versions[i])) # {}
<1> DEFINE m == ManifestOf(a, Versions[i])
<1>1. a \notin {"bad", "empty"} /\ Versions[i] \notin {"bad", "empty"}
  BY PublishingConstants DEF Range
<1>2. DOMAIN m = ManifestFields /\ \A f \in ManifestFields : m[f] \in {a, Versions[i], "ok"}
  BY DEF ManifestOf
<1>3. ValidManifest(m)
  BY <1>1, <1>2 DEF ValidManifest, Acceptable
<1> QED
  BY <1>3 DEF ParsedManifest

-----------------------------------------------------------------------------
(* The first release loads.                                                 *)
LEMMA FirstReleaseGated ==
    ASSUME PublishingInit
    PROVE  ReleasesInOrder /\ TreeParses /\ ReleasesGated
<1> DEFINE site == [manifests |-> manifests, sigs |-> sigs, registry |-> registry]
<1>1. \A a \in Range(Listed) :
         /\ a \in DOMAIN manifests /\ a \in DOMAIN sigs
         /\ manifests[a] = ManifestOf(a, Versions[1])
         /\ sigs[a] = SignedManifest(manifests[a], GeneratedPair(OldKey))
  BY DEF PublishingInit
<1>2. DOMAIN manifests = Range(Listed) /\ Range(Listed) \subseteq Addons /\ 1 \in DOMAIN Versions
  BY PublishingConstants DEF PublishingInit, Range
<1>3. \A a \in Range(Listed) : ParsedManifest(manifests[a]) # {}
  BY <1>1, <1>2, WrittenManifestParses
<1>4. \A a \in Range(Listed) : Verified(manifests[a], sigs[a], {OldKey})
  <2> SUFFICES ASSUME NEW a \in Range(Listed) PROVE Verified(manifests[a], sigs[a], {OldKey})
    OBVIOUS
  <2> DEFINE s == SignedManifest(manifests[a], GeneratedPair(OldKey))
  <2>1. /\ DOMAIN s = {"v", "alg", "publicKey", "signature", "signedAt"}
        /\ s.v = "1" /\ s.alg = "Ed25519" /\ s.publicKey = OldKey /\ s.signedAt = "instant"
        /\ s.signature = [by |-> OldKey, of |-> manifests[a], length |-> 64]
    BY DEF SignedManifest, GeneratedPair
  <2>2. OldKey # "bad"
    BY PublishingConstants
  <2> HIDE DEF s
  <2>3. ValidSignature(s)
    BY <2>1, <2>2 DEF ValidSignature
  <2>4. VerifyResult(manifests[a], s, {OldKey}) = "ok"
    BY <2>1 DEF VerifyResult
  <2>5. sigs[a] = s
    BY <1>1 DEF s
  <2> QED
    BY <2>3, <2>4, <2>5 DEF Verified
<1>5. registry.trustedKeys = {OldKey} /\ \A e \in Range(registry.addons) : e.path \in Range(Listed)
  <2>1. registry.trustedKeys = {OldKey} /\ registry.addons = [i \in DOMAIN Listed |-> EntryOf(Listed[i], Versions[1])]
    BY DEF PublishingInit
  <2>2. \A a : EntryOf(a, Versions[1]).path = a
    BY DEF EntryOf, EntryFields
  <2> QED
    BY <2>1, <2>2 DEF Range
<1>6. site.manifests = manifests /\ site.sigs = sigs /\ site.registry = registry
  OBVIOUS
<1>7. releases = <<site>>
  BY DEF PublishingInit
<1> HIDE DEF site
<1>8. Gated(site)
  BY <1>1, <1>3, <1>4, <1>5, <1>6 DEF Gated, Loadable
<1>9. releases \in Seq({site}) /\ \A n \in DOMAIN releases : releases[n] = site
  BY <1>7
<1> QED
  BY <1>2, <1>3, <1>8, <1>9 DEF ReleasesInOrder, ReleasesGated, TreeParses

(* A manifest is written, or the tree stays as it is.                       *)
LEMMA WriteParses ==
    ASSUME TreeParses, NEW a \in Addons, WriteManifest(a)
    PROVE  TreeParses' /\ UNCHANGED releases
<1>1. UNCHANGED releases
  BY DEF WriteManifest
<1>2. PICK i \in DOMAIN Versions : manifests' = Put(manifests, a, ManifestOf(a, Versions[i]))
  BY PublishingConstants DEF WriteManifest
<1>3. \A x \in DOMAIN manifests' :
         manifests'[x] = ManifestOf(a, Versions[i]) \/ (x \in DOMAIN manifests /\ manifests'[x] = manifests[x])
  BY <1>2 DEF Put
<1> QED
  BY <1>1, <1>3, WrittenManifestParses DEF TreeParses

(* What is released has passed the gate: verify-official-addons.ts.         *)
LEMMA ReleaseGated ==
    ASSUME ReleasesInOrder, TreeParses, ReleasesGated, Release
    PROVE  TreeParses' /\ ReleasesInOrder' /\ ReleasesGated'
           /\ \A n \in DOMAIN releases : n \in DOMAIN releases' /\ releases'[n] = releases[n]
<1> DEFINE site == [manifests |-> manifests, sigs |-> sigs, registry |-> registry]
<1>1. releases' = Append(releases, site) /\ UNCHANGED manifests /\ VerifyOfficial
  BY DEF Release, tree
<1>2. site.manifests = manifests /\ site.sigs = sigs /\ site.registry = registry
  OBVIOUS
<1> HIDE DEF site
<1>3. Gated(site)
  BY <1>1, <1>2 DEF Gated, Loadable, VerifyOfficial, AddonVerifies, TreeParses
<1>4. PICK S : releases \in Seq(S)
  BY DEF ReleasesInOrder
<1>5. releases \in Seq(S \cup {site})
  BY <1>4
<1>6. releases' \in Seq(S \cup {site})
  BY <1>1, <1>5
<1>7. \A n \in DOMAIN releases' : releases'[n] = site \/ (n \in DOMAIN releases /\ releases'[n] = releases[n])
  BY <1>1, <1>4
<1>8. \A n \in DOMAIN releases : n \in DOMAIN releases' /\ releases'[n] = releases[n]
  BY <1>1, <1>4
<1> QED
  BY <1>1, <1>3, <1>6, <1>7, <1>8 DEF TreeParses, ReleasesInOrder, ReleasesGated

(* Publishing keeps what has been released.                                 *)
LEMMA PublishGated ==
    ASSUME ReleasesInOrder, TreeParses, ReleasesGated, NEW works \in SUBSET Addons, Publish(works)
    PROVE  TreeParses' /\ ReleasesInOrder' /\ ReleasesGated'
           /\ \A n \in DOMAIN releases : n \in DOMAIN releases' /\ releases'[n] = releases[n]
<1>1. CASE UNCHANGED <<manifests, releases>>
  BY <1>1 DEF TreeParses, ReleasesInOrder, ReleasesGated
<1>2. ASSUME NEW a \in works, WriteManifest(a)
      PROVE  TreeParses' /\ UNCHANGED releases
  BY <1>2, WriteParses
<1>3. ASSUME NEW a \in works,
             ListVersion(a) \/ (\E p \in Paths : SignManifest(a, p))
                \/ (\E p \in Paths, k \in Keys, force \in BOOLEAN : GenerateKey(a, p, k, force))
      PROVE  UNCHANGED <<manifests, releases>>
  BY <1>3 DEF ListVersion, SignManifest, GenerateKey
<1>4. ASSUME \/ \E k \in Keys : AddTrustedKey(k) \/ RemoveTrustedKey(k)
             \/ \E p \in Paths : StartSignAll(p)
             \/ SignNext
             \/ AbortSignAll
      PROVE  UNCHANGED <<manifests, releases>>
  BY <1>4 DEF AddTrustedKey, RemoveTrustedKey, StartSignAll, SignNext, AbortSignAll, tree
<1>5. CASE Release
  BY <1>5, ReleaseGated
<1>6. CASE TreeParses' /\ UNCHANGED releases
  BY <1>6 DEF ReleasesInOrder, ReleasesGated
<1> QED
  BY <1>1, <1>2, <1>3, <1>4, <1>5, <1>6 DEF Publish

-----------------------------------------------------------------------------
(* A refusal of an answer that is not of the page's release, or that comes  *)
(* after such a one.                                                        *)
LEMMA RefusedAcross ==
    ASSUME PageShape, PageTracked, FromRelease, page.from \in page.seen, NEW n, NEW why,
           Refuse(n, why), UNCHANGED releases, n # page.from \/ Several(page.seen)
    PROVE  PageShape' /\ PageTracked'
<1>1. page' = [page EXCEPT !.stage = "refused", !.reason = why, !.seen = @ \cup {n}]
  BY DEF Refuse
<1>2. /\ PageShape' /\ page'.stage = "refused" /\ page'.seen = page.seen \cup {n}
      /\ page'.via = page.via /\ page'.from = page.from /\ page'.keys = page.keys /\ page'.ids = page.ids
  BY <1>1 DEF PageShape, PageFields
<1>3. Several(page'.seen)
  BY <1>2 DEF Several
<1>4. IsFiniteSet(page'.seen)
  BY <1>2, FS_AddElement DEF PageTracked
<1>5. FromRelease'
  BY <1>2 DEF FromRelease
<1> QED
  BY <1>2, <1>3, <1>4, <1>5 DEF PageTracked

(* A mounted add-on leaves the page as it was.                              *)
LEMMA MountTracked ==
    ASSUME PageShape, PageTracked, FromRelease, page.from \in page.seen, NEW n, NEW bytes, NEW sig,
           Mount(n, bytes, sig), UNCHANGED releases,
           ParsedManifest(bytes) # {} \/ n # page.from \/ Several(page.seen)
    PROVE  PageShape' /\ PageTracked'
<1>1. CASE ParsedManifest(bytes) = {}
  <2>1. Refuse(n, "manifest")
    BY <1>1 DEF Mount
  <2> QED
    BY <1>1, <2>1, RefusedAcross
<1>2. CASE ParsedManifest(bytes) # {}
  <2>1. page' = [page EXCEPT !.stage = "mounted", !.bytes = <<bytes>>, !.sig = sig, !.seen = @ \cup {n}]
    BY <1>2 DEF Mount
  <2>2. /\ PageShape' /\ page'.stage = "mounted" /\ page'.seen = page.seen \cup {n}
        /\ page'.via = page.via /\ page'.from = page.from /\ page'.keys = page.keys /\ page'.ids = page.ids
    BY <2>1 DEF PageShape, PageFields
  <2>3. IsFiniteSet(page'.seen)
    BY <2>2, FS_AddElement DEF PageTracked
  <2>4. FromRelease'
    BY <2>2 DEF FromRelease
  <2> QED
    BY <2>2, <2>3, <2>4 DEF PageTracked
<1> QED
  BY <1>1, <1>2

(* An add-on the page's registry lists loads from the page's release.       *)
LEMMA ListedLoads ==
    ASSUME ReleasesGated, FromRelease, page.addon \in page.ids
    PROVE  Loadable(releases[page.from], page.addon)
BY DEF ReleasesGated, FromRelease, Gated

LEMMA ManifestTracked ==
    ASSUME RInv, NEW n \in Answers, ManifestAnswered(n), UNCHANGED releases
    PROVE  PageShape' /\ PageTracked'
<1> DEFINE found == releases[n].manifests
<1>0. page.stage = "manifest" /\ FromRelease /\ page.addon \in page.ids /\ page.from \in page.seen
  BY DEF RInv, PageTracked, Loading, ManifestAnswered
<1>1. Loadable(releases[page.from], page.addon)
  BY <1>0, ListedLoads DEF RInv
<1>2. CASE page.addon \notin DOMAIN found
  <2>1. Refuse(n, "http") /\ n # page.from
    BY <1>1, <1>2 DEF ManifestAnswered, Loadable
  <2> QED
    BY <1>0, <2>1, RefusedAcross DEF RInv
<1>3. CASE page.addon \in DOMAIN found /\ page.mode = "none"
  <2>1. Mount(n, found[page.addon], <<>>)
    BY <1>3 DEF ManifestAnswered
  <2>2. ParsedManifest(found[page.addon]) # {} \/ n # page.from
    BY <1>1 DEF Loadable
  <2> QED
    BY <1>0, <2>1, <2>2, MountTracked DEF RInv
<1>4. CASE page.addon \in DOMAIN found /\ page.mode # "none"
  <2>1. page.keys # {}
    BY <1>0, <1>1 DEF Loadable, Verified, VerifyResult, FromRelease
  <2>2. page' = [page EXCEPT !.stage = "signature", !.bytes = <<found[page.addon]>>, !.seen = @ \cup {n}]
    BY <1>4, <2>1 DEF ManifestAnswered
  <2>3. /\ PageShape' /\ page'.stage = "signature" /\ page'.seen = page.seen \cup {n}
        /\ page'.via = page.via /\ page'.from = page.from /\ page'.keys = page.keys /\ page'.ids = page.ids
        /\ page'.addon = page.addon /\ page'.bytes = <<found[page.addon]>>
    BY <2>2 DEF RInv, PageShape, PageFields
  <2>4. IsFiniteSet(page'.seen)
    BY <2>3, FS_AddElement DEF RInv, PageTracked
  <2>5. FromRelease'
    BY <1>0, <2>3 DEF FromRelease
  <2>6. Several(page'.seen) \/ n = page.from
    BY <1>0, <2>3 DEF Several
  <2>7. page'.bytes[1] = found[page.addon]
    BY <2>3
  <2>8. Loading'
    BY <1>0, <2>3, <2>6, <2>7 DEF Loading
  <2> QED
    BY <2>3, <2>4, <2>5, <2>8 DEF PageTracked
<1> QED
  BY <1>2, <1>3, <1>4

LEMMA SignatureTracked ==
    ASSUME RInv, NEW n \in Answers, SignatureAnswered(n), UNCHANGED releases
    PROVE  PageShape' /\ PageTracked'
<1> DEFINE found == releases[n].sigs
           bytes == page.bytes[1]
           result == VerifyResult(bytes, found[page.addon], page.keys)
<1>0. page.stage = "signature" /\ FromRelease /\ Loading /\ page.from \in page.seen
  BY DEF RInv, PageTracked, Loading, SignatureAnswered
<1>1. Loadable(releases[page.from], page.addon)
  BY <1>0, ListedLoads DEF RInv, Loading
<1> DEFINE own == n = page.from /\ ~Several(page.seen)
<1>2. own => /\ page.addon \in DOMAIN found /\ ValidSignature(found[page.addon])
             /\ result = "ok" /\ ParsedManifest(bytes) # {}
  BY <1>0, <1>1 DEF Loading, Loadable, Verified, FromRelease
<1>3. CASE page.addon \notin DOMAIN found /\ page.mode = "required"
  <2>1. Refuse(n, "missing")
    BY <1>3 DEF SignatureAnswered
  <2> QED
    BY <1>0, <1>2, <1>3, <2>1, RefusedAcross DEF RInv
<1>4. CASE page.addon \notin DOMAIN found /\ page.mode # "required"
  <2>1. Mount(n, bytes, <<>>)
    BY <1>4 DEF SignatureAnswered
  <2> QED
    BY <1>0, <1>2, <2>1, MountTracked DEF RInv
<1>5. CASE page.addon \in DOMAIN found /\ ~ValidSignature(found[page.addon])
  <2>1. Refuse(n, "payload")
    BY <1>5 DEF SignatureAnswered
  <2> QED
    BY <1>0, <1>2, <1>5, <2>1, RefusedAcross DEF RInv
<1>6. CASE page.addon \in DOMAIN found /\ ValidSignature(found[page.addon]) /\ result # "ok"
  <2>1. Refuse(n, result)
    BY <1>6 DEF SignatureAnswered
  <2> QED
    BY <1>0, <1>2, <1>6, <2>1, RefusedAcross DEF RInv
<1>7. CASE page.addon \in DOMAIN found /\ ValidSignature(found[page.addon]) /\ result = "ok"
  <2>1. Mount(n, bytes, <<found[page.addon]>>)
    BY <1>7 DEF SignatureAnswered
  <2> QED
    BY <1>0, <1>2, <2>1, MountTracked DEF RInv
<1> QED
  BY <1>3, <1>4, <1>5, <1>6, <1>7

LEMMA PageTracks ==
    ASSUME RInv, Page, UNCHANGED releases
    PROVE  PageShape' /\ PageTracked'
<1> USE DEF RInv
<1>1. ASSUME NEW via \in {"launcher", "hand-off"}, NEW n \in DOMAIN releases, Read(via, n)
      PROVE  PageShape' /\ PageTracked'
  <2>1. /\ PageShape' /\ page'.stage = "idle" /\ page'.seen = {}
        /\ page'.via = via /\ page'.from = n /\ page'.keys = releases[n].registry.trustedKeys
        /\ page'.ids = {e.path : e \in Range(releases[n].registry.addons)}
    BY <1>1 DEF Read, NothingRead, PageShape, PageFields
  <2>2. IsFiniteSet(page'.seen)
    BY <2>1, FS_EmptySet
  <2> QED
    BY <2>1, <2>2 DEF PageTracked, FromRelease
<1>2. \A n \in Answers : n \in DOMAIN releases
  <2>1. PICK S : releases \in Seq(S)
    BY DEF ReleasesInOrder
  <2> QED
    BY <2>1 DEF Answers
<1>3. ASSUME NEW n \in Answers, OpenLauncher(n) PROVE PageShape' /\ PageTracked'
  BY <1>1, <1>2, <1>3 DEF OpenLauncher
<1>4. ASSUME NEW n \in Answers, OpenHandoff(n) PROVE PageShape' /\ PageTracked'
  <2>1. CASE HandoffAccepts(releases[n].registry)
    BY <1>1, <1>2, <1>4, <2>1 DEF OpenHandoff
  <2>2. CASE ~HandoffAccepts(releases[n].registry)
    <3>1. page' = [NothingRead EXCEPT !.via = "refused hand-off", !.seen = {n}]
      BY <1>4, <2>2 DEF OpenHandoff
    <3>2. PageShape' /\ page'.stage = "idle" /\ page'.seen = {n} /\ page'.via = "refused hand-off"
      BY <3>1 DEF NothingRead, PageShape, PageFields
    <3>3. IsFiniteSet(page'.seen)
      BY <3>2, FS_Singleton
    <3> QED
      BY <3>2, <3>3 DEF PageTracked
  <2> QED
    BY <2>1, <2>2
<1>5. ASSUME NEW a \in Addons, NEW mode \in Modes, StartLoad(a, mode) PROVE PageShape' /\ PageTracked'
  <2>1. /\ PageShape' /\ page'.stage = "manifest" /\ page'.seen = {page.from} /\ page'.addon = a
        /\ page'.via = page.via /\ page'.from = page.from /\ page'.keys = page.keys /\ page'.ids = page.ids
    BY <1>5 DEF StartLoad, PageShape, PageFields
  <2>2. IsFiniteSet(page'.seen)
    BY <2>1, FS_Singleton
  <2>3. FromRelease /\ a \in page.ids
    BY <1>5 DEF StartLoad, PageTracked
  <2>4. FromRelease' /\ Loading'
    BY <2>1, <2>3 DEF FromRelease, Loading
  <2> QED
    BY <2>1, <2>2, <2>4 DEF PageTracked
<1>6. ASSUME LoadOver PROVE PageShape' /\ PageTracked'
  <2>1. FromRelease
    BY <1>6 DEF LoadOver, PageTracked
  <2> QED
    BY <1>1, <1>6, <2>1 DEF LoadOver, FromRelease
<1>7. ASSUME Reload PROVE PageShape' /\ PageTracked'
  <2>1. PageShape' /\ page'.stage = "idle" /\ page'.seen = {} /\ page'.via = "nothing"
    BY <1>7 DEF Reload, NothingRead, PageShape, PageFields
  <2> QED
    BY <2>1, FS_EmptySet DEF PageTracked
<1>8. ASSUME FetchFails PROVE PageShape' /\ PageTracked'
  <2>1. /\ PageShape' /\ page'.stage = "refused" /\ page'.reason = "fetch" /\ page'.seen = page.seen
        /\ page'.via = page.via /\ page'.from = page.from /\ page'.keys = page.keys /\ page'.ids = page.ids
    BY <1>8 DEF FetchFails, PageShape, PageFields
  <2>2. FromRelease
    BY <1>8 DEF FetchFails, PageTracked
  <2> QED
    BY <2>1, <2>2 DEF PageTracked, FromRelease
<1> QED
  BY <1>3, <1>4, <1>5, <1>6, <1>7, <1>8, ManifestTracked, SignatureTracked DEF Page

LEMMA RInvInit == Init => RInv
<1> SUFFICES ASSUME Init PROVE RInv
  OBVIOUS
<1>1. ReleasesInOrder /\ TreeParses /\ ReleasesGated
  BY FirstReleaseGated DEF Init
<1>2. page = NothingRead
  BY DEF Init, PageInit
<1>3. PageShape /\ page.seen = {} /\ page.via = "nothing" /\ page.stage = "idle"
  BY <1>2 DEF NothingRead, PageShape, PageFields
<1> QED
  BY <1>1, <1>3, FS_EmptySet DEF RInv, PageTracked

(* Which reader there is tells the add-ons the publisher works on.          *)
ReaderKnown == reader \in {"page", "nobody", "gallery"}

LEMMA RInvStep == RInv /\ ReaderKnown /\ [Next]_vars => RInv' /\ ReaderKnown'
<1> SUFFICES ASSUME RInv, ReaderKnown, [Next]_vars PROVE RInv' /\ ReaderKnown'
  OBVIOUS
<1>1. ASSUME TreeParses', ReleasesInOrder', ReleasesGated', UNCHANGED <<page, reader>>,
             \A n \in DOMAIN releases : n \in DOMAIN releases' /\ releases'[n] = releases[n]
      PROVE  RInv' /\ ReaderKnown'
  <2>1. PageShape' /\ ReaderKnown'
    BY <1>1 DEF RInv, PageShape, ReaderKnown
  <2>2. FromRelease => FromRelease'
    BY <1>1 DEF FromRelease
  <2>3. FromRelease /\ Loading => Loading'
    BY <1>1 DEF FromRelease, Loading
  <2>4. PageTracked'
    BY <1>1, <2>2, <2>3 DEF RInv, PageTracked
  <2> QED
    BY <1>1, <2>1, <2>4 DEF RInv
<1>2. CASE reader # "gallery" /\ Publish(Works[reader]) /\ UNCHANGED <<page, reader>>
  <2>1. Works[reader] \in SUBSET Addons
    BY <1>2, SupplyConstants DEF ReaderKnown
  <2> QED
    BY <1>1, <1>2, <2>1, PublishGated DEF RInv
<1>3. CASE Release /\ UNCHANGED <<page, reader>>
  BY <1>1, <1>3, ReleaseGated DEF RInv
<1>4. CASE Page /\ UNCHANGED <<publisherVars, reader>>
  <2>1. UNCHANGED <<manifests, releases>>
    BY <1>4 DEF publisherVars, tree
  <2>2. TreeParses' /\ ReleasesInOrder' /\ ReleasesGated' /\ ReaderKnown'
    BY <1>4, <2>1 DEF RInv, TreeParses, ReleasesInOrder, ReleasesGated, ReaderKnown
  <2> QED
    BY <1>4, <2>1, <2>2, PageTracks DEF RInv
<1>5. CASE UNCHANGED <<publisherVars, page>> /\ reader' \in {reader, "gallery"}
  <2>1. UNCHANGED <<manifests, releases, page>>
    BY <1>5 DEF publisherVars, tree
  <2> QED
    BY <1>5, <2>1 DEF RInv, TreeParses, ReleasesInOrder, ReleasesGated, ReaderKnown,
       PageShape, PageTracked, FromRelease, Loading
<1> QED
  BY <1>2, <1>3, <1>4, <1>5 DEF Next, OpenGallery, vars

(* What verify-official-addons.ts has passed loads: AddonHost.load()        *)
(* refuses an add-on of the registry the page has read only if a fetch      *)
(* failed or it was answered from more than one release, for any releases   *)
(* and any keys.                                                            *)
THEOREM GatedAddonsLoad == Spec => []RefusedOnlyAcrossReleases
<1>1. RInv => RefusedOnlyAcrossReleases
  BY SeveralCounts DEF RInv, PageTracked, RefusedOnlyAcrossReleases
<1>2. Init => ReaderKnown
  BY DEF Init, ReaderKnown
<1> QED
  BY RInvInit, RInvStep, <1>1, <1>2, PTL DEF Spec

-----------------------------------------------------------------------------
(* The gallery. Its runs overlap, and each of them fetches documents of any *)
(* releases; nothing is assumed of the order in which they are answered.    *)

IsSequence(s) == s \in Seq(Range(s))

(* A row with the badge "verified": its bytes were signed by a key of the   *)
(* registry it is shown under.                                              *)
Vouched(row) == row.result = "ok" => \E k \in row.keys : <<k, row.bytes[1]>> \in signed

(* A publisher's index that is being loaded: whatever it has was answered   *)
(* from a release, and once it is done it has every file it asked for.      *)
JobFields == {"url", "via", "stage", "ok", "from", "mode", "files"}

JobInv(job) ==
    /\ job = [f \in JobFields |-> job[f]]
    /\ job.stage \in {"index", "files", "done"}
    /\ job.stage = "index" => ~job.ok
    /\ job.stage = "files" => job.ok
    /\ job.ok => job.from \in DOMAIN releases
    /\ \A x \in DOMAIN job.files : job.files[x] \in DOMAIN releases
    /\ job.ok /\ job.stage = "done" => FilesOf(job) \subseteq DOMAIN job.files

RunFields == {"array", "shared", "at", "bypass", "previous", "mode", "jobs"}

RunInv(run) ==
    /\ run = [f \in RunFields |-> run[f]]
    /\ run.at \in Nat \ {0}
    /\ IsSequence(run.jobs) /\ \A i \in DOMAIN run.jobs : JobInv(run.jobs[i])

(* The registries that are accounted for, and a run that will account for   *)
(* the rest of the list: it goes through the list as it is now, and has     *)
(* accounted for what is before its place since the state was cleared.      *)
Known == loaded \cup failed

Visiting(run) ==
    /\ run.array = list /\ run.at \in DOMAIN list
    /\ \A j \in 1 .. (run.at - 1) : list[j] \in Known

OnItsWay == Range(list) \subseteq Known \/ \E r \in DOMAIN runs : Visiting(runs[r])

SitesInOrder ==
    /\ "addons" \in DOMAIN registry /\ IsSequence(registry.addons)
    /\ IsSequence(releases) /\ releases # <<>>
    /\ \A n \in DOMAIN releases : IsSequence(releases[n].registry.addons)

ListsInOrder == IsSequence(list) /\ IsSequence(stored) /\ IsSequence(runs) /\ IsSequence(rows)
RunsHold == \A r \in DOMAIN runs : RunInv(runs[r])
RowsVouched == \A i \in DOMAIN rows : Vouched(rows[i])

GInv == SitesInOrder /\ ListsInOrder /\ RunsHold /\ RowsVouched /\ OnItsWay

-----------------------------------------------------------------------------
(* Sequences.                                                               *)

(* Induction: a set of numbers has a least one.                             *)
LEMMA LeastNumber ==
    ASSUME NEW W, W \subseteq Nat, W # {}
    PROVE  \E n \in W : \A k \in W : n <= k
<1>1. PICK top \in W : TRUE
  OBVIOUS
<1> DEFINE B == {0 .. n : n \in W \cap 0 .. top}
<1>2. IsWellFoundedOn(StrictSubsetOrdering(0 .. top), SUBSET (0 .. top))
  <2>1. IsFiniteSet(0 .. top)
    BY <1>1, FS_Interval
  <2> QED
    BY <2>1, FS_StrictSubsetOrderingWellFounded, FS_FiniteSubsetsOfFinite
<1>3. B \subseteq SUBSET (0 .. top) /\ B # {}
  BY <1>1
<1>4. PICK T \in B : \A U \in B : ~ (<<U, T>> \in StrictSubsetOrdering(0 .. top))
  <2> HIDE DEF B
  <2> QED
    BY <1>2, <1>3, WFMin
<1>5. PICK n \in W \cap 0 .. top : T = 0 .. n
  OBVIOUS
<1>6. ASSUME NEW k \in W, ~ (n <= k) PROVE FALSE
  <2>1. k \in Nat /\ n \in Nat /\ top \in Nat /\ k < n /\ k \in 0 .. top
    BY <1>1, <1>5, <1>6
  <2>2. 0 .. k \subseteq 0 .. n /\ 0 .. k # 0 .. n /\ 0 .. n \subseteq 0 .. top
    BY <1>5, <2>1
  <2>3. 0 .. k \in B /\ <<0 .. k, 0 .. n>> \in StrictSubsetOrdering(0 .. top)
    BY <1>6, <2>1, <2>2 DEF StrictSubsetOrdering
  <2> QED
    BY <1>4, <1>5, <2>3
<1> QED
  BY <1>5, <1>6

(* The function that FlattenSeq is defined by.                              *)
Flat(flat, seqs, n) ==
    flat = [i \in 1 .. n |-> IF i = 1 THEN seqs[i] ELSE flat[i - 1] \o seqs[i]]

LEMMA FlatExists ==
    ASSUME NEW seqs, NEW len \in Nat
    PROVE  \E flat : Flat(flat, seqs, len)
<1> DEFINE W == {n \in Nat : ~ \E flat : Flat(flat, seqs, n)}
<1> SUFFICES ASSUME W # {} PROVE FALSE
  OBVIOUS
<1>1. W \subseteq Nat
  OBVIOUS
<1> HIDE DEF W
<1>2. PICK n \in W : \A k \in W : n <= k
  BY <1>1, LeastNumber
<1> USE DEF W
<1>3. CASE n = 0
  <2> DEFINE h == [i \in 1 .. 0 |-> <<>>]
  <2>1. h = [i \in 1 .. 0 |-> IF i = 1 THEN seqs[i] ELSE h[i - 1] \o seqs[i]]
    OBVIOUS
  <2> HIDE DEF h
  <2>2. Flat(h, seqs, 0)
    BY <2>1 DEF Flat
  <2> QED
    BY <1>2, <1>3, <2>2
<1>4. CASE n # 0
  <2>1. n \in Nat /\ n - 1 \in Nat /\ n - 1 \notin W
    BY <1>1, <1>2, <1>4
  <2>2. PICK flat : Flat(flat, seqs, n - 1)
    BY <2>1
  <2>3. \A i \in 1 .. (n - 1) : flat[i] = IF i = 1 THEN seqs[i] ELSE flat[i - 1] \o seqs[i]
    BY <2>2, Zenon DEF Flat
  <2> DEFINE h == [i \in 1 .. n |->
                     IF i = n THEN IF n = 1 THEN seqs[1] ELSE flat[n - 1] \o seqs[n] ELSE flat[i]]
  <2>4. \A i \in 1 .. n :
            /\ i # 1 => i - 1 \in 1 .. (n - 1) /\ i - 1 \in 1 .. n /\ i - 1 # n
            /\ i # n => i \in 1 .. (n - 1)
    BY <2>1
  <2>5. \A i \in 1 .. n : h[i] = IF i = 1 THEN seqs[i] ELSE h[i - 1] \o seqs[i]
    BY <1>4, <2>3, <2>4
  <2>6. h = [i \in 1 .. n |-> h[i]]
    OBVIOUS
  <2> HIDE DEF h
  <2>7. Flat(h, seqs, n)
    BY <2>5, <2>6 DEF Flat
  <2> QED
    BY <1>2, <2>7
<1> QED
  BY <1>3, <1>4

LEMMA FlattenType ==
    ASSUME NEW M, NEW seqs \in Seq(Seq(M))
    PROVE  FlattenSeq(seqs) \in Seq(M)
<1> DEFINE n == Len(seqs)
           flat == CHOOSE f : Flat(f, seqs, n)
<1>1. n \in Nat /\ \A i \in 1 .. n : seqs[i] \in Seq(M)
  OBVIOUS
<1>2. CASE n = 0
  BY <1>2 DEF FlattenSeq
<1>3. CASE n # 0
  <2>1. FlattenSeq(seqs) = flat[n]
    BY <1>3 DEF FlattenSeq, Flat
  <2>2. Flat(flat, seqs, n)
    BY <1>1, FlatExists
  <2> HIDE DEF flat, n
  <2>3. \A i \in 1 .. n : flat[i] = IF i = 1 THEN seqs[i] ELSE flat[i - 1] \o seqs[i]
    BY <2>2, Zenon DEF Flat
  <2> DEFINE W == {i \in 1 .. n : flat[i] \notin Seq(M)}
  <2>4. W = {}
    <3> SUFFICES ASSUME W # {} PROVE FALSE
      OBVIOUS
    <3>1. W \subseteq Nat
      OBVIOUS
    <3> HIDE DEF W
    <3>2. PICK k \in W : \A j \in W : k <= j
      BY <3>1, LeastNumber
    <3>3. k \in 1 .. n /\ flat[k] \notin Seq(M)
      BY DEF W
    <3>4. k # 1
      BY <1>1, <2>3, <3>3
    <3>5. k - 1 \in 1 .. n /\ k - 1 \notin W
      BY <1>1, <3>1, <3>2, <3>3, <3>4
    <3>6. flat[k - 1] \in Seq(M)
      BY <3>5 DEF W
    <3>7. seqs[k] \in Seq(M) /\ flat[k] = flat[k - 1] \o seqs[k]
      BY <1>1, <2>3, <3>3, <3>4
    <3>8. flat[k - 1] \o seqs[k] \in Seq(M)
      BY <3>6, <3>7
    <3> QED
      BY <3>3, <3>7, <3>8
  <2> QED
    BY <1>1, <1>3, <2>1, <2>4
<1> QED
  BY <1>2, <1>3

LEMMA IndexedSequence ==
    ASSUME NEW n \in Nat, NEW f, f = [i \in 1 .. n |-> f[i]]
    PROVE  IsSequence(f)
<1>1. f \in Seq({f[i] : i \in 1 .. n})
  OBVIOUS
<1>2. Range(f) = {f[i] : i \in 1 .. n}
  BY DEF Range
<1> QED
  BY <1>1, <1>2 DEF IsSequence

LEMMA InSequence ==
    ASSUME NEW S, NEW s \in Seq(S)
    PROVE  IsSequence(s)
<1>1. Len(s) \in Nat /\ DOMAIN s = 1 .. Len(s) /\ s = [i \in 1 .. Len(s) |-> s[i]]
  OBVIOUS
<1>2. \A i \in 1 .. Len(s) : s[i] \in Range(s)
  BY <1>1 DEF Range
<1> QED
  BY <1>1, <1>2 DEF IsSequence

LEMMA AppendedSequence ==
    ASSUME NEW s, IsSequence(s), NEW e
    PROVE  /\ IsSequence(Append(s, e)) /\ DOMAIN Append(s, e) = DOMAIN s \cup {Len(s) + 1}
           /\ Append(s, e)[Len(s) + 1] = e
           /\ \A i \in DOMAIN s : Append(s, e)[i] = s[i]
<1>1. s \in Seq(Range(s) \cup {e})
  BY DEF IsSequence
<1>2. Append(s, e) \in Seq(Range(s) \cup {e})
  BY <1>1
<1>3. IsSequence(Append(s, e))
  BY <1>2, InSequence
<1>4. /\ DOMAIN Append(s, e) = DOMAIN s \cup {Len(s) + 1}
      /\ Append(s, e)[Len(s) + 1] = e
      /\ \A i \in DOMAIN s : Append(s, e)[i] = s[i]
  BY <1>1
<1> QED
  BY <1>3, <1>4

(* What is left of a sequence is in it, and only the i-th is gone.          *)
LEMMA RemoveAtKeeps ==
    ASSUME NEW s, IsSequence(s), NEW i \in DOMAIN s
    PROVE  /\ IsSequence(RemoveAt(s, i))
           /\ \A j \in DOMAIN RemoveAt(s, i) : \E k \in DOMAIN s : RemoveAt(s, i)[j] = s[k]
           /\ \A k \in DOMAIN s \ {i} : \E j \in DOMAIN RemoveAt(s, i) : RemoveAt(s, i)[j] = s[k]
<1> DEFINE M == Range(s)
           front == SubSeq(s, 1, i - 1)
           back == SubSeq(s, i + 1, Len(s))
<1>1. s \in Seq(M) /\ Len(s) \in Nat /\ DOMAIN s = 1 .. Len(s) /\ i \in 1 .. Len(s)
  BY DEF IsSequence
<1> HIDE DEF M
<1>2. front \in Seq(M) /\ Len(front) = i - 1 /\ \A j \in 1 .. (i - 1) : front[j] = s[j]
  BY <1>1
<1>3. back \in Seq(M) /\ Len(back) = Len(s) - i /\ \A j \in 1 .. (Len(s) - i) : back[j] = s[i + j]
  BY <1>1
<1> HIDE DEF front, back
<1> DEFINE t == front \o back
<1>4. RemoveAt(s, i) = t
  BY DEF RemoveAt, front, back
<1>5. /\ t \in Seq(M) /\ Len(t) = Len(s) - 1 /\ DOMAIN t = 1 .. (Len(s) - 1)
      /\ \A j \in 1 .. (Len(s) - 1) : t[j] = IF j <= i - 1 THEN front[j] ELSE back[j - (i - 1)]
  <2>1. t \in Seq(M) /\ Len(t) = Len(front) + Len(back) /\ DOMAIN t = 1 .. Len(t)
    BY <1>2, <1>3, ConcatProperties, LenProperties
  <2>2. Len(t) = Len(s) - 1
    BY <1>1, <1>2, <1>3, <2>1
  <2>3. \A j \in 1 .. Len(t) : t[j] = IF j <= Len(front) THEN front[j] ELSE back[j - Len(front)]
    BY <1>2, <1>3
  <2> HIDE DEF t
  <2> QED
    BY <1>2, <2>1, <2>2, <2>3
<1> HIDE DEF t
<1>6. \A j \in DOMAIN t : t[j] = IF j < i THEN s[j] ELSE s[j + 1]
  <2> TAKE j \in DOMAIN t
  <2>1. CASE j < i
    BY <1>1, <1>2, <1>5, <2>1
  <2>2. CASE ~(j < i)
    <3>1. j - (i - 1) \in 1 .. (Len(s) - i) /\ i + (j - (i - 1)) = j + 1 /\ ~(j <= i - 1)
      BY <1>1, <1>5, <2>2
    <3> QED
      BY <1>3, <1>5, <2>2, <3>1
  <2> QED
    BY <2>1, <2>2
<1>7. \A j \in DOMAIN t : \E k \in DOMAIN s : t[j] = s[k]
  BY <1>1, <1>5, <1>6
<1>8. ASSUME NEW k \in DOMAIN s \ {i} PROVE \E j \in DOMAIN t : t[j] = s[k]
  <2>1. CASE k < i
    <3>1. k \in DOMAIN t
      BY <1>1, <1>5, <2>1
    <3> QED
      BY <1>6, <2>1, <3>1
  <2>2. CASE k > i
    <3>1. k - 1 \in DOMAIN t /\ ~(k - 1 < i) /\ (k - 1) + 1 = k
      BY <1>1, <1>5, <2>2
    <3>2. t[k - 1] = s[k]
      BY <1>6, <3>1
    <3> QED
      BY <3>1, <3>2
  <2> QED
    BY <1>1, <2>1, <2>2
<1>9. IsSequence(t)
  BY <1>5, InSequence
<1> QED
  BY <1>4, <1>7, <1>8, <1>9

LEMMA WithoutType ==
    ASSUME NEW urls, IsSequence(urls), NEW url
    PROVE  IsSequence(Without(urls, url))
<1> DEFINE M == Range(urls)
           part(i) == IF urls[i] = url THEN <<>> ELSE <<urls[i]>>
           parts == [i \in DOMAIN urls |-> part(i)]
<1>1. urls \in Seq(M) /\ Len(urls) \in Nat /\ DOMAIN urls = 1 .. Len(urls)
  BY DEF IsSequence
<1> HIDE DEF M
<1>2. \A i \in 1 .. Len(urls) : part(i) \in Seq(M)
  BY <1>1
<1> HIDE DEF part
<1>3. parts \in Seq(Seq(M))
  BY <1>1, <1>2
<1>4. FlattenSeq(parts) \in Seq(M)
  BY <1>3, FlattenType
<1>5. Without(urls, url) = FlattenSeq(parts)
  BY DEF Without, part
<1> QED
  BY <1>4, <1>5, InSequence

LEMMA RegistriesType ==
    ASSUME NEW saved, IsSequence(saved)
    PROVE  IsSequence(Registries(saved))
<1> DEFINE once == {i \in DOMAIN saved : \A j \in 1 .. (i - 1) : saved[j] # saved[i]}
           kept == [i \in 1 .. Cardinality(once) |-> saved[SetToSortSeq(once, <)[i]]]
<1>1. IsFiniteSet(DOMAIN saved)
  <2>1. Len(saved) \in Nat /\ DOMAIN saved = 1 .. Len(saved)
    BY DEF IsSequence
  <2> QED
    BY <2>1, FS_Interval
<1>2. Cardinality(once) \in Nat
  BY <1>1, FS_Subset, FS_CardinalityType
<1>3. Registries(saved) = IF kept = <<>> THEN <<Official>> ELSE kept
  BY DEF Registries
<1>4. kept = [i \in 1 .. Cardinality(once) |-> kept[i]]
  OBVIOUS
<1> HIDE DEF kept, once
<1>5. IsSequence(kept)
  BY <1>2, <1>4, IndexedSequence
<1>6. <<Official>> \in Seq({Official})
  OBVIOUS
<1>7. IsSequence(<<Official>>)
  BY <1>6, InSequence
<1> QED
  BY <1>3, <1>5, <1>7

LEMMA PublishersType ==
    ASSUME NEW o, IsSequence(o.publishers)
    PROVE  IsSequence(NormalPublishers(o))
<1> DEFINE first == {i \in DOMAIN o.publishers :
                        /\ o.publishers[i].url # "bad"
                        /\ \A j \in 1 .. (i - 1) : o.publishers[j].url # o.publishers[i].url}
<1>1. IsFiniteSet(DOMAIN o.publishers)
  <2>1. Len(o.publishers) \in Nat /\ DOMAIN o.publishers = 1 .. Len(o.publishers)
    BY DEF IsSequence
  <2> QED
    BY <2>1, FS_Interval
<1>2. Cardinality(first) \in Nat
  BY <1>1, FS_Subset, FS_CardinalityType
<1>3. PICK n \in Nat : NormalPublishers(o) = [i \in 1 .. n |-> NormalPublishers(o)[i]]
  BY <1>2 DEF NormalPublishers
<1> QED
  BY <1>3, IndexedSequence

LEMMA ReplacedSequence ==
    ASSUME NEW s, IsSequence(s), NEW i \in DOMAIN s, NEW e
    PROVE  /\ IsSequence([s EXCEPT ![i] = e])
           /\ DOMAIN [s EXCEPT ![i] = e] = DOMAIN s
           /\ \A j \in DOMAIN s : [s EXCEPT ![i] = e][j] = IF j = i THEN e ELSE s[j]
<1>1. s \in Seq(Range(s) \cup {e})
  BY DEF IsSequence
<1>2. [s EXCEPT ![i] = e] \in Seq(Range(s) \cup {e})
  BY <1>1
<1>3. IsSequence([s EXCEPT ![i] = e])
  BY <1>2, InSequence
<1> QED
  BY <1>3

-----------------------------------------------------------------------------
(* Loading an index.                                                        *)

(* Every fetch is answered from a release.                                  *)
LEMMA AnswersAreReleases ==
    ASSUME SitesInOrder, NEW mode, NEW n \in Answered(mode)
    PROVE  n \in DOMAIN releases
BY DEF SitesInOrder, IsSequence, Answered

LEMMA JobBegins ==
    ASSUME NEW url, NEW via, NEW mode
    PROVE  JobInv(Job(url, via, mode)) /\ Job(url, via, mode).stage = "index"
BY DEF JobInv, JobFields, Job

LEMMA IndexKeeps ==
    ASSUME NEW job, JobInv(job), job.stage = "index", NEW n \in DOMAIN releases
    PROVE  JobInv(WithIndex(job, n))
<1> DEFINE read == [job EXCEPT !.from = n, !.ok = TRUE, !.stage = "files"]
           over == [job EXCEPT !.stage = "done"]
           none == [read EXCEPT !.stage = "done"]
<1>1. JobInv(over)
  BY DEF JobInv, JobFields
<1>2. JobInv(read)
  BY DEF JobInv, JobFields
<1>3. ASSUME releases[n].registry.addons = <<>> PROVE JobInv(none)
  <2>1. /\ none = [f \in JobFields |-> none[f]] /\ none.stage = "done" /\ none.ok /\ none.from = n
        /\ none.files = job.files
    BY DEF JobInv, JobFields
  <2>2. FilesOf(none) = {}
    BY <1>3, <2>1 DEF FilesOf, EntriesOf
  <2> QED
    BY <2>1, <2>2 DEF JobInv
<1>4. WithIndex(job, n) = over \/ WithIndex(job, n) = read
      \/ (WithIndex(job, n) = none /\ releases[n].registry.addons = <<>>)
  BY DEF WithIndex
<1> QED
  BY <1>1, <1>2, <1>3, <1>4

LEMMA ModeKeeps ==
    ASSUME NEW job, JobInv(job), NEW mode
    PROVE  JobInv([job EXCEPT !.mode = mode])
<1> DEFINE new == [job EXCEPT !.mode = mode]
<1>1. /\ new = [f \in JobFields |-> new[f]] /\ new.stage = job.stage /\ new.ok = job.ok
      /\ new.from = job.from /\ new.files = job.files
  BY DEF JobInv, JobFields
<1>2. FilesOf(new) = FilesOf(job)
  BY <1>1 DEF FilesOf, EntriesOf
<1> QED
  BY <1>1, <1>2 DEF JobInv

LEMMA FileKeeps ==
    ASSUME NEW job, JobInv(job), job.stage = "files", NEW x \in FilesOf(job), NEW n \in DOMAIN releases
    PROVE  JobInv(WithFile(job, x, n))
<1> DEFINE files == Put(job.files, x, n)
           stage == IF DOMAIN files = FilesOf(job) THEN "done" ELSE "files"
           new == [job EXCEPT !.files = files, !.stage = stage]
<1>1. DOMAIN files = DOMAIN job.files \cup {x} /\ \A y \in DOMAIN files : files[y] \in DOMAIN releases
  BY DEF Put, JobInv
<1>2. /\ new = [f \in JobFields |-> new[f]] /\ new.stage = stage /\ new.ok = job.ok
      /\ new.from = job.from /\ new.files = files
  BY DEF JobInv, JobFields
<1>3. FilesOf(new) = FilesOf(job)
  BY <1>2 DEF FilesOf, EntriesOf
<1>4. new = WithFile(job, x, n)
  BY DEF WithFile
<1> HIDE DEF new, files
<1>5. JobInv(new)
  BY <1>1, <1>2, <1>3 DEF JobInv
<1> QED
  BY <1>4, <1>5

(* A card says "verified" of bytes that a key of its registry has signed:   *)
(* the three were answered from releases, and what those hold is recorded.  *)
LEMMA RowsAreVouched ==
    ASSUME ReleasesRecorded, SitesInOrder, NEW job, JobInv(job), job.stage = "done"
    PROVE  IsSequence(RowsOf(job)) /\ \A row \in Range(RowsOf(job)) : Vouched(row)
<1>1. CASE ~job.ok
  <2>1. RowsOf(job) = <<>>
    BY <1>1 DEF RowsOf
  <2> QED
    BY <2>1 DEF IsSequence, Range
<1>2. CASE job.ok
  <2> DEFINE es == EntriesOf(job)
             rs == RowsOf(job)
  <2>1. job.from \in DOMAIN releases /\ FilesOf(job) \subseteq DOMAIN job.files
    BY <1>2 DEF JobInv
  <2>2. IsSequence(es)
    BY <2>1 DEF SitesInOrder, EntriesOf
  <2>3. rs = [i \in DOMAIN es |-> rs[i]]
    BY <1>2 DEF RowsOf
  <2>4. IsSequence(rs)
    <3>1. Len(es) \in Nat /\ DOMAIN es = 1 .. Len(es)
      BY <2>2 DEF IsSequence
    <3> QED
      BY <2>3, <3>1, IndexedSequence
  <2>5. ASSUME NEW i \in DOMAIN es PROVE Vouched(rs[i])
    <3> DEFINE m == job.files[<<i, "manifest">>]
               g == job.files[<<i, "sig">>]
               path == es[i].path
               bytes == releases[m].manifests
               found == releases[g].sigs
               keys == releases[job.from].registry.trustedKeys
    <3>1. /\ rs[i].keys = keys /\ rs[i].result = RowResult(job, i)
          /\ rs[i].bytes = IF path \in DOMAIN bytes THEN <<bytes[path]>> ELSE <<>>
      BY <1>2, <2>5 DEF RowsOf
    <3>2. g \in DOMAIN releases
      BY <2>1, <2>5 DEF FilesOf, JobInv
    <3>3. SUFFICES ASSUME RowResult(job, i) = "ok" PROVE \E k \in keys : <<k, rs[i].bytes[1]>> \in signed
      BY <3>1 DEF Vouched
    <3>4. /\ path \in DOMAIN bytes /\ path \in DOMAIN found
          /\ VerifyResult(bytes[path], found[path], keys) = "ok"
      BY <3>3 DEF RowResult
    <3> DEFINE s == found[path]
    <3>5. s.publicKey \in keys /\ s.signature.by = s.publicKey /\ s.signature.of = bytes[path]
      BY <3>4 DEF VerifyResult
    <3>6. Recorded(s)
      BY <3>2, <3>4 DEF ReleasesRecorded
    <3>7. <<s.publicKey, bytes[path]>> \in signed
      BY <3>5, <3>6 DEF Recorded
    <3>8. rs[i].bytes[1] = bytes[path]
      BY <3>1, <3>4
    <3> QED
      BY <3>5, <3>7, <3>8
  <2> QED
    BY <2>3, <2>4, <2>5 DEF Range
<1> QED
  BY <1>1, <1>2

-----------------------------------------------------------------------------
(* The site is replaced while the gallery reads it.                         *)

(* What has been released stays.                                            *)
SitesStay == \A n \in DOMAIN releases : n \in DOMAIN releases' /\ releases'[n] = releases[n]

LEMMA JobStays ==
    ASSUME SitesStay, NEW job, JobInv(job)
    PROVE  JobInv(job)'
<1>1. job.ok => FilesOf(job)' = FilesOf(job)
  BY DEF SitesStay, JobInv, FilesOf, EntriesOf
<1> QED
  BY <1>1 DEF SitesStay, JobInv

LEMMA RunStays ==
    ASSUME SitesStay, NEW run, RunInv(run)
    PROVE  RunInv(run)'
BY JobStays DEF RunInv

LEMMA ReleaseInOrder ==
    ASSUME SitesInOrder, Release
    PROVE  SitesInOrder'
<1> DEFINE site == [manifests |-> manifests, sigs |-> sigs, registry |-> registry]
<1>1. releases' = Append(releases, site) /\ UNCHANGED registry
  BY DEF Release, tree
<1>2. site.registry = registry
  OBVIOUS
<1> HIDE DEF site
<1>3. PICK s : s = site
  OBVIOUS
<1>4. /\ IsSequence(releases') /\ DOMAIN releases' = DOMAIN releases \cup {Len(releases) + 1}
      /\ releases'[Len(releases) + 1] = s /\ \A i \in DOMAIN releases : releases'[i] = releases[i]
  BY <1>1, <1>3, AppendedSequence DEF SitesInOrder
<1>5. releases' # <<>>
  BY <1>4
<1> QED
  BY <1>1, <1>2, <1>3, <1>4, <1>5 DEF SitesInOrder

(* The registry stays an array of entries, whatever is edited.              *)
LEMMA PublishInOrder ==
    ASSUME SitesInOrder, NEW works, Publish(works)
    PROVE  SitesInOrder'
<1>1. CASE UNCHANGED <<registry, releases>>
  BY <1>1 DEF SitesInOrder
<1>2. ASSUME NEW a \in works,
             WriteManifest(a) \/ (\E p \in Paths : SignManifest(a, p))
                \/ (\E p \in Paths, k \in Keys, force \in BOOLEAN : GenerateKey(a, p, k, force))
      PROVE  UNCHANGED <<registry, releases>>
  BY <1>2 DEF WriteManifest, SignManifest, GenerateKey
<1>3. ASSUME \/ \E p \in Paths : StartSignAll(p)
             \/ SignNext
             \/ AbortSignAll
      PROVE  UNCHANGED <<registry, releases>>
  BY <1>3 DEF StartSignAll, SignNext, AbortSignAll, tree
<1>4. ASSUME NEW a \in works, ListVersion(a) PROVE SitesInOrder'
  <2> DEFINE at == {i \in DOMAIN registry.addons : registry.addons[i].id = a}
             version == IF a \in DOMAIN manifests THEN manifests[a].version ELSE Versions[1]
             updated == [i \in DOMAIN registry.addons |->
                            IF i \in at THEN EntryOf(a, version) ELSE registry.addons[i]]
             addons == IF at = {} THEN Append(registry.addons, EntryOf(a, version)) ELSE updated
  <2>1. registry' = [registry EXCEPT !.addons = addons] /\ UNCHANGED releases
    BY <1>4 DEF ListVersion
  <2>2. IsSequence(Append(registry.addons, EntryOf(a, version)))
    BY AppendedSequence DEF SitesInOrder
  <2>3. IsSequence(updated)
    <3>1. Len(registry.addons) \in Nat /\ DOMAIN registry.addons = 1 .. Len(registry.addons)
      BY DEF SitesInOrder, IsSequence
    <3> HIDE DEF at, version
    <3>2. updated = [i \in 1 .. Len(registry.addons) |-> updated[i]]
      BY <3>1
    <3> HIDE DEF updated
    <3> QED
      BY <3>1, <3>2, IndexedSequence
  <2>4. IsSequence(addons)
    BY <2>2, <2>3
  <2> HIDE DEF addons
  <2>5. "addons" \in DOMAIN registry' /\ registry'.addons = addons
    BY <2>1 DEF SitesInOrder
  <2> QED
    BY <2>1, <2>4, <2>5 DEF SitesInOrder
<1>5. ASSUME NEW k \in Keys, AddTrustedKey(k) \/ RemoveTrustedKey(k) PROVE SitesInOrder'
  <2>1. /\ UNCHANGED releases
        /\ \E keys : registry' = [registry EXCEPT !.trustedKeys = keys]
    BY <1>5 DEF AddTrustedKey, RemoveTrustedKey
  <2>2. "addons" \in DOMAIN registry' /\ registry'.addons = registry.addons
    BY <2>1 DEF SitesInOrder
  <2> QED
    BY <2>1, <2>2 DEF SitesInOrder
<1>6. CASE Release
  BY <1>6, ReleaseInOrder
<1> QED
  BY <1>1, <1>2, <1>3, <1>4, <1>5, <1>6 DEF Publish

(* The gallery keeps what it has while the publisher publishes.             *)
LEMMA PublishingGallery ==
    ASSUME GInv, SitesInOrder', SitesStay, signed \subseteq signed', UNCHANGED galleryVars
    PROVE  GInv'
<1>1. UNCHANGED <<list, stored, rows, loaded, failed, runs>>
  BY DEF galleryVars, shown
<1>2. RunsHold'
  BY <1>1, RunStays DEF GInv, RunsHold
<1>3. RowsVouched'
  BY <1>1 DEF GInv, RowsVouched, Vouched
<1>4. ListsInOrder' /\ OnItsWay'
  BY <1>1 DEF GInv, ListsInOrder, OnItsWay, Known, Visiting
<1> QED
  BY <1>2, <1>3, <1>4 DEF GInv

-----------------------------------------------------------------------------
(* Runs of refreshAll().                                                    *)

(* A run goes on, or ends, when the entry it is at has been accounted for;  *)
(* one that ends has accounted for the whole list, if it was visiting it.   *)
LEMMA AdvanceHolds ==
    ASSUME RunsHold, IsSequence(runs), IsSequence(list), OnItsWay, NEW r \in DOMAIN runs,
           Advance(r, runs[r]), UNCHANGED <<list, releases>>,
           Known \subseteq Known', runs[r].array[runs[r].at] \in Known'
    PROVE  RunsHold' /\ IsSequence(runs') /\ OnItsWay'
<1> DEFINE run == runs[r]
<1>0. RunInv(run) /\ SitesStay
  BY DEF RunsHold, SitesStay
<1>1. CASE run.at < Len(run.array)
  <2> DEFINE e == [run EXCEPT !.at = @ + 1, !.jobs = <<>>, !.mode = cacheMode]
  <2>1. runs' = [runs EXCEPT ![r] = e]
    BY <1>1 DEF Advance
  <2>2. /\ e = [f \in RunFields |-> e[f]] /\ e.at = run.at + 1 /\ e.jobs = <<>> /\ e.array = run.array
    BY <1>0 DEF RunInv, RunFields
  <2>3. PICK x : x = e
    OBVIOUS
  <2> HIDE DEF e
  <2>4. RunInv(x)
    <3>1. IsSequence(<<>>) /\ DOMAIN <<>> = {}
      BY DEF IsSequence
    <3>2. x.at \in Nat \ {0}
      BY <1>0, <2>2, <2>3 DEF RunInv
    <3> QED
      BY <2>2, <2>3, <3>1, <3>2 DEF RunInv
  <2>5. /\ IsSequence(runs') /\ DOMAIN runs' = DOMAIN runs
        /\ \A j \in DOMAIN runs : runs'[j] = IF j = r THEN x ELSE runs[j]
    BY <2>1, <2>3, ReplacedSequence
  <2>6. RunsHold'
    BY <1>0, <2>4, <2>5, RunStays DEF RunsHold
  <2>7. OnItsWay'
    <3>1. CASE Range(list) \subseteq Known
      BY <3>1 DEF OnItsWay
    <3>2. ASSUME NEW j \in DOMAIN runs, Visiting(runs[j]), j # r PROVE OnItsWay'
      <4>1. Visiting(runs[j])'
        BY <3>2, <2>5 DEF Visiting
      <4> QED
        BY <2>5, <3>2, <4>1 DEF OnItsWay
    <3>3. CASE Visiting(run)
      <4>1. Len(list) \in Nat /\ DOMAIN list = 1 .. Len(list)
        BY DEF IsSequence
      <4>2. x.array = list /\ x.at = run.at + 1 /\ run.at \in Nat \ {0}
        BY <1>0, <2>2, <2>3, <3>3 DEF RunInv, Visiting
      <4>3. x.at \in DOMAIN list
        BY <1>1, <3>3, <4>1, <4>2 DEF Visiting
      <4>4. list[run.at] \in Known'
        BY <3>3 DEF Visiting
      <4>5. \A j \in 1 .. (x.at - 1) : list[j] \in Known'
        <5> TAKE j \in 1 .. (x.at - 1)
        <5>1. j = run.at \/ j \in 1 .. (run.at - 1)
          BY <4>2
        <5> QED
          BY <3>3, <4>4, <5>1 DEF Visiting
      <4>6. Visiting(runs[r])'
        BY <2>5, <4>2, <4>3, <4>5 DEF Visiting
      <4> QED
        BY <2>5, <4>6 DEF OnItsWay
    <3> QED
      BY <3>1, <3>2, <3>3 DEF OnItsWay
  <2> QED
    BY <2>5, <2>6, <2>7
<1>2. CASE ~(run.at < Len(run.array))
  <2>1. runs' = RemoveAt(runs, r)
    BY <1>2 DEF Advance
  <2>2. /\ IsSequence(runs')
        /\ \A j \in DOMAIN runs' : \E k \in DOMAIN runs : runs'[j] = runs[k]
        /\ \A k \in DOMAIN runs \ {r} : \E j \in DOMAIN runs' : runs'[j] = runs[k]
    BY <2>1, RemoveAtKeeps
  <2>3. RunsHold'
    BY <1>0, <2>2, RunStays DEF RunsHold
  <2>4. OnItsWay'
    <3>1. CASE Range(list) \subseteq Known
      BY <3>1 DEF OnItsWay
    <3>2. ASSUME NEW k \in DOMAIN runs, Visiting(runs[k]), k # r PROVE OnItsWay'
      <4>1. PICK j \in DOMAIN runs' : runs'[j] = runs[k]
        BY <2>2, <3>2
      <4>2. Visiting(runs[j])'
        BY <3>2, <4>1 DEF Visiting
      <4> QED
        BY <4>2 DEF OnItsWay
    <3>3. CASE Visiting(run)
      <4>1. Len(list) \in Nat /\ DOMAIN list = 1 .. Len(list)
        BY DEF IsSequence
      <4>2. run.at = Len(list)
        BY <1>0, <1>2, <3>3, <4>1 DEF RunInv, Visiting
      <4>3. list[run.at] \in Known'
        BY <3>3 DEF Visiting
      <4>4. \A j \in DOMAIN list : list[j] \in Known'
        <5> TAKE j \in DOMAIN list
        <5>1. j = run.at \/ j \in 1 .. (run.at - 1)
          BY <4>1, <4>2
        <5> QED
          BY <3>3, <4>3, <5>1 DEF Visiting
      <4> QED
        BY <4>4 DEF OnItsWay, Range
    <3> QED
      BY <3>1, <3>2, <3>3 DEF OnItsWay
  <2> QED
    BY <2>2, <2>3, <2>4
<1> QED
  BY <1>1, <1>2

LEMMA MovedOn ==
    ASSUME GInv, NEW r \in DOMAIN runs, Advance(r, runs[r]), UNCHANGED <<publisherVars, list, stored>>,
           Known \subseteq Known', runs[r].array[runs[r].at] \in Known', IsSequence(rows'), RowsVouched'
    PROVE  GInv'
<1>1. UNCHANGED <<registry, releases>>
  BY DEF publisherVars, tree
<1>2. RunsHold' /\ IsSequence(runs') /\ OnItsWay'
  BY <1>1, AdvanceHolds DEF GInv, ListsInOrder
<1> QED
  BY <1>1, <1>2 DEF GInv, SitesInOrder, ListsInOrder

LEMMA FailsHolds ==
    ASSUME GInv, NEW r \in DOMAIN runs, Fails(r), UNCHANGED <<publisherVars, list, stored>>
    PROVE  GInv'
<1>1. Advance(r, runs[r]) /\ UNCHANGED <<rows, loaded>> /\ failed' = failed \cup {runs[r].array[runs[r].at]}
  BY DEF Fails
<1>2. Known \subseteq Known' /\ runs[r].array[runs[r].at] \in Known'
  BY <1>1 DEF Known
<1>3. IsSequence(rows') /\ RowsVouched'
  BY <1>1 DEF GInv, ListsInOrder, RowsVouched, Vouched, publisherVars
<1> QED
  BY <1>1, <1>2, <1>3, MovedOn

(* The rows of all publishers of an entry are added.                        *)
LEMMA LoadsHolds ==
    ASSUME GInv, ReleasesRecorded, NEW r \in DOMAIN runs, NEW jobs, IsSequence(jobs),
           \A i \in DOMAIN jobs : JobInv(jobs[i]) /\ jobs[i].stage = "done",
           Loads(r, jobs), UNCHANGED <<publisherVars, list, stored>>
    PROVE  GInv'
<1>1. CASE {i \in DOMAIN jobs : jobs[i].ok} = {}
  BY <1>1, FailsHolds DEF Loads
<1>2. CASE {i \in DOMAIN jobs : jobs[i].ok} # {}
  <2> DEFINE parts == [i \in DOMAIN jobs |-> RowsOf(jobs[i])]
             M == UNION {Range(RowsOf(jobs[i])) : i \in DOMAIN jobs}
             new == FlattenSeq(parts)
  <2>1. /\ rows' = rows \o new /\ Advance(r, runs[r]) /\ UNCHANGED failed
        /\ loaded \subseteq loaded' /\ runs[r].array[runs[r].at] \in loaded'
    BY <1>2 DEF Loads
  <2>2. \A i \in DOMAIN jobs : RowsOf(jobs[i]) \in Seq(M)
    <3> TAKE i \in DOMAIN jobs
    <3>1. RowsOf(jobs[i]) \in Seq(Range(RowsOf(jobs[i])))
      BY RowsAreVouched DEF GInv, IsSequence
    <3>2. Range(RowsOf(jobs[i])) \subseteq M
      OBVIOUS
    <3> HIDE DEF M
    <3> QED
      BY <3>1, <3>2
  <2>3. \A row \in M : Vouched(row)
    BY RowsAreVouched DEF GInv
  <2> HIDE DEF M
  <2>4. Len(jobs) \in Nat /\ DOMAIN jobs = 1 .. Len(jobs)
    BY DEF IsSequence
  <2>5. parts \in Seq(Seq(M))
    BY <2>2, <2>4
  <2> HIDE DEF parts
  <2>6. new \in Seq(M)
    BY <2>5, FlattenType
  <2> HIDE DEF new
  <2>7. rows \in Seq(Range(rows))
    BY DEF GInv, ListsInOrder, IsSequence
  <2> DEFINE all == Range(rows) \cup M
  <2>8. rows \in Seq(all) /\ new \in Seq(all)
    BY <2>6, <2>7
  <2>9. \A row \in all : Vouched(row)
    BY <2>3 DEF GInv, RowsVouched, Range
  <2> HIDE DEF all
  <2>10. rows' \in Seq(all)
    BY <2>1, <2>8
  <2>11. IsSequence(rows')
    BY <2>10, InSequence
  <2>12. RowsVouched'
    <3>1. \A i \in DOMAIN rows' : rows'[i] \in all
      BY <2>10
    <3>2. UNCHANGED signed
      BY DEF publisherVars
    <3>3. ASSUME NEW i \in DOMAIN rows' PROVE Vouched(rows[i])'
      <4>1. PICK row \in all : rows'[i] = row
        BY <3>1, <3>3
      <4>2. Vouched(row)
        BY <2>9
      <4> QED
        BY <3>2, <4>1, <4>2 DEF Vouched
    <3> QED
      BY <3>3 DEF RowsVouched
  <2>13. Known \subseteq Known' /\ runs[r].array[runs[r].at] \in Known'
    BY <2>1 DEF Known
  <2> QED
    BY <2>1, <2>11, <2>12, <2>13, MovedOn
<1> QED
  BY <1>1, <1>2

LEMMA ContinueHolds ==
    ASSUME GInv, ReleasesRecorded, NEW r \in DOMAIN runs, NEW jobs, IsSequence(jobs),
           \A i \in DOMAIN jobs : JobInv(jobs[i]),
           Continue(r, jobs), UNCHANGED <<publisherVars, list, stored>>
    PROVE  GInv'
<1>1. CASE \A i \in DOMAIN jobs : jobs[i].stage = "done"
  BY <1>1, LoadsHolds DEF Continue
<1>2. CASE ~ \A i \in DOMAIN jobs : jobs[i].stage = "done"
  <2>1. runs' = [runs EXCEPT ![r].jobs = jobs] /\ UNCHANGED <<rows, loaded, failed>>
    BY <1>2 DEF Continue, shown
  <2>2. UNCHANGED <<registry, releases, signed>>
    BY DEF publisherVars, tree
  <2> DEFINE e == [runs[r] EXCEPT !.jobs = jobs]
  <2>3. runs' = [runs EXCEPT ![r] = e]
    BY <2>1
  <2>4. RunInv(runs[r]) /\ IsSequence(runs) /\ SitesStay
    BY <2>2 DEF GInv, RunsHold, ListsInOrder, SitesStay
  <2>5. /\ e = [f \in RunFields |-> e[f]] /\ e.at = runs[r].at /\ e.array = runs[r].array /\ e.jobs = jobs
    BY <2>4 DEF RunInv, RunFields
  <2>6. PICK x : x = e
    OBVIOUS
  <2> HIDE DEF e
  <2>7. RunInv(x)
    BY <2>4, <2>5, <2>6 DEF RunInv
  <2>8. /\ IsSequence(runs') /\ DOMAIN runs' = DOMAIN runs
        /\ \A j \in DOMAIN runs : runs'[j] = IF j = r THEN x ELSE runs[j]
    BY <2>3, <2>4, <2>6, ReplacedSequence
  <2>9. RunsHold'
    BY <2>4, <2>7, <2>8, RunStays DEF GInv, RunsHold
  <2>10. OnItsWay'
    <3>1. ASSUME NEW j \in DOMAIN runs, Visiting(runs[j]) PROVE Visiting(runs[j])'
      BY <2>1, <2>5, <2>6, <2>8, <3>1 DEF Visiting, Known
    <3> QED
      BY <2>1, <2>8, <3>1 DEF GInv, OnItsWay, Known
  <2> QED
    BY <2>1, <2>2, <2>8, <2>9, <2>10 DEF GInv, SitesInOrder, ListsInOrder, RowsVouched, Vouched
<1> QED
  BY <1>1, <1>2

LEMMA IndexAnsweredHolds ==
    ASSUME GInv, ReleasesRecorded, NEW r \in DOMAIN runs, IndexAnswered(r),
           UNCHANGED <<publisherVars, list, stored>>
    PROVE  GInv'
<1> DEFINE run == runs[r]
           url == run.array[run.at]
<1>1. CASE url = Official
  <2>1. PICK n \in Answered(run.mode) : Continue(r, <<WithIndex(Job(url, <<>>, cacheMode), n)>>)
    BY <1>1 DEF IndexAnswered
  <2> DEFINE job == WithIndex(Job(url, <<>>, cacheMode), n)
  <2>2. JobInv(job)
    BY JobBegins, IndexKeeps, AnswersAreReleases DEF GInv
  <2> HIDE DEF job
  <2>3. <<job>> \in Seq({job}) /\ \A i \in DOMAIN <<job>> : <<job>>[i] = job
    OBVIOUS
  <2>4. IsSequence(<<job>>)
    BY <2>3, InSequence
  <2>5. Continue(r, <<job>>)
    BY <2>1 DEF job
  <2> QED
    BY <2>2, <2>3, <2>4, <2>5, ContinueHolds
<1>2. CASE url # Official /\ (url \notin DOMAIN Documents \/ KindOf(Documents[url]) = "invalid")
  BY <1>2, FailsHolds DEF IndexAnswered
<1>3. CASE url # Official /\ url \in DOMAIN Documents /\ KindOf(Documents[url]) = "submissions"
  <2>1. loaded' = loaded \cup {url} /\ Advance(r, run) /\ UNCHANGED <<rows, failed>>
    BY <1>3 DEF IndexAnswered
  <2>2. Known \subseteq Known' /\ url \in Known'
    BY <2>1 DEF Known
  <2>3. IsSequence(rows') /\ RowsVouched'
    BY <2>1 DEF GInv, ListsInOrder, RowsVouched, Vouched, publisherVars
  <2> QED
    BY <2>1, <2>2, <2>3, MovedOn
<1>4. CASE url # Official /\ url \in DOMAIN Documents /\ KindOf(Documents[url]) = "meta"
  <2> DEFINE publishers == NormalPublishers(Documents[url])
             jobs == [i \in DOMAIN publishers |-> Job(publishers[i].url, <<url>>, cacheMode)]
  <2>1. Continue(r, jobs)
    BY <1>4 DEF IndexAnswered
  <2>2. IsSequence(publishers)
    BY <1>4, GalleryConstants, PublishersType DEF IsSequence
  <2>3. Len(publishers) \in Nat /\ DOMAIN publishers = 1 .. Len(publishers)
    BY <2>2 DEF IsSequence
  <2> HIDE DEF publishers
  <2>4. jobs = [i \in 1 .. Len(publishers) |-> jobs[i]]
    BY <2>3
  <2>5. \A i \in DOMAIN jobs : JobInv(jobs[i])
    BY JobBegins
  <2> HIDE DEF jobs
  <2>6. IsSequence(jobs)
    BY <2>3, <2>4, IndexedSequence
  <2> QED
    BY <2>1, <2>5, <2>6, ContinueHolds
<1>5. KindOf(Documents[url]) \in {"submissions", "meta", "registry", "invalid"}
  BY DEF KindOf
<1> QED
  BY <1>1, <1>2, <1>3, <1>4, <1>5, GalleryConstants

(* A publisher's index or a file of it is answered.                         *)
LEMMA JobAnsweredHolds ==
    ASSUME GInv, ReleasesRecorded, NEW r \in DOMAIN runs, NEW i \in DOMAIN runs[r].jobs,
           PublisherAnswered(r, i) \/ FileAnswered(r, i), UNCHANGED <<publisherVars, list, stored>>
    PROVE  GInv'
<1> DEFINE js == runs[r].jobs
<1>1. IsSequence(js) /\ \A j \in DOMAIN js : JobInv(js[j])
  BY DEF GInv, RunsHold, RunInv
<1>2. ASSUME NEW job, JobInv(job), Continue(r, [js EXCEPT ![i] = job]) PROVE GInv'
  <2>1. /\ IsSequence([js EXCEPT ![i] = job]) /\ DOMAIN [js EXCEPT ![i] = job] = DOMAIN js
        /\ \A j \in DOMAIN js : [js EXCEPT ![i] = job][j] = IF j = i THEN job ELSE js[j]
    BY <1>1, ReplacedSequence
  <2> QED
    BY <1>1, <1>2, <2>1, ContinueHolds
<1>3. CASE PublisherAnswered(r, i)
  <2>1. PICK n \in Answered(js[i].mode) :
           js[i].stage = "index"
           /\ Continue(r, [js EXCEPT ![i] = [WithIndex(js[i], n) EXCEPT !.mode = cacheMode]])
    BY <1>3 DEF PublisherAnswered
  <2>2. JobInv(WithIndex(js[i], n))
    BY <1>1, <2>1, IndexKeeps, AnswersAreReleases DEF GInv
  <2>3. JobInv([WithIndex(js[i], n) EXCEPT !.mode = cacheMode])
    BY <2>2, ModeKeeps
  <2> QED
    BY <1>2, <2>1, <2>3
<1>4. CASE FileAnswered(r, i)
  <2>1. PICK x \in FilesOf(js[i]), n \in Answered(js[i].mode) :
           js[i].stage = "files" /\ Continue(r, [js EXCEPT ![i] = WithFile(js[i], x, n)])
    BY <1>4 DEF FileAnswered
  <2>2. JobInv(WithFile(js[i], x, n))
    BY <1>1, <2>1, FileKeeps, AnswersAreReleases DEF GInv
  <2> QED
    BY <1>2, <2>1, <2>2
<1> QED
  BY <1>3, <1>4

-----------------------------------------------------------------------------
(* The user.                                                                *)

(* A new run begins with the list as it is; older ones go on. With nothing  *)
(* in the list there is nothing to account for.                             *)
LEMMA RefreshHolds ==
    ASSUME NEW bypass, NEW urls, IsSequence(urls), urls = list', NEW others, IsSequence(others),
           \A r \in DOMAIN others : RunInv(others[r]),
           Refresh(bypass, urls, others), IsSequence(stored'), SitesInOrder, UNCHANGED publisherVars
    PROVE  GInv'
<1>1. UNCHANGED <<registry, releases>> /\ SitesStay
  BY DEF publisherVars, tree, SitesStay
<1>2. rows' = <<>>
  BY DEF Refresh
<1>3. IsSequence(rows') /\ RowsVouched'
  BY <1>2 DEF IsSequence, RowsVouched
<1>4. CASE urls = <<>>
  <2>1. runs' = others
    BY <1>4 DEF Refresh
  <2>2. RunsHold'
    BY <1>1, <2>1, RunStays DEF RunsHold
  <2>3. Range(list)' = {}
    BY <1>4 DEF Range
  <2>4. OnItsWay'
    BY <2>3 DEF OnItsWay
  <2> QED
    BY <1>1, <1>3, <2>1, <2>2, <2>4 DEF GInv, SitesInOrder, ListsInOrder
<1>5. CASE urls # <<>>
  <2> DEFINE new == NewRun(bypass, urls)
  <2>1. runs' = Append(others, new)
    BY <1>5 DEF Refresh
  <2>2. IsSequence(<<>>) /\ DOMAIN <<>> = {}
    BY DEF IsSequence
  <2>3. RunInv(new) /\ new.array = urls /\ new.at = 1
    BY <2>2 DEF NewRun, RunInv, RunFields
  <2>4. PICK x : x = new
    OBVIOUS
  <2> HIDE DEF new
  <2>5. /\ IsSequence(runs') /\ DOMAIN runs' = DOMAIN others \cup {Len(others) + 1}
        /\ runs'[Len(others) + 1] = x /\ \A r \in DOMAIN others : runs'[r] = others[r]
    BY <2>1, <2>4, AppendedSequence
  <2>6. RunsHold'
    <3>1. \A r \in DOMAIN runs' : runs'[r] = x \/ (r \in DOMAIN others /\ runs'[r] = others[r])
      BY <2>5
    <3>2. ASSUME NEW r \in DOMAIN runs' PROVE RunInv(runs[r])'
      <4>1. PICK y : y = runs'[r]
        OBVIOUS
      <4>2. RunInv(y)
        BY <2>3, <2>4, <3>1, <3>2, <4>1
      <4> QED
        BY <1>1, <4>1, <4>2, RunStays
    <3> QED
      BY <3>2 DEF RunsHold
  <2>7. OnItsWay'
    <3>1. 1 \in DOMAIN urls
      BY <1>5 DEF IsSequence
    <3>2. Visiting(x)'
      BY <2>3, <2>4, <3>1 DEF Visiting
    <3>3. \E r \in DOMAIN runs' : Visiting(runs[r])'
      BY <2>5, <3>2
    <3> QED
      BY <3>3 DEF OnItsWay
  <2> QED
    BY <1>1, <1>3, <2>5, <2>6, <2>7 DEF GInv, SitesInOrder, ListsInOrder
<1> QED
  BY <1>4, <1>5

(* Runs under way with their arrays changed.                                *)
LEMMA OthersHold ==
    ASSUME GInv, NEW others, others = [r \in DOMAIN runs |-> others[r]],
           \A r \in DOMAIN runs : \/ others[r] = runs[r]
                                  \/ \E urls : others[r] = [runs[r] EXCEPT !.array = urls]
                                  \/ \E shared : others[r] = [runs[r] EXCEPT !.shared = shared]
    PROVE  IsSequence(others) /\ \A r \in DOMAIN others : RunInv(others[r])
<1>1. Len(runs) \in Nat /\ DOMAIN runs = 1 .. Len(runs)
  BY DEF GInv, ListsInOrder, IsSequence
<1>2. IsSequence(others)
  BY <1>1, IndexedSequence
<1>3. ASSUME NEW r \in DOMAIN runs, NEW f \in {"array", "shared"}, NEW x, others[r] = [runs[r] EXCEPT ![f] = x]
      PROVE  RunInv(others[r])
  <2>1. RunInv(runs[r])
    BY DEF GInv, RunsHold
  <2> DEFINE e == [runs[r] EXCEPT ![f] = x]
  <2>2. e = [g \in RunFields |-> e[g]] /\ e.at = runs[r].at /\ e.jobs = runs[r].jobs
    BY <2>1 DEF RunInv, RunFields
  <2> HIDE DEF e
  <2>3. RunInv(e)
    BY <2>1, <2>2 DEF RunInv
  <2> QED
    BY <1>3, <2>3 DEF e
<1>4. \A r \in DOMAIN runs : RunInv(runs[r])
  BY DEF GInv, RunsHold
<1>5. ASSUME NEW r \in DOMAIN runs PROVE RunInv(others[r])
  BY <1>3, <1>4, <1>5
<1> QED
  BY <1>2, <1>5

LEMMA ClicksHold ==
    ASSUME GInv, UNCHANGED publisherVars,
           \/ \E url \in Urls : AddRegistry(url) \/ RemoveRegistry(url)
           \/ PressRefresh
           \/ ReloadGallery
    PROVE  GInv'
<1>0. IsSequence(list) /\ IsSequence(stored) /\ SitesInOrder
  BY DEF GInv, ListsInOrder
<1>1. ASSUME NEW url \in Urls, AddRegistry(url) PROVE GInv'
  <2>1. PICK urls : urls = Append(list, url)
    OBVIOUS
  <2>2. list' = urls /\ stored' = urls
    BY <1>1, <2>1 DEF AddRegistry
  <2> DEFINE others == [r \in DOMAIN runs |->
                            IF runs[r].shared THEN [runs[r] EXCEPT !.array = urls] ELSE runs[r]]
  <2>3. Refresh(FALSE, urls, others)
    BY <1>1, <2>2 DEF AddRegistry
  <2>4. IsSequence(urls)
    BY <1>0, <2>1, AppendedSequence
  <2>5. others = [r \in DOMAIN runs |-> others[r]]
        /\ \A r \in DOMAIN runs : others[r] = runs[r] \/ others[r] = [runs[r] EXCEPT !.array = urls]
    OBVIOUS
  <2> HIDE DEF others
  <2>6. IsSequence(others) /\ \A r \in DOMAIN others : RunInv(others[r])
    BY <2>5, OthersHold
  <2> QED
    BY <1>0, <2>2, <2>3, <2>4, <2>6, RefreshHolds
<1>2. ASSUME NEW url \in Urls, RemoveRegistry(url) PROVE GInv'
  <2>1. PICK urls : urls = Without(list, url)
    OBVIOUS
  <2>2. list' = urls /\ stored' = urls
    BY <1>2, <2>1 DEF RemoveRegistry
  <2> DEFINE others == [r \in DOMAIN runs |-> [runs[r] EXCEPT !.shared = FALSE]]
  <2>3. Refresh(FALSE, urls, others)
    BY <1>2, <2>2 DEF RemoveRegistry
  <2>4. IsSequence(urls)
    BY <1>0, <2>1, WithoutType
  <2>5. others = [r \in DOMAIN runs |-> others[r]]
        /\ \A r \in DOMAIN runs : others[r] = [runs[r] EXCEPT !.shared = FALSE]
    OBVIOUS
  <2> HIDE DEF others
  <2>6. IsSequence(others) /\ \A r \in DOMAIN others : RunInv(others[r])
    BY <2>5, OthersHold
  <2> QED
    BY <1>0, <2>2, <2>3, <2>4, <2>6, RefreshHolds
<1>3. CASE PressRefresh
  <2>1. Refresh(TRUE, list, runs) /\ list' = list /\ stored' = stored
    BY <1>3 DEF PressRefresh
  <2>2. IsSequence(runs) /\ \A r \in DOMAIN runs : RunInv(runs[r])
    BY DEF GInv, ListsInOrder, RunsHold
  <2> QED
    BY <1>0, <2>1, <2>2, RefreshHolds
<1>4. CASE ReloadGallery
  <2> DEFINE new == [NewRun(FALSE, list') EXCEPT !.previous = "default"]
  <2>1. /\ runs' = <<new>> /\ list' = Registries(stored) /\ rows' = <<>> /\ stored' = stored
    BY <1>4 DEF ReloadGallery
  <2>2. IsSequence(list')
    BY <1>0, <2>1, RegistriesType
  <2>3. IsSequence(<<>>) /\ DOMAIN <<>> = {}
    BY DEF IsSequence
  <2>4. /\ new = [f \in RunFields |-> new[f]] /\ new.array = list' /\ new.at = 1 /\ new.jobs = <<>>
    BY DEF NewRun, RunFields
  <2>5. PICK x : x = new
    OBVIOUS
  <2> HIDE DEF new
  <2>6. RunInv(x)'
    BY <2>3, <2>4, <2>5 DEF RunInv
  <2>7. runs' \in Seq({x}) /\ DOMAIN runs' = {1} /\ runs'[1] = x
    BY <2>1, <2>5
  <2>8. IsSequence(runs')
    BY <2>7, InSequence
  <2>9. RunsHold'
    BY <2>6, <2>7 DEF RunsHold
  <2>10. OnItsWay'
    <3>1. CASE DOMAIN list' = {}
      BY <3>1 DEF OnItsWay, Range
    <3>2. CASE DOMAIN list' # {}
      <4>1. 1 \in DOMAIN list'
        BY <2>2, <3>2 DEF IsSequence
      <4>2. Visiting(runs[1])'
        BY <2>4, <2>5, <2>7, <4>1 DEF Visiting
      <4> QED
        BY <2>7, <4>2 DEF OnItsWay
    <3> QED
      BY <3>1, <3>2
  <2>11. SitesInOrder'
    BY <1>0 DEF SitesInOrder, publisherVars, tree
  <2>12. IsSequence(rows') /\ RowsVouched'
    BY <2>1, <2>3 DEF RowsVouched
  <2> QED
    BY <1>0, <2>1, <2>2, <2>8, <2>9, <2>10, <2>11, <2>12 DEF GInv, ListsInOrder
<1> QED
  BY <1>1, <1>2, <1>3, <1>4

-----------------------------------------------------------------------------
LEMMA GalleryBegins == Init => GInv
<1> SUFFICES ASSUME Init PROVE GInv
  OBVIOUS
<1>1. PublishingInit /\ GalleryInit
  BY DEF Init
<1>2. IsSequence(<<>>) /\ DOMAIN <<>> = {}
  BY DEF IsSequence
<1>3. SitesInOrder
  <2> DEFINE es == [i \in DOMAIN Listed |-> EntryOf(Listed[i], Versions[1])]
             site == [manifests |-> manifests, sigs |-> sigs, registry |-> registry]
  <2>1. Len(Listed) \in Nat /\ es = [i \in 1 .. Len(Listed) |-> es[i]]
    BY PublishingConstants
  <2>2. "addons" \in DOMAIN registry /\ registry.addons = es
    BY <1>1 DEF PublishingInit
  <2>3. releases = <<site>> /\ site.registry = registry
    BY <1>1 DEF PublishingInit
  <2> HIDE DEF es, site
  <2>4. IsSequence(es)
    BY <2>1, IndexedSequence
  <2>5. releases \in Seq({site}) /\ releases # <<>> /\ \A n \in DOMAIN releases : releases[n] = site
    BY <2>3
  <2>6. IsSequence(releases)
    BY <2>5, InSequence
  <2> QED
    BY <2>2, <2>3, <2>4, <2>5, <2>6 DEF SitesInOrder
<1>4. IsSequence(stored) /\ IsSequence(list)
  BY <1>1, GalleryConstants, RegistriesType DEF GalleryInit, IsSequence
<1>5. rows = <<>> /\ runs = <<NewRun(FALSE, list)>>
  BY <1>1 DEF GalleryInit
<1> DEFINE new == NewRun(FALSE, list)
<1>6. RunInv(new) /\ new.array = list /\ new.at = 1
  BY <1>2 DEF NewRun, RunInv, RunFields
<1> HIDE DEF new
<1>7. runs \in Seq({new}) /\ DOMAIN runs = {1} /\ runs[1] = new
  BY <1>5 DEF new
<1>8. IsSequence(runs) /\ RunsHold
  BY <1>6, <1>7, InSequence DEF RunsHold
<1>9. OnItsWay
  <2>1. CASE DOMAIN list = {}
    BY <2>1 DEF OnItsWay, Range
  <2>2. CASE DOMAIN list # {}
    <3>1. 1 \in DOMAIN list
      BY <1>4, <2>2 DEF IsSequence
    <3>2. Visiting(runs[1])
      BY <1>6, <1>7, <3>1 DEF Visiting
    <3> QED
      BY <1>7, <3>2 DEF OnItsWay
  <2> QED
    BY <2>1, <2>2
<1> QED
  BY <1>2, <1>3, <1>4, <1>5, <1>8, <1>9 DEF GInv, ListsInOrder, RowsVouched

LEMMA GalleryStays ==
    IInv /\ RInv /\ ReaderKnown /\ GInv /\ [Next]_vars => GInv'
<1> SUFFICES ASSUME IInv, RInv, ReaderKnown, GInv, [Next]_vars PROVE GInv'
  OBVIOUS
<1>0. SitesInOrder /\ ReleasesRecorded
  BY DEF GInv, IInv, SiteInv
<1>1. CASE reader # "gallery" /\ Publish(Works[reader]) /\ UNCHANGED galleryVars
  <2>1. Works[reader] \in SUBSET Addons
    BY <1>1, SupplyConstants DEF ReaderKnown
  <2>2. SitesStay
    BY <1>1, <2>1, PublishGated DEF RInv, SitesStay
  <2>3. signed \subseteq signed' /\ SitesInOrder'
    BY <1>0, <1>1, PublishRecords, PublishInOrder DEF IInv
  <2> QED
    BY <1>1, <2>2, <2>3, PublishingGallery
<1>2. CASE Release /\ UNCHANGED galleryVars
  <2>1. SitesStay
    BY <1>2, ReleaseGated DEF RInv, SitesStay
  <2>2. signed \subseteq signed' /\ SitesInOrder'
    BY <1>0, <1>2, ReleaseRecords, ReleaseInOrder DEF IInv
  <2> QED
    BY <1>2, <2>1, <2>2, PublishingGallery
<1>3. CASE UNCHANGED <<publisherVars, galleryVars>>
  <2>1. UNCHANGED <<registry, releases, signed>>
    BY <1>3 DEF publisherVars, tree
  <2>2. SitesStay /\ signed \subseteq signed' /\ SitesInOrder'
    BY <1>0, <2>1 DEF SitesStay, SitesInOrder
  <2> QED
    BY <1>3, <2>2, PublishingGallery
<1>4. CASE GalleryStep /\ UNCHANGED publisherVars
  BY <1>0, <1>4, ClicksHold, IndexAnsweredHolds, JobAnsweredHolds DEF GalleryStep, Click
<1> QED
  BY <1>1, <1>2, <1>3, <1>4 DEF Next, OpenGallery, vars

LEMMA ReadersHold == Spec => [](IInv /\ RInv /\ ReaderKnown /\ GInv)
<1>1. Init => ReaderKnown
  BY DEF Init, ReaderKnown
<1> QED
  BY InitHolds, StepHolds, RInvInit, RInvStep, GalleryBegins, GalleryStays, <1>1, PTL DEF Spec

(* What a user is told is verified was signed, byte for byte, with a key of *)
(* the registry it is shown under: an add-on a host page has mounted, and a *)
(* card of the gallery (loadPublisherIndex(), apps/addon-gallery), however  *)
(* refreshes overlap and whichever releases their fetches are answered from. *)
THEOREM VerifiedWasSigned == Spec => []VouchedWasSigned
<1>1. IInv /\ GInv => VouchedWasSigned
  BY DEF IInv, GInv, RowsVouched, Vouched, VouchedWasSigned
<1> QED
  BY ReadersHold, <1>1, PTL

(* Once refreshAll() has ended and no other runs, each registry in the list *)
(* was loaded or has its error shown, for any registries, documents and     *)
(* number of overlapping refreshes, additions, removals and reloads.        *)
THEOREM NoRegistryIsForgotten == Spec => []AllAccountedFor
<1>1. GInv => AllAccountedFor
  <2> SUFFICES ASSUME GInv, runs = <<>> PROVE Range(list) \subseteq loaded \cup failed
    BY DEF AllAccountedFor
  <2>1. DOMAIN runs = {}
    OBVIOUS
  <2> QED
    BY <2>1 DEF GInv, OnItsWay, Known
<1> QED
  BY ReadersHold, <1>1, PTL
=============================================================================
