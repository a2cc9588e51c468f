----------------------------- MODULE Publishing -----------------------------
(***************************************************************************)
(* A publisher of add-ons at work: the manifests, signatures and registry  *)
(* of the working tree, edited by hand and by the signing scripts          *)
(* (scripts/sign-manifest.ts, sign-all-official.ts), and the releases of   *)
(* the static site, each a copy that the conformance gate has passed.      *)
(***************************************************************************)
EXTENDS Manifests, Registries

CONSTANTS
    Addons,       \* add-ons, also their ids and directories
    Listed,       \* those that the first release has, in order
    Keys,         \* key pairs that are ever generated
    OldKey,       \* the one of the first release
    Paths,        \* keystore files
    OldPath,      \* that of OldKey
    Versions,     \* versions of an add-on, in order
    Schema,       \* "v" of the registry
    MaxReleases   \* bound: releases

ASSUME PublishingConstants ==
    /\ OldKey \in Keys /\ OldPath \in Paths /\ Listed \in Seq(Addons)
    /\ 1 \in DOMAIN Versions /\ Schema \in 1 .. 3 /\ MaxReleases \in Nat
    \* names of add-ons, keys and versions are well-formed
    /\ "bad" \notin Keys
    /\ {"bad", "empty"} \cap (Addons \cup Range(Versions)) = {}

VARIABLES
    manifests,  \* manifest.json of the add-ons that have one
    sigs,       \* manifest.sig.json of those that have one
    registry,   \* addons/official/index.json
    keystores,  \* the keystore at a path
    made,       \* key pairs generated so far
    signing,    \* sign-all-official under way: its key pair and what is left
    releases,   \* what has been published, the latest one last
    signed      \* the bytes each public key has signed (history)

tree == <<manifests, sigs, registry>>
publisherVars == <<tree, keystores, made, signing, releases, signed>>

ManifestOf(a, version) ==
    [f \in ManifestFields |-> IF f = "id" THEN a ELSE IF f = "version" THEN version ELSE "ok"]

EntryOf(a, version) ==
    [f \in EntryFields |-> IF f \in {"id", "path"} THEN a ELSE IF f = "version" THEN version ELSE "ok"]

Idle == [pair |-> GeneratedPair(OldKey), todo |-> <<>>]

PublishingInit ==
    /\ manifests = [a \in Range(Listed) |-> ManifestOf(a, Versions[1])]
    /\ sigs = [a \in Range(Listed) |-> SignedManifest(manifests[a], GeneratedPair(OldKey))]
    /\ registry = [v |-> Schema, publisher |-> "publisher", trustedKeys |-> {OldKey},
                   addons |-> [i \in DOMAIN Listed |-> EntryOf(Listed[i], Versions[1])]]
    /\ keystores = [p \in {OldPath} |-> ExportedKeystore(GeneratedPair(OldKey))]
    /\ made = {OldKey}
    /\ signing = Idle
    /\ releases = <<[manifests |-> manifests, sigs |-> sigs, registry |-> registry]>>
    /\ signed = {<<OldKey, manifests[a]>> : a \in Range(Listed)}

Put(f, x, y) == [z \in DOMAIN f \cup {x} |-> IF z = x THEN y ELSE f[z]]

-----------------------------------------------------------------------------
(* Edits by hand.                                                           *)

(* An add-on's manifest is written, or its version raised.                  *)
WriteManifest(a) ==
    LET next == IF a \in DOMAIN manifests THEN {i \in DOMAIN Versions : i > 1 /\ Versions[i - 1] = manifests[a].version}
                ELSE {1}
    IN  /\ \E i \in next : manifests' = Put(manifests, a, ManifestOf(a, Versions[i]))
        /\ UNCHANGED <<sigs, registry, keystores, made, signing, releases, signed>>

(* The registry's entry is made, before its manifest perhaps, or follows it. *)
ListVersion(a) ==
    LET at == {i \in DOMAIN registry.addons : registry.addons[i].id = a}
        version == IF a \in DOMAIN manifests THEN manifests[a].version ELSE Versions[1]
        addons == IF at = {} THEN Append(registry.addons, EntryOf(a, version))
                  ELSE [i \in DOMAIN registry.addons |->
                            IF i \in at THEN EntryOf(a, version) ELSE registry.addons[i]]
    IN  /\ addons # registry.addons
        /\ registry' = [registry EXCEPT !.addons = addons]
        /\ UNCHANGED <<manifests, sigs, keystores, made, signing, releases, signed>>

(* A key rotation adds the new key, re-signs and removes the old one.       *)
AddTrustedKey(k) ==
    /\ k \in made \ registry.trustedKeys
    /\ registry' = [registry EXCEPT !.trustedKeys = @ \cup {k}]
    /\ UNCHANGED <<manifests, sigs, keystores, made, signing, releases, signed>>

RemoveTrustedKey(k) ==
    /\ k \in registry.trustedKeys
    /\ registry' = [registry EXCEPT !.trustedKeys = @ \ {k}]
    /\ UNCHANGED <<manifests, sigs, keystores, made, signing, releases, signed>>

-----------------------------------------------------------------------------
(* Scripts.                                                                 *)

SignWith(a, pair) ==
    /\ sigs' = Put(sigs, a, SignedManifest(manifests[a], pair))
    /\ signed' = signed \cup {<<pair.private, manifests[a]>>}

(* sign-manifest --key                                                      *)
SignManifest(a, path) ==
    /\ a \in DOMAIN manifests /\ path \in DOMAIN keystores
    /\ \E pair \in LoadedKeystore(keystores[path]) : SignWith(a, pair)
    /\ UNCHANGED <<manifests, registry, keystores, made, signing, releases>>

(* sign-manifest --generate-key: a keystore is only replaced with --force.  *)
GenerateKey(a, path, k, force) ==
    /\ a \in DOMAIN manifests /\ k \in Keys \ made
    /\ force \/ path \notin DOMAIN keystores
    /\ keystores' = Put(keystores, path, ExportedKeystore(GeneratedPair(k)))
    /\ made' = made \cup {k}
    /\ SignWith(a, GeneratedPair(k))
    /\ UNCHANGED <<manifests, registry, signing, releases>>

(* sign-all-official: nothing is signed if a listed add-on has no manifest. *)
StartSignAll(path) ==
    /\ signing.todo = <<>> /\ path \in DOMAIN keystores
    /\ \A e \in Range(registry.addons) : e.path \in DOMAIN manifests
    /\ \E pair \in LoadedKeystore(keystores[path]) :
          signing' = [pair |-> pair, todo |-> [i \in DOMAIN registry.addons |-> registry.addons[i].path]]
    /\ UNCHANGED <<tree, keystores, made, releases, signed>>

SignNext ==
    /\ signing.todo # <<>>
    /\ SignWith(Head(signing.todo), signing.pair)
    /\ signing' = IF Len(signing.todo) = 1 THEN Idle ELSE [signing EXCEPT !.todo = Tail(@)]
    /\ UNCHANGED <<manifests, registry, keystores, made, releases>>

(* It is interrupted: what is signed stays so.                              *)
AbortSignAll ==
    /\ signing.todo # <<>>
    /\ signing' = Idle
    /\ UNCHANGED <<tree, keystores, made, releases, signed>>

-----------------------------------------------------------------------------
(* The gate and the site.                                                   *)

(* A slip: only the directory and the signature of an entry are looked at,  *)
(* not who made it.                                                         *)
Slip_AddonVerifies(e) ==
    /\ e.path \in DOMAIN manifests /\ e.path \in DOMAIN sigs
    /\ VerifyScript(manifests[e.path], sigs[e.path], {})

(* verifyAddon() of verify-official-addons.ts. It compares the descriptions *)
(* too where a manifest has one; no manifest has one here.                  *)
AddonVerifies(e) ==
    /\ e.path \in DOMAIN manifests /\ e.path \in DOMAIN sigs
    /\ Verified(manifests[e.path], sigs[e.path], registry.trustedKeys)
    /\ manifests[e.path].id = e.id /\ manifests[e.path].version = e.version

VerifyOfficial == ValidRegistry(registry) /\ \A e \in Range(registry.addons) : AddonVerifies(e)

(* conformance.sh passes, build:web-registry and stage:gallery-static copy  *)
(* the registry and the add-ons' directories, and the site is replaced.     *)
Release ==
    /\ Len(releases) < MaxReleases
    /\ AllManifestsValid(Range(manifests)) /\ VerifyOfficial
    /\ LET site == [manifests |-> manifests, sigs |-> sigs, registry |-> registry] IN
          site # Last(releases) /\ releases' = Append(releases, site)
    /\ UNCHANGED <<tree, keystores, made, signing, signed>>

(* The publisher, working on some of the add-ons.                           *)
Publish(works) ==
    \/ \E a \in works :
          \/ WriteManifest(a)
          \/ ListVersion(a)
          \/ \E p \in Paths : SignManifest(a, p)
          \/ \E p \in Paths, k \in Keys, force \in BOOLEAN : GenerateKey(a, p, k, force)
    \/ \E k \in Keys : AddTrustedKey(k) \/ RemoveTrustedKey(k)
    \/ \E p \in Paths : StartSignAll(p)
    \/ SignNext
    \/ AbortSignAll
    \/ Release

=============================================================================
