------------------------------ MODULE Manifests ------------------------------
(***************************************************************************)
(* packages/manifest: keystores, detached signatures and what verifies,    *)
(* and the two validators of a manifest, of the runtime                    *)
(* (packages/addon-runtime) and of the scripts (scripts/lib/manifest.ts).  *)
(*                                                                         *)
(* A document is a function from the names of its fields to their values:  *)
(* "bad" is one of the wrong type or pattern, "empty" an empty string or   *)
(* array. The bytes of a manifest stand for what they parse to. Ed25519 is *)
(* what it promises: a signature tells the private key and the bytes it    *)
(* was made of. A call that may throw returns a set, of its result or      *)
(* empty.                                                                  *)
(***************************************************************************)
EXTENDS Naturals, Sequences

ManifestFields ==
    {"id", "name", "version", "entry", "license", "network", "permissions", "capabilities"}

Acceptable(m, f) == m[f] # "bad" /\ (m[f] = "empty" => f = "permissions")

(* validateManifest(); fields that are not listed are dropped.              *)
ValidManifest(m) ==
    /\ ManifestFields \subseteq DOMAIN m
    /\ \A f \in ManifestFields : Acceptable(m, f)

ParsedManifest(m) == {x \in {[f \in ManifestFields \cap DOMAIN m |-> m[f]]} : ValidManifest(m)}

(* validateManifestFile(): every field is there, and some are looked at.    *)
ValidManifestFile(m) ==
    /\ ManifestFields \subseteq DOMAIN m
    /\ \A f \in ManifestFields \ {"name", "entry", "license"} : Acceptable(m, f)

(* validate-all-manifests.ts: of the manifests found, if there are any.     *)
AllManifestsValid(found) == found # {} /\ \A m \in found : ValidManifestFile(m)

-----------------------------------------------------------------------------
(* Keys. A key pair has a name of its own; its halves are told apart.       *)

GeneratedPair(k) == [public |-> k, private |-> k]
ExportedKeystore(pair) ==
    [v |-> "1", alg |-> "Ed25519", publicKey |-> pair.public, privateKey |-> pair.private]

(* loadKeystore(): that the halves belong together is not checked.          *)
LoadedKeystore(ks) ==
    {[public |-> ks.publicKey, private |-> ks.privateKey] :
        x \in {f \in {{"v", "alg", "publicKey", "privateKey"}} :
                  f \subseteq DOMAIN ks /\ \A g \in f : ks[g] # "bad"}}

-----------------------------------------------------------------------------
(* Signatures.                                                              *)

SignedManifest(bytes, pair) ==
    [v |-> "1", alg |-> "Ed25519", publicKey |-> pair.public,
     signature |-> [by |-> pair.private, of |-> bytes, length |-> 64], signedAt |-> "instant"]

(* validateSignaturePayload()                                               *)
ValidSignature(s) ==
    /\ DOMAIN s = {"v", "alg", "publicKey", "signature", "signedAt"}
    /\ \A f \in DOMAIN s \ {"signature"} : s[f] # "bad"
    /\ s.signature.length = 64

(* verifyManifest(): of a valid signature, the key first and then the bytes. *)
VerifyResult(bytes, s, trusted) ==
    IF s.publicKey \notin trusted THEN "untrusted-key"
    ELSE IF s.signature.by = s.publicKey /\ s.signature.of = bytes THEN "ok"
    ELSE "bad-signature"

Verified(bytes, s, trusted) == ValidSignature(s) /\ VerifyResult(bytes, s, trusted) = "ok"

(* verify-manifest.ts, with the keys given on the command line; with none   *)
(* the signature is checked against its own.                                *)
VerifyScript(bytes, s, given) ==
    Verified(bytes, s, IF given = {} THEN {s.publicKey} ELSE given)

=============================================================================
