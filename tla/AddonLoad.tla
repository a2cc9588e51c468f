------------------------------ MODULE AddonLoad ------------------------------
(***************************************************************************)
(* AddonHost.load() (packages/addon-runtime) on a host page (apps/web)     *)
(* that found the add-on in its launcher or was handed it by a gallery:    *)
(* registry, manifest and signature are three fetches, and the site may be *)
(* replaced between them. A fetch is answered from the site's latest       *)
(* release or, from a cache on the way, from an earlier one.               *)
(***************************************************************************)
EXTENDS Publishing

CONSTANT Modes   \* verification modes tried, of "none", "optional", "required"

VARIABLE page    \* what the page has read and is loading

Answers == 1 .. Len(releases)

NothingRead ==
    [via |-> "nothing", keys |-> {}, ids |-> {}, from |-> 0, stage |-> "idle", reason |-> "",
     addon |-> "", mode |-> "", bytes |-> <<>>, sig |-> <<>>, seen |-> {}]

PageInit == page = NothingRead

-----------------------------------------------------------------------------
(* The registry. One that cannot be fetched leaves nothing read.            *)

Read(via, n) ==
    page' = [NothingRead EXCEPT !.via = via, !.keys = releases[n].registry.trustedKeys,
                !.ids = {e.path : e \in Range(releases[n].registry.addons)}, !.from = n]

(* renderOfficialRegistry(): nothing of it is checked.                      *)
OpenLauncher(n) ==
    /\ page = NothingRead
    /\ Read("launcher", n)

(* handleHandoff(), with the add-on and the publisher of a gallery's card;  *)
(* the user is asked before anything is loaded.                             *)
OpenHandoff(n) ==
    /\ page = NothingRead
    /\ IF HandoffAccepts(releases[n].registry) THEN Read("hand-off", n)
       ELSE page' = [NothingRead EXCEPT !.via = "refused hand-off", !.seen = {n}]

-----------------------------------------------------------------------------
(* load(), one add-on at a time.                                            *)

(* The launcher and a hand-off require a signature; other buttons of the    *)
(* page ask for none, and optional is left to callers of the runtime.       *)
StartLoad(a, mode) ==
    /\ page.via \in {"launcher", "hand-off"} /\ page.stage = "idle" /\ a \in page.ids
    /\ page' = [page EXCEPT !.stage = "manifest", !.addon = a, !.mode = mode, !.seen = {page.from}]

Refuse(n, why) == page' = [page EXCEPT !.stage = "refused", !.reason = why, !.seen = @ \cup {n}]

(* A slip: what is mounted is fetched again after it has been verified.     *)
Slip_Mount(n, bytes, sig) ==
    IF ParsedManifest(bytes) = {} THEN Refuse(n, "manifest")
    ELSE \E again \in {l \in Answers : page.addon \in DOMAIN releases[l].manifests} :
            page' = [page EXCEPT !.stage = "mounted", !.bytes = <<releases[again].manifests[page.addon]>>,
                        !.sig = sig, !.seen = @ \cup {n}]

(* The manifest is parsed, validated and mounted.                           *)
Mount(n, bytes, sig) ==
    IF ParsedManifest(bytes) = {} THEN Refuse(n, "manifest")
    ELSE page' = [page EXCEPT !.stage = "mounted", !.bytes = <<bytes>>, !.sig = sig, !.seen = @ \cup {n}]

ManifestAnswered(n) ==
    LET found == releases[n].manifests IN
    /\ page.stage = "manifest"
    /\ IF page.addon \notin DOMAIN found THEN Refuse(n, "http")
       ELSE IF page.mode = "none" THEN Mount(n, found[page.addon], <<>>)
       ELSE IF page.keys = {} THEN Refuse(n, "no keys")
       ELSE page' = [page EXCEPT !.stage = "signature", !.bytes = <<found[page.addon]>>, !.seen = @ \cup {n}]

SignatureAnswered(n) ==
    LET found == releases[n].sigs
        bytes == page.bytes[1]
    IN  /\ page.stage = "signature"
        /\ IF page.addon \notin DOMAIN found
             THEN IF page.mode = "required" THEN Refuse(n, "missing") ELSE Mount(n, bytes, <<>>)
           ELSE IF ~ValidSignature(found[page.addon]) THEN Refuse(n, "payload")
           ELSE LET result == VerifyResult(bytes, found[page.addon], page.keys) IN
                IF result # "ok" THEN Refuse(n, result) ELSE Mount(n, bytes, <<found[page.addon]>>)

(* A fetch that is rejected, or answered with a status that neither gives   *)
(* the file nor says it is not there: load() throws, in every mode.         *)
FetchFails ==
    /\ page.stage \in {"manifest", "signature"}
    /\ page' = [page EXCEPT !.stage = "refused", !.reason = "fetch"]

(* The user loads another one, or the page again.                           *)
LoadOver == page.stage \in {"mounted", "refused"} /\ Read(page.via, page.from)
Reload == page.via # "nothing" /\ page' = NothingRead

Page ==
    \/ \E n \in Answers : OpenLauncher(n) \/ OpenHandoff(n) \/ ManifestAnswered(n) \/ SignatureAnswered(n)
    \/ \E a \in Addons, mode \in Modes : StartLoad(a, mode)
    \/ FetchFails
    \/ LoadOver
    \/ Reload

-----------------------------------------------------------------------------
(* What an add-on that is mounted under required verification runs with is  *)
(* a manifest that the publisher signed, byte for byte, with a key that the *)
(* registry this page read trusts; whatever was published, rotated or       *)
(* re-signed between the page's three fetches.                              *)
MountedWasSigned ==
    page.stage = "mounted" /\ page.mode = "required"
        => \E k \in page.keys : <<k, page.bytes[1]>> \in signed

(* What the gate has passed loads: a page whose fetches are all answered    *)
(* from one release is not refused an add-on of its registry, so a refusal  *)
(* means that the site was replaced on the way (or a cache was behind), or  *)
(* that a fetch failed.                                                     *)
RefusedOnlyAcrossReleases ==
    page.stage = "refused" /\ page.reason # "fetch" => Cardinality(page.seen) > 1

(* docs/adr/0010-key-rotation.md:21, "Hosts that cache the registry MUST    *)
(* keep working while old and new signatures coexist": no page is refused   *)
(* for its keys while the site still trusts one of them.                    *)
CachedRegistryWorks ==
    page.stage = "refused" /\ page.reason = "untrusted-key"
        => page.keys \cap Last(releases).registry.trustedKeys = {}

(* apps/web/e2e/handoff-querystring.spec.ts:20 and docs/adr/0016: a         *)
(* hand-off from the registry that the gate has passed is offered.          *)
HandoffOffered == page.via # "refused hand-off"

=============================================================================
