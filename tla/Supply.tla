------------------------------- MODULE Supply -------------------------------
(***************************************************************************)
(* How an add-on reaches a user: the publisher's site (Publishing) is read *)
(* by a host page that loads add-ons (AddonLoad) or by the gallery that    *)
(* lists them (Gallery), while the publisher goes on publishing. The two   *)
(* readers share nothing; a behaviour has one of them.                     *)
(***************************************************************************)
EXTENDS AddonLoad, Gallery

CONSTANT Works   \* bound: the add-ons the publisher works on, by reader

ASSUME SupplyConstants == Works \in [{"page", "nobody"} -> SUBSET Addons]

VARIABLE reader   \* "page", "nobody" yet or "gallery"

vars == <<publisherVars, page, galleryVars, reader>>

Init ==
    /\ reader \in {"page", "nobody"}
    /\ PublishingInit /\ PageInit /\ GalleryInit

(* Edits that are not released are seen by nobody, so for the gallery they  *)
(* all come first: it is opened when the next release is ready.             *)
OpenGallery ==
    /\ reader = "nobody" /\ signing = Idle /\ VerifyOfficial
    /\ sigs # releases[1].sigs
    /\ reader' = "gallery"
    /\ UNCHANGED <<publisherVars, page, galleryVars>>

Next ==
    \/ /\ reader # "gallery" /\ Len(releases) < MaxReleases /\ Publish(Works[reader])
       /\ UNCHANGED <<page, galleryVars, reader>>
    \/ reader = "gallery" /\ Release /\ UNCHANGED <<page, galleryVars, reader>>
    \/ reader = "page" /\ Page /\ UNCHANGED <<publisherVars, galleryVars, reader>>
    \/ OpenGallery
    \/ reader = "gallery" /\ GalleryStep /\ UNCHANGED <<publisherVars, page, reader>>

Spec == Init /\ [][Next]_vars

(* What a user is told is verified was signed, byte for byte, with a key of *)
(* the registry it is shown under: an add-on mounted under required         *)
(* verification, and a card with the badge "verified". Registry, manifest   *)
(* and signature are fetched one by one, from caches too, while the         *)
(* publisher raises versions, re-signs and rotates its keys.                *)
VouchedWasSigned ==
    /\ MountedWasSigned
    /\ \A i \in DOMAIN rows : rows[i].result = "ok" =>
          \E k \in rows[i].keys : <<k, rows[i].bytes[1]>> \in signed

=============================================================================
