----------------------------- MODULE Registries -----------------------------
(***************************************************************************)
(* The documents an add-on is found by: a publisher's registry, a          *)
(* meta-index of publishers and a list of submissions. The validators of   *)
(* scripts/lib/registry-schema.ts, and what the gallery                    *)
(* (apps/addon-gallery) and the host page accept of them.                  *)
(*                                                                         *)
(* A document is a function from the names of its fields to their values,  *)
(* "bad" one that no reader takes; a version of the schema is a number.    *)
(***************************************************************************)
EXTENDS Integers, Sequences, SequencesExt, FiniteSets, FiniteSetsExt, Functions

Has(doc, f) == f \in DOMAIN doc
Good(doc, fields) == \A f \in fields : Has(doc, f) /\ doc[f] # "bad"
GoodIfAny(doc, fields) == \A f \in fields : Has(doc, f) => doc[f] # "bad"
AllDifferent(docs, f) == \A i, j \in DOMAIN docs : docs[i][f] = docs[j][f] => i = j

-----------------------------------------------------------------------------
(* validateRegistry(), of a version v.                                      *)

EntryFields == {"id", "name", "version", "description", "path", "capabilities"}

ValidDeprecation(d) == Good(d, {"since", "reason"}) /\ GoodIfAny(d, {"supersededBy"})
ValidYank(y) == Good(y, {"at", "reason"})

ValidHistoryEntry(e) ==
    /\ Good(e, {"version", "path", "signedAt", "publicKey"}) /\ GoodIfAny(e, {"changelog"})
    /\ Has(e, "yanked") => ValidYank(e.yanked)

(* The counts by severity are a function, negative if they are no count.    *)
ValidFindings(f) ==
    /\ Good(f, {"summary"})
    /\ Has(f, "severityCounts") =>
          /\ DOMAIN f.severityCounts \subseteq {"critical", "high", "medium", "low", "nit"}
          /\ \A k \in DOMAIN f.severityCounts : f.severityCounts[k] >= 0

ValidAudit(a) ==
    /\ Good(a, {"auditor", "auditedAt", "auditedVersion"}) /\ GoodIfAny(a, {"url"})
    /\ Has(a, "findings") /\ ValidFindings(a.findings)

PastVersions(a) == IF Has(a, "history") THEN {e.version : e \in Range(a.history)} ELSE {}

ValidHistory(a) ==
    /\ \A e \in Range(a.history) : ValidHistoryEntry(e)
    /\ AllDifferent(a.history, "version") /\ a.version \notin PastVersions(a)

ValidEntry(a, v) ==
    /\ Good(a, EntryFields)
    /\ Has(a, "categories") => v >= 2 /\ "bad" \notin a.categories
    /\ Has(a, "tags") => v >= 2 /\ Len(a.tags) <= 8 /\ "bad" \notin Range(a.tags)
    /\ Has(a, "deprecated") => v >= 2 /\ ValidDeprecation(a.deprecated)
    /\ Has(a, "history") => v >= 3 /\ ValidHistory(a)
    /\ Has(a, "audit") => /\ v >= 3 /\ ValidAudit(a.audit)
                          /\ a.audit.auditedVersion \in {a.version} \cup PastVersions(a)

ValidRegistry(o) ==
    /\ o.v \in 1 .. 3 /\ Good(o, {"publisher"})
    /\ o.trustedKeys # {} /\ "bad" \notin o.trustedKeys
    /\ \A a \in Range(o.addons) :
          /\ ValidEntry(a, o.v)
          /\ Has(a, "deprecated") /\ Has(a.deprecated, "supersededBy") =>
                a.deprecated.supersededBy \in {b.id : b \in Range(o.addons)}

-----------------------------------------------------------------------------
(* validateMetaIndex() and validateSubmissions(). A URL is good if it is    *)
(* http(s); a list of labels has a set of them.                             *)

ValidPublisher(p) ==
    /\ Good(p, {"url"}) /\ GoodIfAny(p, {"name", "featured", "endorsementUrl"})
    /\ Has(p, "endorsedBy") => p.endorsedBy # <<>> /\ Len(p.endorsedBy) <= 8
                               /\ "bad" \notin Range(p.endorsedBy)

ValidMetaIndex(o) ==
    /\ o.v = 1 /\ o.kind = "senn-publisher-meta" /\ o.publishers # <<>>
    /\ \A p \in Range(o.publishers) : ValidPublisher(p)
    /\ AllDifferent(o.publishers, "url")

SubmissionFields ==
    {"id", "addonId", "version", "manifestUrl", "signatureUrl", "publicKey", "submittedAt",
     "contact", "status", "statusUpdatedAt"}
Statuses == {"pending", "needs-changes", "accepted", "rejected", "withdrawn"}

(* A reason may be missing, or be empty, only while pending.                *)
ValidSubmission(s) ==
    /\ Good(s, SubmissionFields) /\ s.status \in Statuses
    /\ GoodIfAny(s, {"statusReason", "notes"})
    /\ s.status # "pending" => Has(s, "statusReason") /\ s.statusReason # "empty"

ValidSubmissions(o) ==
    /\ o.v = 1 /\ o.kind = "senn-publisher-submissions"
    /\ \A s \in Range(o.submissions) : ValidSubmission(s)
    /\ AllDifferent(o.submissions, "id")

(* validate-registry.ts: a document without one of the kinds is a registry. *)
Validated(o) ==
    IF Has(o, "kind") /\ o.kind = "senn-publisher-meta" THEN ValidMetaIndex(o)
    ELSE IF Has(o, "kind") /\ o.kind = "senn-publisher-submissions" THEN ValidSubmissions(o)
    ELSE ValidRegistry(o)

-----------------------------------------------------------------------------
(* The gallery's own checks, isRegistry(), isMetaIndex() and                *)
(* isSubmissionsIndex(): the shape, and no more.                            *)

IsRegistry(o) ==
    /\ Has(o, "v") /\ o.v \in 1 .. 3 /\ Good(o, {"publisher"})
    /\ Has(o, "trustedKeys") /\ "bad" \notin o.trustedKeys
    /\ Has(o, "addons") /\ \A a \in Range(o.addons) : Good(a, EntryFields)

IsMetaIndex(o) ==
    /\ Has(o, "kind") /\ o.v = 1 /\ o.kind = "senn-publisher-meta"
    /\ Has(o, "publishers") /\ o.publishers # <<>>
    /\ \A p \in Range(o.publishers) : Has(p, "url") /\ p.url # "no string"

IsSubmissionsIndex(o) ==
    /\ Has(o, "kind") /\ o.v = 1 /\ o.kind = "senn-publisher-submissions" /\ Has(o, "submissions")
    /\ \A s \in Range(o.submissions) : \A f \in SubmissionFields : Has(s, f) /\ s[f] # "no string"

(* loadFromUrl(): what a document is taken for.                             *)
KindOf(o) ==
    IF IsSubmissionsIndex(o) THEN "submissions"
    ELSE IF IsMetaIndex(o) THEN "meta"
    ELSE IF IsRegistry(o) THEN "registry"
    ELSE "invalid"

(* normalizeEndorsedBy(): eight labels at most, of those that are good.     *)
Labels(p) ==
    LET good == SelectSeq(p.endorsedBy, LAMBDA l : l # "bad" /\ l # "blank")
    IN  SubSeq(good, 1, Min({8, Len(good)}))

NormalPublisher(p) ==
    LET kept == {f \in DOMAIN p \ {"endorsedBy"} : p[f] # "bad"}
                    \cup {f \in DOMAIN p \cap {"endorsedBy"} : Labels(p) # <<>>}
    IN  [f \in kept |-> IF f = "endorsedBy" THEN Labels(p) ELSE p[f]]

IsFeatured(p) == Has(p, "featured") /\ p.featured = "yes"

(* normalizeMetaIndex(): the first entry of each good URL, featured ones in *)
(* front, else in order.                                                    *)
NormalPublishers(o) ==
    LET first == {i \in DOMAIN o.publishers :
                    /\ o.publishers[i].url # "bad"
                    /\ \A j \in 1 .. (i - 1) : o.publishers[j].url # o.publishers[i].url}
        before(i, j) == IF IsFeatured(o.publishers[i]) = IsFeatured(o.publishers[j]) THEN i < j
                        ELSE IsFeatured(o.publishers[i])
        sorted == SetToSortSeq(first, before)
    IN  [i \in 1 .. Cardinality(first) |-> NormalPublisher(o.publishers[sorted[i]])]

(* manifestUrlFor(): below the directory that the registry's own is in, or  *)
(* the root of the site if it is not a registry/<publisher>/ one. A URL is  *)
(* its directories and its file; a path of the repository, its directories. *)
ManifestUrlFor(registryUrl, path) ==
    LET n == Len(registryUrl)
        base == IF n >= 3 /\ registryUrl[n - 2] = "registry" THEN SubSeq(registryUrl, 1, n - 3) ELSE <<>>
    IN  base \o <<"addons", Last(path), "manifest.json">>

-----------------------------------------------------------------------------
(* handleHandoff() of the host page.                                        *)
HandoffAccepts(o) == o.v \in {1, 2} /\ o.trustedKeys # {}

=============================================================================
