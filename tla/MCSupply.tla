------------------------------ MODULE MCSupply ------------------------------
(* One add-on that is released and another that follows, a second key, one *)
(* further release; and the validators on small documents.                 *)
EXTENDS Supply

TheSaved == <<"submissions", "official">>
TheListed == <<"a">>
TheVersions == <<"1.0.0", "1.1.0">>
TheWorks == [page |-> {"a", "b"}, nobody |-> {"a"}]
Publisher(url, featured) == [url |-> url, featured |-> featured]
TheDocuments ==
    [meta |-> [v |-> 1, kind |-> "senn-publisher-meta",
               publishers |-> <<Publisher("gone", "bad"), Publisher("official", "yes")>>],
     submissions |-> [v |-> 1, kind |-> "senn-publisher-submissions", submissions |-> <<>>]]
-----------------------------------------------------------------------------
(* Documents: every choice of present fields and of their values.          *)
Docs(must, may, values(_)) ==
    UNION {{d \in [must \cup S -> UNION {values(f) : f \in must \cup S}] : \A f \in must \cup S : d[f] \in values(f)} :
              S \in SUBSET may}

ManifestDocs ==
    Docs({"id", "version", "network"}, {"name", "entry", "license", "permissions", "capabilities"},
         LAMBDA f : CASE f \in {"name", "permissions", "capabilities"} -> {"ok", "empty", "bad"}
                      [] f \in {"id", "entry", "license"} -> {"ok", "bad"} [] OTHER -> {"ok"})

(* What the runtime mounts has passed the scripts' check; a manifest whose *)
(* name is empty passes the check and is not mounted.                      *)
ASSUME RuntimeIsStricter ==
    /\ \A m \in ManifestDocs : ValidManifest(m) => ValidManifestFile(m)
    /\ \E m \in ManifestDocs : ValidManifestFile(m) /\ m.name = "empty" /\ ParsedManifest(m) = {}
    /\ \A m \in ManifestDocs : \A p \in ParsedManifest(m) : ParsedManifest(p) = {p} /\ DOMAIN p = ManifestFields

(* A signature verifies under the keystore it was made with, over the same *)
(* bytes; a keystore of two halves loads and signs, and nothing verifies.  *)
ASSUME KeysMatch ==
    \A pub, priv \in {"k", "l"}, signedBytes, bytes \in {"b", "c"}, given \in SUBSET {"k", "l"} :
        \A pair \in LoadedKeystore([ExportedKeystore(GeneratedPair(priv)) EXCEPT !.publicKey = pub]) :
            LET s == SignedManifest(signedBytes, pair) IN
            /\ ValidSignature(s)
            /\ VerifyScript(bytes, s, given) <=>
                  pub = priv /\ signedBytes = bytes /\ (given = {} \/ pub \in given)

Yanked == [at |-> "t", reason |-> "r"]
History ==
    {<<>>} \cup {<<[version |-> v, path |-> "p", signedAt |-> t, publicKey |-> "k", yanked |-> y]>> :
                     v \in {"1", "2"}, t \in {"t", "bad"}, y \in {Yanked, [at |-> "t"]}}
Audits == {[auditor |-> "x", auditedAt |-> "t", auditedVersion |-> v, findings |-> f] :
              v \in {"1", "2"}, f \in {[summary |-> "s"], [summary |-> "s", severityCounts |-> [high |-> -1]]}}
Option(f, values) == {[x \in {} |-> 0]} \cup {[x \in {f} |-> v] : v \in values}
EntryDocs ==
    {EntryOf("a", "1") @@ c @@ t @@ d @@ h @@ u :
        c \in Option("categories", {{"files"}, {"bad"}}), t \in Option("tags", {<<"x">>}),
        d \in Option("deprecated", {[since |-> "t", reason |-> "r", supersededBy |-> i] : i \in {"a", "gone"}}),
        h \in Option("history", History), u \in Option("audit", Audits)}
RegistryDocs ==
    [v : 0 .. 4, publisher : {"p", "bad"}, trustedKeys : {{}, {"k"}, {"k", "bad"}}, addons : {<<e>> : e \in EntryDocs}]

(* What the gate has passed the gallery shows. Of a valid registry the     *)
(* host page accepts the versions 1 and 2 only, which none of the later    *)
(* fields can be in.                                                       *)
ASSUME ValidRegistriesRead ==
    \A o \in RegistryDocs : Validated(o) =>
        /\ KindOf(o) = "registry" /\ o.trustedKeys # {}
        /\ ~HandoffAccepts(o) <=> o.v = 3
        /\ Has(o.addons[1], "history") \/ Has(o.addons[1], "audit") => ~HandoffAccepts(o)

PublisherDocs ==
    {[url |-> u] @@ f @@ e :
        u \in {"u", "w", "bad"}, f \in Option("featured", {"yes", "no", "bad"}),
        e \in Option("endorsedBy", {<<"x">>, <<"blank">>, [i \in 1 .. 9 |-> "x"]})}
MetaDocs ==
    [v : {1}, kind : {"senn-publisher-meta"},
     publishers : {<<>>} \cup UNION {[1 .. n -> PublisherDocs] : n \in 1 .. 2}]

(* The gallery's reading of a meta-index has no URL twice and the featured *)
(* publishers in front, and loses none of those of a valid one.            *)
ASSUME MetaIndexesNormal ==
    \A o \in MetaDocs : IsMetaIndex(o) =>
        LET ps == NormalPublishers(o) IN
        /\ AllDifferent(ps, "url") /\ \A i, j \in DOMAIN ps : i < j /\ IsFeatured(ps[j]) => IsFeatured(ps[i])
        /\ \A i \in DOMAIN ps : Has(ps[i], "endorsedBy") => Len(ps[i].endorsedBy) \in 1 .. 8
        /\ Validated(o) => {p.url : p \in Range(ps)} = {p.url : p \in Range(o.publishers)}

SubmissionDocs ==
    {[f \in SubmissionFields \cup r |-> IF f = "status" THEN st ELSE IF f = "statusReason" THEN t ELSE "ok"] :
        st \in Statuses \cup {"bad"}, r \in {{}, {"statusReason"}}, t \in {"ok", "empty", "bad"}}

(* A valid list of submissions is shown, and every decision has a reason.  *)
ASSUME DecisionsHaveReasons ==
    \A s \in SubmissionDocs :
        LET o == [v |-> 1, kind |-> "senn-publisher-submissions", submissions |-> <<s>>] IN
        Validated(o) => KindOf(o) = "submissions" /\ (s.status # "pending" => s.statusReason = "ok")

(* Manifests are found beside the site's own mirror of the registry; for   *)
(* the registry in the repository, as the official meta-index names it,    *)
(* they are looked for where they are not.                                 *)
ASSUME ManifestsFound ==
    /\ \A base \in {<<>>, <<"senn">>} :
          ManifestUrlFor(base \o <<"registry", "official", "index.json">>, <<"apps", "web", "public", "addons", "echo">>)
              = base \o <<"addons", "echo", "manifest.json">>
    /\ ManifestUrlFor(<<"20m61", "senn", "develop", "addons", "official", "index.json">>,
                      <<"apps", "web", "public", "addons", "echo">>) = <<"addons", "echo", "manifest.json">>
=============================================================================
