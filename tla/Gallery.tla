------------------------------- MODULE Gallery -------------------------------
(***************************************************************************)
(* apps/addon-gallery/src/main.ts: the registries a user has configured,   *)
(* and the runs of refreshAll() that fetch them one after the other and    *)
(* check what each lists. Runs overlap: every change of the list starts    *)
(* one, none waits for another, and they share the page's state, the list  *)
(* of registries itself and the cache mode of their fetches.               *)
(*                                                                         *)
(* The publisher's site has its registry at Official and releases as in    *)
(* Publishing; the other documents are fixed.                              *)
(***************************************************************************)
EXTENDS Publishing

CONSTANTS
    Urls,      \* URLs a user may configure
    Official,  \* the publisher's registry, and the default
    Saved,     \* what LS_REGISTRIES holds at first
    Documents, \* the documents at other URLs; nothing is found elsewhere
    MaxRuns,   \* bound: runs of refreshAll() at once
    MaxClicks  \* bound: what the user does

ASSUME GalleryConstants ==
    /\ Saved \in Seq(Range(Saved))
    \* the publisher's is the only registry; what documents list is in order
    /\ \A url \in DOMAIN Documents :
          /\ KindOf(Documents[url]) # "registry"
          /\ KindOf(Documents[url]) = "meta" =>
                Documents[url].publishers \in Seq(Range(Documents[url].publishers))

VARIABLES
    list,      \* state.registries, an array
    stored,    \* LS_REGISTRIES
    rows,      \* state.rows
    loaded,    \* the keys of registriesByUrl, metaByUrl and submissionsByUrl
    failed,    \* those of loadErrors
    cacheMode, \* currentCacheMode
    runs,      \* refreshAll() under way
    settled,   \* a run has ended on this page
    clicks

shown == <<rows, loaded, failed>>
galleryVars == <<list, stored, shown, cacheMode, runs, settled, clicks>>

(* readRegistries(): without repetitions; the default if there is none.     *)
Registries(saved) ==
    LET once == {i \in DOMAIN saved : \A j \in 1 .. (i - 1) : saved[j] # saved[i]}
        kept == [i \in 1 .. Cardinality(once) |-> saved[SetToSortSeq(once, <)[i]]]
    IN  IF kept = <<>> THEN <<Official>> ELSE kept

-----------------------------------------------------------------------------
(* Fetches. What is fetched in mode "reload" is the site's own answer.      *)

Answered(mode) == IF mode = "reload" THEN {Len(releases)} ELSE 1 .. Len(releases)

(* A publisher's index being loaded: its stage is "index", "files" or       *)
(* "done"; files[<<i, f>>] is the release that file f of its i-th add-on    *)
(* was answered from.                                                       *)
Job(url, via, mode) ==
    [url |-> url, via |-> via, stage |-> "index", ok |-> FALSE, from |-> 0, mode |-> mode,
     files |-> [x \in {} |-> 0]]

EntriesOf(job) == releases[job.from].registry.addons
FilesOf(job) == (DOMAIN EntriesOf(job)) \X {"manifest", "sig"}

(* An index is answered; a meta-index or submissions in its place fail.     *)
WithIndex(job, n) ==
    LET read == [job EXCEPT !.from = n, !.ok = TRUE, !.stage = "files"] IN
    IF job.url # Official \/ ~IsRegistry(releases[n].registry) THEN [job EXCEPT !.stage = "done"]
    ELSE IF releases[n].registry.addons = <<>> THEN [read EXCEPT !.stage = "done"]
    ELSE read

WithFile(job, x, n) ==
    LET files == Put(job.files, x, n)
    IN  [job EXCEPT !.files = files, !.stage = IF DOMAIN files = FilesOf(job) THEN "done" ELSE "files"]

(* A card: of the entry, the manifest and the signature it was given.       *)
RowResult(job, i) ==
    LET path == EntriesOf(job)[i].path
        bytes == releases[job.files[<<i, "manifest">>]].manifests
        found == releases[job.files[<<i, "sig">>]].sigs
    IN  IF path \notin DOMAIN bytes \/ path \notin DOMAIN found THEN "fetch-error"
        ELSE IF ~ValidSignature(found[path]) THEN "fetch-error"
        ELSE VerifyResult(bytes[path], found[path], releases[job.from].registry.trustedKeys)

RowsOf(job) ==
    IF ~job.ok THEN <<>>
    ELSE [i \in DOMAIN EntriesOf(job) |->
            [registryUrl |-> job.url, meta |-> job.via, addon |-> EntriesOf(job)[i].path,
             keys |-> releases[job.from].registry.trustedKeys, result |-> RowResult(job, i),
             bytes |-> LET found == releases[job.files[<<i, "manifest">>]].manifests
                       IN  IF EntriesOf(job)[i].path \in DOMAIN found
                           THEN <<found[EntriesOf(job)[i].path]>> ELSE <<>>]]

-----------------------------------------------------------------------------
(* refreshAll().                                                            *)

(* A run goes through the array that state.registries was when it began: an *)
(* entry pushed to it is visited too, an entry filtered out of a new one    *)
(* still is. jobs is <<>> while the entry's own document is awaited.        *)
NewRun(bypass, urls) ==
    [array |-> urls, shared |-> TRUE, at |-> 1, bypass |-> bypass, previous |-> cacheMode,
     mode |-> IF bypass THEN "reload" ELSE "default", jobs |-> <<>>]

(* A slip: one run at a time, and what is asked for meanwhile is dropped.   *)
Slip_Refresh(bypass, urls, others) ==
    /\ rows' = <<>> /\ loaded' = {} /\ failed' = {}
    /\ runs' = IF others = <<>> THEN <<NewRun(bypass, urls)>> ELSE others
    /\ UNCHANGED <<cacheMode, settled>>

(* The state is cleared, and the first entry is fetched, if there is one;   *)
(* others are the runs under way.                                           *)
Refresh(bypass, urls, others) ==
    /\ Len(runs) < MaxRuns
    /\ rows' = <<>> /\ loaded' = {} /\ failed' = {}
    /\ IF urls = <<>> THEN runs' = others /\ settled' = TRUE /\ UNCHANGED cacheMode
       ELSE /\ runs' = Append(others, NewRun(bypass, urls))
            /\ cacheMode' = NewRun(bypass, urls).mode
            /\ UNCHANGED settled

(* A run goes on with the next entry, or ends and restores the cache mode   *)
(* that it found.                                                           *)
Advance(r, run) ==
    IF run.at < Len(run.array)
      THEN /\ runs' = [runs EXCEPT ![r] = [run EXCEPT !.at = @ + 1, !.jobs = <<>>, !.mode = cacheMode]]
           /\ UNCHANGED <<cacheMode, settled>>
      ELSE /\ runs' = RemoveAt(runs, r)
           /\ cacheMode' = run.previous
           /\ settled' = TRUE

Fails(r) ==
    /\ failed' = failed \cup {runs[r].array[runs[r].at]}
    /\ Advance(r, runs[r])
    /\ UNCHANGED <<rows, loaded>>

(* Every publisher of the entry has been loaded; a meta-index of which none *)
(* could be fails as a whole.                                               *)
Loads(r, jobs) ==
    LET ok == {i \in DOMAIN jobs : jobs[i].ok} IN
    IF ok = {} THEN Fails(r)
    ELSE /\ rows' = rows \o FlattenSeq([i \in DOMAIN jobs |-> RowsOf(jobs[i])])
         /\ loaded' = loaded \cup {jobs[i].url : i \in ok} \cup {runs[r].array[runs[r].at]}
         /\ Advance(r, runs[r])
         /\ UNCHANGED failed

Continue(r, jobs) ==
    IF \A i \in DOMAIN jobs : jobs[i].stage = "done" THEN Loads(r, jobs)
    ELSE /\ runs' = [runs EXCEPT ![r].jobs = jobs]
         /\ UNCHANGED <<shown, cacheMode, settled>>

(* The entry's own document is answered.                                    *)
IndexAnswered(r) ==
    LET run == runs[r]
        url == run.array[run.at]
    IN  /\ run.jobs = <<>>
        /\ IF url = Official
             THEN \E n \in Answered(run.mode) :
                    Continue(r, <<WithIndex(Job(url, <<>>, cacheMode), n)>>)
           ELSE IF url \notin DOMAIN Documents \/ KindOf(Documents[url]) = "invalid" THEN Fails(r)
           ELSE IF KindOf(Documents[url]) = "submissions"
             THEN /\ loaded' = loaded \cup {url}
                  /\ Advance(r, run)
                  /\ UNCHANGED <<rows, failed>>
           ELSE LET publishers == NormalPublishers(Documents[url])
                IN  Continue(r, [i \in DOMAIN publishers |-> Job(publishers[i].url, <<url>>, cacheMode)])

(* A publisher's index, or a file of one of its add-ons, is answered.       *)
PublisherAnswered(r, i) ==
    /\ i \in DOMAIN runs[r].jobs /\ runs[r].jobs[i].stage = "index"
    /\ \E n \in Answered(runs[r].jobs[i].mode) :
          Continue(r, [runs[r].jobs EXCEPT ![i] = [WithIndex(@, n) EXCEPT !.mode = cacheMode]])

FileAnswered(r, i) ==
    /\ i \in DOMAIN runs[r].jobs /\ runs[r].jobs[i].stage = "files"
    /\ \E x \in FilesOf(runs[r].jobs[i]) \ DOMAIN runs[r].jobs[i].files,
          n \in Answered(runs[r].jobs[i].mode) :
          Continue(r, [runs[r].jobs EXCEPT ![i] = WithFile(@, x, n)])

-----------------------------------------------------------------------------
(* The user.                                                                *)

AddRegistry(url) ==
    /\ url \notin Range(list)
    /\ list' = Append(list, url) /\ stored' = list'
    /\ Refresh(FALSE, list', [r \in DOMAIN runs |->
            IF runs[r].shared THEN [runs[r] EXCEPT !.array = list'] ELSE runs[r]])

Without(urls, url) == FlattenSeq([i \in DOMAIN urls |-> IF urls[i] = url THEN <<>> ELSE <<urls[i]>>])

RemoveRegistry(url) ==
    /\ url \in Range(list)
    /\ list' = Without(list, url) /\ stored' = list'
    /\ Refresh(FALSE, list', [r \in DOMAIN runs |-> [runs[r] EXCEPT !.shared = FALSE]])

PressRefresh ==
    /\ Refresh(TRUE, list, runs)
    /\ UNCHANGED <<list, stored>>

(* The page is loaded again.                                                *)
ReloadGallery ==
    /\ list' = Registries(stored)
    /\ rows' = <<>> /\ loaded' = {} /\ failed' = {}
    /\ cacheMode' = "default" /\ settled' = FALSE
    /\ runs' = <<[NewRun(FALSE, list') EXCEPT !.previous = "default"]>>
    /\ UNCHANGED stored

GalleryInit ==
    /\ stored = Saved /\ list = Registries(stored)
    /\ rows = <<>> /\ loaded = {} /\ failed = {} /\ cacheMode = "default" /\ settled = FALSE
    /\ runs = <<NewRun(FALSE, list)>> /\ clicks = 0

Click(act) == clicks < MaxClicks /\ clicks' = clicks + 1 /\ act

GalleryStep ==
    \/ \E url \in Urls : Click(AddRegistry(url)) \/ Click(RemoveRegistry(url))
    \/ Click(PressRefresh)
    \/ Click(ReloadGallery)
    \/ \E r \in DOMAIN runs :
          /\ IndexAnswered(r) \/ \E i \in DOMAIN runs[r].jobs : PublisherAnswered(r, i) \/ FileAnswered(r, i)
          /\ UNCHANGED <<list, stored, clicks>>

-----------------------------------------------------------------------------
(* Once no run is under way every registry in the list is accounted for: it *)
(* was loaded or its error is shown, however runs overlapped, cleared what  *)
(* others had loaded and went through arrays that have changed since.       *)
AllAccountedFor == runs = <<>> /\ settled => Range(list) \subseteq loaded \cup failed

(* main.ts:272-274, "When the user clicks Refresh, every fetch in the run   *)
(* is forced to revalidate": none of its fetches may be answered by a cache. *)
RefreshRevalidates ==
    \A r \in DOMAIN runs : runs[r].bypass =>
        /\ runs[r].jobs = <<>> => runs[r].mode = "reload"
        /\ \A i \in DOMAIN runs[r].jobs : runs[r].jobs[i].stage # "done" => runs[r].jobs[i].mode = "reload"
=============================================================================
