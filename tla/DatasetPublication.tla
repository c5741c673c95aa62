-------------------------- MODULE DatasetPublication --------------------------
(***************************************************************************)
(* Publication of dataset versions through the quality gate                *)
(* (datasets/publication.py), over the directories of the dataset catalog  *)
(* (datasets/catalog.py) and of the artifact store                         *)
(* (repositories/local_artifact_store.py).  Every file is written under    *)
(* tmp and renamed into place.  Publishers of several processes share all  *)
(* directories, tmp included; a step is what happens between two looks at  *)
(* the file system.                                                        *)
(*                                                                         *)
(* Version ids are derived from the manifest, and the manifest from the    *)
(* request: a request stands for its version, too.                         *)
(***************************************************************************)
EXTENDS Naturals

CONSTANTS
    Publishers,
    Requests,
    Artifacts,  \* ids of report artifacts: content, run and stage
    Contents,   \* contents of quality reports
    Artifact,   \* the report artifact of each request
    Content,    \* the content of each artifact
    Passed,     \* the requests whose report has the status passed
    Previous,   \* previous_version_id of each request
    None,       \* no request, no version, no publisher
    MaxFaults   \* bound on I/O errors and crashes

ASSUME PublicationAssumption ==
    /\ Artifact \in [Requests -> Artifacts]
    /\ Content \in [Artifacts -> Contents]
    /\ Passed \subseteq Requests
    /\ None \notin Requests
    /\ None \notin Publishers
    /\ Previous \in [Requests -> Requests \union {None}]
    /\ MaxFaults \in Nat

VARIABLES
    blobs,      \* contents below blobs/sha256
    manifests,  \* artifact ids below manifests
    tmp,        \* files below the two tmp directories, by writer and purpose
    versions,   \* versions below versions
    latest,     \* aliases/.../latest.json
    quarantine, \* versions below quarantine
    publisher,  \* what each process is doing
    returned,   \* history: the requests publish() has returned for
    unlinked,   \* history: contents whose blob a failing put_bytes() removed
    faults      \* I/O errors and crashes so far

vars == <<blobs, manifests, tmp, versions, latest, quarantine, publisher, returned,
          unlinked, faults>>

-----------------------------------------------------------------------------

Files == {"blob", "manifest", "version", "alias", "record"}

Publisher == [phase   : {"idle", "checking", "writing", "renaming", "placed", "stored",
                         "versioning", "versioned", "promoting", "quarantining", "failing"},
              request : Requests \union {None},
              new     : BOOLEAN]  \* blob_existed was false

Idle == [phase |-> "idle", request |-> None, new |-> FALSE]

\* p is at a phase, at work on request q.
At(p, phase, q) == publisher[p].phase = phase /\ publisher[p].request = q

GoesTo(p, phase) == publisher' = [publisher EXCEPT ![p].phase = phase]

Store == <<blobs, manifests>>
Catalog == <<versions, latest, quarantine>>

\* A write under tmp, and the rename that needs the file to be there still.
Writes(p, files) == tmp' = tmp \union {[by |-> p, file |-> f] : f \in files}
Has(p, file) == [by |-> p, file |-> file] \in tmp

Takes(p, file) == tmp' = tmp \ {[by |-> p, file |-> file]}

Returns(p, q) ==
    /\ publisher' = [publisher EXCEPT ![p] = Idle]
    /\ returned' = returned \union {q}

-----------------------------------------------------------------------------
(* put_bytes() of the quality report                                       *)

\* A report that is in the store is not written again.
Begin(p, q) ==
    /\ publisher[p].phase = "idle"
    /\ publisher' = [publisher EXCEPT ![p] =
          [phase |-> IF Artifact[q] \in manifests THEN "stored" ELSE "checking",
           request |-> q, new |-> FALSE]]
    /\ UNCHANGED <<Store, tmp, Catalog, returned, unlinked, faults>>

CheckBlob(p, q) ==
    /\ At(p, "checking", q)
    /\ publisher' = [publisher EXCEPT ![p] =
          [phase |-> "writing", request |-> q, new |-> Content[Artifact[q]] \notin blobs]]
    /\ UNCHANGED <<Store, tmp, Catalog, returned, unlinked, faults>>

WriteReport(p, q) ==
    /\ At(p, "writing", q)
    /\ Writes(p, IF publisher[p].new THEN {"blob", "manifest"} ELSE {"manifest"})
    /\ GoesTo(p, "renaming")
    /\ UNCHANGED <<Store, Catalog, returned, unlinked, faults>>

PlaceBlob(p, q) ==
    /\ At(p, "renaming", q)
    /\ publisher[p].new => Has(p, "blob")
    /\ blobs' = IF publisher[p].new THEN blobs \union {Content[Artifact[q]]} ELSE blobs
    /\ Takes(p, "blob")
    /\ GoesTo(p, "placed")
    /\ UNCHANGED <<manifests, Catalog, returned, unlinked, faults>>

PlaceManifest(p, q) ==
    /\ At(p, "placed", q)
    /\ Has(p, "manifest")
    /\ manifests' = manifests \union {Artifact[q]}
    /\ Takes(p, "manifest")
    /\ GoesTo(p, "stored")
    /\ UNCHANGED <<blobs, Catalog, returned, unlinked, faults>>

-----------------------------------------------------------------------------
(* publish_version(), promote_to_latest() and record_quarantine()          *)

\* Mutant: lineage is not looked up.
LineageUnchecked(q) == TRUE

Lineage(q) == Previous[q] # None => Previous[q] \in versions

\* A version that exists is the same manifest, and is not written again.
CheckVersion(p, q) ==
    /\ At(p, "stored", q)
    /\ Lineage(q)
    /\ IF q \in versions
       THEN GoesTo(p, "versioned") /\ UNCHANGED tmp
       ELSE GoesTo(p, "versioning") /\ Writes(p, {"version"})
    /\ UNCHANGED <<Store, Catalog, returned, unlinked, faults>>

PlaceVersion(p, q) ==
    /\ At(p, "versioning", q)
    /\ Has(p, "version")
    /\ versions' = versions \union {q}
    /\ Takes(p, "version")
    /\ GoesTo(p, "versioned")
    /\ UNCHANGED <<Store, latest, quarantine, returned, unlinked, faults>>

\* Mutant: a warning is published as well.
PromoteAnyway(p, q) ==
    /\ At(p, "versioned", q)
    /\ Writes(p, {"alias"})
    /\ GoesTo(p, "promoting")
    /\ UNCHANGED <<Store, Catalog, returned, unlinked, faults>>

Promote(p, q) ==
    /\ At(p, "versioned", q)
    /\ q \in Passed
    /\ Writes(p, {"alias"})
    /\ GoesTo(p, "promoting")
    /\ UNCHANGED <<Store, Catalog, returned, unlinked, faults>>

PlaceAlias(p, q) ==
    /\ At(p, "promoting", q)
    /\ Has(p, "alias")
    /\ latest' = q
    /\ Takes(p, "alias")
    /\ Returns(p, q)
    /\ UNCHANGED <<Store, versions, quarantine, unlinked, faults>>

\* A record that exists is the same, too.
Quarantine(p, q) ==
    /\ At(p, "versioned", q)
    /\ q \notin Passed
    /\ IF q \in quarantine
       THEN Returns(p, q) /\ UNCHANGED tmp
       ELSE Writes(p, {"record"}) /\ GoesTo(p, "quarantining") /\ UNCHANGED returned
    /\ UNCHANGED <<Store, Catalog, unlinked, faults>>

PlaceRecord(p, q) ==
    /\ At(p, "quarantining", q)
    /\ Has(p, "record")
    /\ quarantine' = quarantine \union {q}
    /\ Takes(p, "record")
    /\ Returns(p, q)
    /\ UNCHANGED <<Store, versions, latest, unlinked, faults>>

-----------------------------------------------------------------------------
(* Failures                                                                *)

\* The file the next rename needs.
Needs(p) ==
    CASE publisher[p].phase = "renaming" /\ publisher[p].new -> {"blob"}
      [] publisher[p].phase = "placed" -> {"manifest"}
      [] publisher[p].phase = "versioning" -> {"version"}
      [] publisher[p].phase = "promoting" -> {"alias"}
      [] publisher[p].phase = "quarantining" -> {"record"}
      [] OTHER -> {}

\* The blob put_bytes() takes back: published by this call, without a manifest.
Undone(p) ==
    IF publisher[p].phase = "placed" /\ publisher[p].new
    THEN {Content[Artifact[publisher[p].request]]} ELSE {}

\* The call raises: the file is gone, the lineage unknown, or I/O fails.
Fails(p) ==
    /\ publisher[p].phase \notin {"idle", "failing"}
    /\ IF \/ \E f \in Needs(p) : ~Has(p, f)
          \/ publisher[p].phase = "stored" /\ ~Lineage(publisher[p].request)
       THEN UNCHANGED faults
       ELSE faults < MaxFaults /\ faults' = faults + 1

\* Mutant: a blob that was there before is taken back, too.
RaisesAndUnlinks(p) ==
    /\ Fails(p)
    /\ tmp' = {t \in tmp : t.by # p}
    /\ blobs' = IF publisher[p].phase = "placed"
                THEN blobs \ {Content[Artifact[publisher[p].request]]}
                ELSE blobs
    /\ unlinked' = unlinked \union Undone(p)
    /\ GoesTo(p, "failing")
    /\ UNCHANGED <<manifests, Catalog, returned>>

\* The writer removes its own temporary files, and put_bytes() the blob it
\* placed, whoever has come to rely on it in between.
Raises(p) ==
    /\ Fails(p)
    /\ tmp' = {t \in tmp : t.by # p}
    /\ blobs' = blobs \ Undone(p)
    /\ unlinked' = unlinked \union Undone(p)
    /\ GoesTo(p, "failing")
    /\ UNCHANGED <<manifests, Catalog, returned>>

\* cleanup_temporary_paths() of publish(): both tmp directories, whoever wrote.
CleanUp(p) ==
    /\ publisher[p].phase = "failing"
    /\ tmp' = {}
    /\ publisher' = [publisher EXCEPT ![p] = Idle]
    /\ UNCHANGED <<Store, Catalog, returned, unlinked, faults>>

Crash(p) ==
    /\ publisher[p].phase # "idle"
    /\ faults < MaxFaults
    /\ faults' = faults + 1
    /\ publisher' = [publisher EXCEPT ![p] = Idle]
    /\ tmp' = {IF t.by = p THEN [t EXCEPT !.by = None] ELSE t : t \in tmp}
    /\ UNCHANGED <<Store, Catalog, returned, unlinked>>

-----------------------------------------------------------------------------

Init ==
    /\ blobs = {}
    /\ manifests = {}
    /\ tmp = {}
    /\ versions = {}
    /\ latest = None
    /\ quarantine = {}
    /\ publisher = [p \in Publishers |-> Idle]
    /\ returned = {}
    /\ unlinked = {}
    /\ faults = 0

StoresReport(p, q) == CheckBlob(p, q) \/ WriteReport(p, q) \/ PlaceBlob(p, q) \/ PlaceManifest(p, q)

Publishes(p, q) ==
    \/ StoresReport(p, q)
    \/ CheckVersion(p, q) \/ PlaceVersion(p, q)
    \/ Promote(p, q) \/ PlaceAlias(p, q) \/ Quarantine(p, q) \/ PlaceRecord(p, q)

Next ==
    \E p \in Publishers :
        \/ \E q \in Requests : Begin(p, q) \/ Publishes(p, q)
        \/ Raises(p) \/ CleanUp(p) \/ Crash(p)

Spec == Init /\ [][Next]_vars

-----------------------------------------------------------------------------
(* Properties                                                              *)

\* Directories and publishers hold what the code puts there.
TypeOK ==
    /\ blobs \subseteq Contents
    /\ manifests \subseteq Artifacts
    /\ tmp \subseteq [by : Publishers \union {None}, file : Files]
    /\ versions \subseteq Requests
    /\ latest \in Requests \union {None}
    /\ quarantine \subseteq Requests
    /\ publisher \in [Publishers -> Publisher]
    /\ returned \subseteq Requests
    /\ unlinked \subseteq Contents
    /\ faults \in 0 .. MaxFaults

\* docs/dataset-atomic-publication.md, Quality Gate Semantics: only a passed
\* version becomes latest, and every other one is held back.
LatestPassedTheGate ==
    /\ latest # None => latest \in versions \intersect Passed
    /\ quarantine \subseteq versions \ Passed

\* What a version refers to is there: the manifest of its quality report, its
\* predecessor in the catalog, and the blob of the report, with one exception.
\* A put_bytes() of the same content that fails after its rename unlinks the
\* blob under everybody else; get_bytes() of the report then raises.
VersionsAreBacked ==
    \A v \in versions :
        /\ Artifact[v] \in manifests
        /\ Content[Artifact[v]] \in blobs \union unlinked
        /\ Previous[v] # None => Previous[v] \in versions

\* publish() returns only when all it promises is in place, whoever removed
\* temporary files in between.
ReturnedIsStored ==
    \A q \in returned :
        /\ q \in versions
        /\ q \notin Passed => q \in quarantine

\* A passed request returns in the step that makes its version the latest.
LatestOnReturn ==
    [][\A q \in (returned' \ returned) \intersect Passed : latest' = q]_vars

\* A publisher that is done, or failed, leaves no temporary file; only a crash
\* does.
NoLeftovers ==
    \A t \in tmp : t.by # None => publisher[t.by].phase \notin {"idle", "stored", "versioned", "failing"}

\* docs/artifact-store-domain-model.md:32-33: the blob is placed before the
\* manifest.  A manifest loses its blob only to a failing put_bytes() of the same
\* content that takes back what it had placed: never to a crash, and never to one
\* that had found the blob.
ManifestsKeepTheirBlobs == \A a \in manifests : Content[a] \in blobs \union unlinked

=============================================================================
