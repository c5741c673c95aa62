--------------------------- MODULE PublicationProofs ---------------------------
(***************************************************************************)
(* Proofs about what is published and what is made of it, for any number   *)
(* of clients, contents and crashes, and for any formulas and data.        *)
(*                                                                         *)
(* DatasetPublication: what a publisher relies on from one rename to the   *)
(* next (Progress) only grows, except for the temporary files, which the   *)
(* actions look at again, and the blobs, which only a failing put_bytes()  *)
(* takes back (BlobsAreThere).                                             *)
(*                                                                         *)
(* FactorRepository: what a client relies on from one file to the next     *)
(* (ClientsAreBacked) only grows, for nothing removes a version.           *)
(*                                                                         *)
(* FactorScreening: what a node of a formula is worth on a day depends on  *)
(* its inputs on the days it looks back to (SameValues, by induction over  *)
(* the nodes), and those are in the partition's range of planned days      *)
(* (StartIsEarly) or before them; so what a restatement makes stale is     *)
(* selected, or the restatement was too early (TooEarly).  Pinned screens  *)
(* repeat because the cache changes with the release only (PinnedRuns).    *)
(* An evaluation is of numbers (NumbersInv), and each pair of it is in the *)
(* group between whose bounds its place of the day is (QuantileGroupsAre); *)
(* sums do not depend on an order (SumInAnyOrder).                         *)
(***************************************************************************)
EXTENDS DatasetPublication, FactorRepository, FactorScreening, FiniteSetTheorems,
        WellFoundedInduction, TLAPS

\* What is known of a publisher by the phase it has reached.
ProgressOf(r) ==
    /\ r.phase # "idle" => r.request \in Requests
    /\ r.phase \in {"stored", "versioning", "versioned", "promoting", "quarantining"} =>
           Artifact[r.request] \in manifests
    /\ r.phase = "versioning" => Lineage(r.request)
    /\ r.phase \in {"versioned", "promoting", "quarantining"} => r.request \in versions
    /\ r.phase = "promoting" => r.request \in Passed
    /\ r.phase = "quarantining" => r.request \notin Passed

Progress == \A p \in Publishers : ProgressOf(publisher[p])

\* The phases in which a publisher may own a temporary file.
Owning(file) ==
    CASE file = "blob" -> {"renaming"}
      [] file = "manifest" -> {"renaming", "placed"}
      [] file = "version" -> {"versioning"}
      [] file = "alias" -> {"promoting"}
      [] file = "record" -> {"quarantining"}

FilesAreOwned == \A t \in tmp : t.by # None => publisher[t.by].phase \in Owning(t.file)

\* The blob a publisher found or placed is there, unless it was unlinked.
BlobOf(r) ==
    (r.phase \in {"writing", "renaming"} /\ ~r.new) \/ r.phase = "placed" =>
        Content[Artifact[r.request]] \in blobs \union unlinked

BlobsAreThere == \A p \in Publishers : BlobOf(publisher[p])

\* A version has a manifest and a predecessor, whatever became of the blob.
VersionsAreListed == \A v \in versions : Artifact[v] \in manifests /\ Lineage(v)

Kept == LatestPassedTheGate /\ VersionsAreListed /\ ReturnedIsStored /\ Progress

Reports == ManifestsKeepTheirBlobs /\ BlobsAreThere

IInv == TypeOK /\ Kept /\ FilesAreOwned /\ Reports

-----------------------------------------------------------------------------
(* Publishers                                                              *)

LEMMA IdleIsPublisher == Idle \in Publisher /\ Idle.phase = "idle"
  BY DEF Idle, Publisher

\* A step of p changes the record of p only.
LEMMA OnlyOne ==
    ASSUME TypeOK, NEW p \in Publishers, NEW r \in Publisher,
           publisher' = [publisher EXCEPT ![p] = r]
    PROVE  /\ publisher' \in [Publishers -> Publisher]
           /\ publisher'[p] = r
           /\ \A o \in Publishers : o # p => publisher'[o] = publisher[o]
  BY DEF TypeOK

\* GoesTo() changes the phase only.
LEMMA Goes ==
    ASSUME TypeOK, NEW p \in Publishers,
           NEW phase \in {"writing", "renaming", "placed", "stored", "versioning", "versioned",
                          "promoting", "quarantining", "failing"},
           GoesTo(p, phase)
    PROVE  /\ publisher' \in [Publishers -> Publisher]
           /\ publisher'[p].phase = phase
           /\ publisher'[p].request = publisher[p].request
           /\ publisher'[p].new = publisher[p].new
           /\ \A o \in Publishers : o # p => publisher'[o] = publisher[o]
<1>. DEFINE r == [phase |-> phase, request |-> publisher[p].request, new |-> publisher[p].new]
<1>1. publisher[p] \in Publisher /\ publisher \in [Publishers -> Publisher]
  BY DEF TypeOK
<1>2. [publisher[p] EXCEPT !.phase = phase] = r
  BY <1>1 DEF Publisher
<1>3. r \in Publisher
  BY <1>1 DEF Publisher
<1>4. publisher' = [publisher EXCEPT ![p] = r]
  BY <1>1, <1>2 DEF GoesTo
<1>. QED  BY <1>1, <1>3, <1>4

\* p turns idle.
LEMMA TurnsIdle ==
    ASSUME TypeOK, NEW p \in Publishers, publisher' = [publisher EXCEPT ![p] = Idle]
    PROVE  /\ publisher' \in [Publishers -> Publisher]
           /\ publisher'[p].phase = "idle"
           /\ \A o \in Publishers : o # p => publisher'[o] = publisher[o]
  BY IdleIsPublisher DEF TypeOK

\* The files of p are those its phase owns.
LEMMA OwnFiles ==
    ASSUME TypeOK, FilesAreOwned, NEW t \in tmp, t.by \in Publishers
    PROVE  t.file \in Files /\ publisher[t.by].phase \in Owning(t.file)
  BY PublicationAssumption DEF TypeOK, FilesAreOwned

-----------------------------------------------------------------------------
(* The parts of the invariant, for a step of one publisher                 *)

\* What is kept is kept by a step that removes nothing, and adds only what
\* is backed.
LEMMA KeptStays ==
    ASSUME TypeOK, TypeOK', Kept,
           NEW p \in Publishers,
           \A o \in Publishers : o # p => publisher'[o] = publisher[o],
           manifests \subseteq manifests', versions \subseteq versions', quarantine \subseteq quarantine',
           \A v \in versions' \ versions : Artifact[v] \in manifests /\ Lineage(v),
           latest' = latest \/ latest' \in versions \intersect Passed,
           \A q \in quarantine' \ quarantine : q \in versions \ Passed,
           \A q \in returned' \ returned :
               q \in versions /\ (q \notin Passed => q \in quarantine'),
           ProgressOf(publisher[p])'
    PROVE  Kept'
<1>1. \A q : Lineage(q) => Lineage(q)'
  BY DEF Lineage
<1>2. LatestPassedTheGate' /\ ReturnedIsStored'
  BY DEF Kept, LatestPassedTheGate, ReturnedIsStored
<1>3. VersionsAreListed'
  BY <1>1 DEF Kept, VersionsAreListed
<1>4. \A o \in Publishers : o # p => ProgressOf(publisher[o])'
  BY <1>1 DEF Kept, Progress, ProgressOf
<1>5. Progress'
  BY <1>4 DEF Progress
<1>. QED  BY <1>2, <1>3, <1>5 DEF Kept

\* Temporary files stay owned if p writes and keeps its own only.
LEMMA FilesStay ==
    ASSUME FilesAreOwned, NEW p \in Publishers, NEW files \in SUBSET Files,
           \A o \in Publishers : o # p => publisher'[o] = publisher[o],
           TypeOK, TypeOK',
           \A t \in tmp' : t \in tmp \/ t.by \in {p, None},
           \A t \in tmp' : t.by = p => t.file \in files,
           \A f \in files : publisher'[p].phase \in Owning(f)
    PROVE  FilesAreOwned'
<1>. SUFFICES ASSUME NEW t \in tmp', t.by # None PROVE publisher'[t.by].phase \in Owning(t.file)
  BY DEF FilesAreOwned, Owning
<1>1. CASE t.by = p
  BY <1>1
<1>2. CASE t.by # p
  <2>1. t \in tmp /\ t.by \in Publishers
    BY <1>2 DEF TypeOK
  <2>. QED  BY <1>2, <2>1 DEF FilesAreOwned
<1>. QED  BY <1>1, <1>2

\* Reports stay readable if no blob goes, and new manifests have one.
LEMMA ReportsStay ==
    ASSUME Reports, NEW p \in Publishers,
           \A o \in Publishers : o # p => publisher'[o] = publisher[o],
           blobs \union unlinked \subseteq blobs' \union unlinked',
           \A a \in manifests' \ manifests : Content[a] \in blobs' \union unlinked',
           BlobOf(publisher[p])'
    PROVE  Reports'
<1>1. ManifestsKeepTheirBlobs'
  BY DEF Reports, ManifestsKeepTheirBlobs
<1>2. ASSUME NEW o \in Publishers, o # p PROVE BlobOf(publisher[o])'
  BY <1>2 DEF Reports, BlobsAreThere, BlobOf
<1>3. BlobsAreThere'
  BY <1>2 DEF BlobsAreThere
<1>. QED  BY <1>1, <1>3 DEF Reports

-----------------------------------------------------------------------------
(* put_bytes()                                                             *)

LEMMA Initially == Init => IInv
<1>. SUFFICES ASSUME Init PROVE IInv
  OBVIOUS
<1>1. TypeOK
  <2>1. publisher \in [Publishers -> Publisher] /\ faults \in 0 .. MaxFaults
    BY IdleIsPublisher, PublicationAssumption DEF Init
  <2>. QED  BY <2>1 DEF Init, TypeOK
<1>2. \A p \in Publishers : publisher[p].phase = "idle"
  BY IdleIsPublisher DEF Init
<1>3. Kept
  BY <1>2 DEF Init, Kept, LatestPassedTheGate, VersionsAreListed, ReturnedIsStored, Progress,
              ProgressOf
<1>4. FilesAreOwned /\ Reports
  BY <1>2 DEF Init, FilesAreOwned, Reports, ManifestsKeepTheirBlobs, BlobsAreThere, BlobOf
<1>. QED  BY <1>1, <1>3, <1>4 DEF IInv

\* A phase that only moves on: nothing but the publisher changes.
LEMMA BeginKeeps ==
    ASSUME IInv, NEW p \in Publishers, NEW q \in Requests, Begin(p, q) PROVE IInv'
<1>. DEFINE r == [phase |-> IF Artifact[q] \in manifests THEN "stored" ELSE "checking",
                  request |-> q, new |-> FALSE]
<1>1. TypeOK /\ Kept /\ FilesAreOwned /\ Reports
  BY DEF IInv
<1>2. r \in Publisher
  BY DEF Publisher
<1>3. /\ publisher' = [publisher EXCEPT ![p] = r]
      /\ publisher[p].phase = "idle"
      /\ UNCHANGED <<blobs, manifests, tmp, versions, latest, quarantine, returned, unlinked, faults>>
  BY DEF Begin, Store, Catalog
<1>4. \A f \in Files : publisher[p].phase \notin Owning(f)
  BY <1>3 DEF Owning, Files
<1>5. /\ publisher' \in [Publishers -> Publisher]
      /\ publisher'[p] = r
      /\ \A o \in Publishers : o # p => publisher'[o] = publisher[o]
  <2>. HIDE DEF r
  <2>. QED  BY <1>1, <1>2, <1>3, OnlyOne
<1>6. TypeOK'
  BY <1>1, <1>3, <1>5 DEF TypeOK
<1>7. Kept'
  <2>1. ProgressOf(publisher[p])'
    BY <1>3, <1>5 DEF ProgressOf
  <2>. QED  BY <1>1, <1>3, <1>5, <1>6, <2>1, KeptStays
<1>8. FilesAreOwned'
  <2>1. \A t \in tmp : t.by # p
    BY <1>1, <1>3, <1>4, PublicationAssumption DEF FilesAreOwned, TypeOK
  <2>2. tmp' = tmp /\ {} \in SUBSET Files
    BY <1>3
  <2>. QED  BY <1>1, <1>5, <1>6, <2>1, <2>2, FilesStay
<1>9. Reports'
  <2>1. BlobOf(publisher[p])'
    BY <1>5 DEF BlobOf
  <2>. QED  BY <1>1, <1>3, <1>5, <2>1, ReportsStay
<1>. QED  BY <1>6, <1>7, <1>8, <1>9 DEF IInv

LEMMA CheckBlobKeeps ==
    ASSUME IInv, NEW p \in Publishers, NEW q \in Requests, CheckBlob(p, q) PROVE IInv'
<1>1. TypeOK /\ Kept /\ FilesAreOwned /\ Reports
  BY DEF IInv
<1>. PICK isNew \in BOOLEAN : isNew <=> Content[Artifact[q]] \notin blobs
  OBVIOUS
<1>. DEFINE r == [phase |-> "writing", request |-> q, new |-> isNew]
<1>2. /\ publisher[p] \in Publisher /\ publisher[p].phase = "checking" /\ publisher[p].request = q
      /\ publisher' = [publisher EXCEPT ![p] = r]
      /\ UNCHANGED <<blobs, manifests, tmp, versions, latest, quarantine, returned, unlinked, faults>>
  <2>1. (Content[Artifact[q]] \notin blobs) = isNew
    OBVIOUS
  <2>. QED  BY <1>1, <2>1 DEF TypeOK, CheckBlob, At, Store, Catalog
<1>4. r \in Publisher
  BY DEF Publisher
<1>6. /\ publisher' \in [Publishers -> Publisher]
      /\ publisher'[p] = r
      /\ \A o \in Publishers : o # p => publisher'[o] = publisher[o]
  <2>. HIDE DEF r
  <2>. QED  BY <1>1, <1>2, <1>4, OnlyOne
<1>7. TypeOK'
  BY <1>1, <1>2, <1>6 DEF TypeOK
<1>8. Kept'
  <2>1. ProgressOf(publisher[p])'
    BY <1>6 DEF ProgressOf
  <2>. QED  BY <1>1, <1>2, <1>6, <1>7, <2>1, KeptStays
<1>9. FilesAreOwned'
  <2>1. \A t \in tmp : t.by # p
    BY <1>1, <1>2, OwnFiles DEF Owning, Files
  <2>2. tmp' = tmp /\ {} \in SUBSET Files
    BY <1>2
  <2>. QED  BY <1>1, <1>6, <1>7, <2>1, <2>2, FilesStay
<1>10. Reports'
  <2>1. BlobOf(publisher[p])'
    BY <1>2, <1>6 DEF BlobOf
  <2>. QED  BY <1>1, <1>2, <1>6, <2>1, ReportsStay
<1>. QED  BY <1>7, <1>8, <1>9, <1>10 DEF IInv

LEMMA WriteReportKeeps ==
    ASSUME IInv, NEW p \in Publishers, NEW q \in Requests, WriteReport(p, q) PROVE IInv'
<1>1. TypeOK /\ Kept /\ FilesAreOwned /\ Reports
  BY DEF IInv
<1>. DEFINE files == IF publisher[p].new THEN {"blob", "manifest"} ELSE {"manifest"}
<1>2. /\ publisher[p].phase = "writing" /\ publisher[p].request = q
      /\ GoesTo(p, "renaming")
      /\ tmp' = tmp \union {[by |-> p, file |-> f] : f \in files}
      /\ UNCHANGED <<blobs, manifests, versions, latest, quarantine, returned, unlinked, faults>>
  BY DEF WriteReport, At, Writes, Store, Catalog
<1>3. /\ publisher' \in [Publishers -> Publisher]
      /\ publisher'[p].phase = "renaming" /\ publisher'[p].request = q
      /\ publisher'[p].new = publisher[p].new
      /\ \A o \in Publishers : o # p => publisher'[o] = publisher[o]
  BY <1>1, <1>2, Goes
<1>4. files \in SUBSET {"blob", "manifest"}
  OBVIOUS
<1>5. TypeOK'
  <2>1. tmp' \subseteq [by : Publishers \union {None}, file : Files]
    BY <1>1, <1>2, <1>4 DEF TypeOK, Files
  <2>. QED  BY <1>1, <1>2, <1>3, <2>1 DEF TypeOK
<1>6. Kept'
  <2>1. ProgressOf(publisher[p])'
    BY <1>3 DEF ProgressOf
  <2>. QED  BY <1>1, <1>2, <1>3, <1>5, <2>1, KeptStays
<1>7. FilesAreOwned'
  <2>1. \A t \in tmp : t.by # p
    BY <1>1, <1>2, OwnFiles DEF Owning, Files
  <2>2. \A t \in tmp' : t.by = p => t.file \in {"blob", "manifest"}
    BY <1>2, <1>4, <2>1
  <2>3. \A t \in tmp' : t \in tmp \/ t.by \in {p, None}
    BY <1>2
  <2>4. \A f \in {"blob", "manifest"} : publisher'[p].phase \in Owning(f)
    BY <1>3 DEF Owning
  <2>5. {"blob", "manifest"} \in SUBSET Files
    BY DEF Files
  <2>. QED  BY <1>1, <1>3, <1>5, <2>2, <2>3, <2>4, <2>5, FilesStay
<1>8. Reports'
  <2>1. BlobOf(publisher[p])'
    BY <1>1, <1>2, <1>3 DEF Reports, BlobsAreThere, BlobOf
  <2>. QED  BY <1>1, <1>2, <1>3, <2>1, ReportsStay
<1>. QED  BY <1>5, <1>6, <1>7, <1>8 DEF IInv

\* A rename: the temporary file is taken, and the phase owns nothing more.
LEMMA TakesOwn ==
    ASSUME TypeOK, TypeOK', FilesAreOwned, NEW p \in Publishers, NEW file \in Files,
           Takes(p, file), \A f \in Files : publisher[p].phase \in Owning(f) => f = file,
           \A o \in Publishers : o # p => publisher'[o] = publisher[o]
    PROVE  FilesAreOwned'
<1>1. \A t \in tmp' : t \in tmp
  BY DEF Takes
<1>2. \A t \in tmp' : t.by # p
  <2>. SUFFICES ASSUME NEW t \in tmp', t.by = p PROVE FALSE
    OBVIOUS
  <2>1. t.file = file
    BY <1>1, OwnFiles
  <2>2. t = [by |-> p, file |-> file]
    BY <1>1, <2>1 DEF TypeOK
  <2>. QED  BY <2>2 DEF Takes
<1>3. {} \in SUBSET Files
  OBVIOUS
<1>. QED  BY <1>1, <1>2, <1>3, FilesStay

LEMMA PlaceBlobKeeps ==
    ASSUME IInv, NEW p \in Publishers, NEW q \in Requests, PlaceBlob(p, q) PROVE IInv'
<1>1. TypeOK /\ Kept /\ FilesAreOwned /\ Reports
  BY DEF IInv
<1>2. /\ publisher[p].phase = "renaming" /\ publisher[p].request = q
      /\ GoesTo(p, "placed") /\ Takes(p, "blob")
      /\ blobs' = IF publisher[p].new THEN blobs \union {Content[Artifact[q]]} ELSE blobs
      /\ UNCHANGED <<manifests, versions, latest, quarantine, returned, unlinked, faults>>
  BY DEF PlaceBlob, At, Catalog
<1>3. /\ publisher' \in [Publishers -> Publisher]
      /\ publisher'[p].phase = "placed" /\ publisher'[p].request = q
      /\ \A o \in Publishers : o # p => publisher'[o] = publisher[o]
  BY <1>1, <1>2, Goes
<1>4. TypeOK'
  <2>1. Content[Artifact[q]] \in Contents
    BY PublicationAssumption
  <2>2. blobs' \subseteq Contents
    BY <1>1, <1>2, <2>1 DEF TypeOK
  <2>. QED  BY <1>1, <1>2, <1>3, <2>2 DEF TypeOK, Takes
<1>5. Kept'
  <2>1. ProgressOf(publisher[p])'
    BY <1>3 DEF ProgressOf
  <2>. QED  BY <1>1, <1>2, <1>3, <1>4, <2>1, KeptStays
<1>6. FilesAreOwned'
  <2>. SUFFICES ASSUME NEW t \in tmp', t.by # None PROVE publisher'[t.by].phase \in Owning(t.file)
    BY DEF FilesAreOwned
  <2>1. t \in tmp /\ t \in [by : Publishers \union {None}, file : Files] /\ t.by \in Publishers
    BY <1>1, <1>2 DEF TypeOK, Takes
  <2>2. CASE t.by = p
    <3>1. t.file \in {"blob", "manifest"}
      BY <1>1, <1>2, <2>1, <2>2, OwnFiles DEF Owning, Files
    <3>2. t.file # "blob"
      <4>. SUFFICES ASSUME t.file = "blob" PROVE FALSE
        OBVIOUS
      <4>1. t = [by |-> p, file |-> "blob"]
        BY <2>1, <2>2
      <4>. QED  BY <4>1, <1>2 DEF Takes
    <3>. QED  BY <1>3, <2>2, <3>1, <3>2 DEF Owning
  <2>3. CASE t.by # p
    BY <1>1, <1>3, <2>1, <2>3 DEF FilesAreOwned
  <2>. QED  BY <2>2, <2>3
<1>7. Reports'
  <2>1. BlobOf(publisher[p])'
    BY <1>1, <1>2, <1>3 DEF Reports, BlobsAreThere, BlobOf, TypeOK, Publisher
  <2>. QED  BY <1>1, <1>2, <1>3, <2>1, ReportsStay
<1>. QED  BY <1>4, <1>5, <1>6, <1>7 DEF IInv

LEMMA PlaceManifestKeeps ==
    ASSUME IInv, NEW p \in Publishers, NEW q \in Requests, PlaceManifest(p, q) PROVE IInv'
<1>1. TypeOK /\ Kept /\ FilesAreOwned /\ Reports
  BY DEF IInv
<1>2. /\ publisher[p].phase = "placed" /\ publisher[p].request = q
      /\ GoesTo(p, "stored") /\ Takes(p, "manifest")
      /\ manifests' = manifests \union {Artifact[q]}
      /\ UNCHANGED <<blobs, versions, latest, quarantine, returned, unlinked, faults>>
  BY DEF PlaceManifest, At, Catalog
<1>3. /\ publisher' \in [Publishers -> Publisher]
      /\ publisher'[p].phase = "stored" /\ publisher'[p].request = q
      /\ \A o \in Publishers : o # p => publisher'[o] = publisher[o]
  BY <1>1, <1>2, Goes
<1>4. TypeOK'
  <2>1. Artifact[q] \in Artifacts
    BY PublicationAssumption
  <2>2. manifests' \subseteq Artifacts
    BY <1>1, <1>2, <2>1 DEF TypeOK
  <2>. QED  BY <1>1, <1>2, <1>3, <2>2 DEF TypeOK, Takes
<1>5. Kept'
  <2>1. ProgressOf(publisher[p])'
    BY <1>2, <1>3 DEF ProgressOf
  <2>. QED  BY <1>1, <1>2, <1>3, <1>4, <2>1, KeptStays
<1>6. FilesAreOwned'
  <2>1. "manifest" \in Files /\ \A f \in Files : publisher[p].phase \in Owning(f) => f = "manifest"
    BY <1>2 DEF Files, Owning
  <2>. QED  BY <1>1, <1>2, <1>3, <1>4, <2>1, TakesOwn
<1>7. Reports'
  <2>1. Content[Artifact[q]] \in blobs \union unlinked
    BY <1>1, <1>2 DEF Reports, BlobsAreThere, BlobOf
  <2>2. BlobOf(publisher[p])'
    BY <1>3 DEF BlobOf
  <2>. QED  BY <1>1, <1>2, <1>3, <2>1, <2>2, ReportsStay
<1>. QED  BY <1>4, <1>5, <1>6, <1>7 DEF IInv

-----------------------------------------------------------------------------
(* The catalog                                                             *)

\* A step after put_bytes() that leaves the store alone keeps the reports.
LEMMA StoreAlone ==
    ASSUME Reports, NEW p \in Publishers,
           \A o \in Publishers : o # p => publisher'[o] = publisher[o],
           publisher'[p].phase \notin {"writing", "renaming", "placed"},
           UNCHANGED <<blobs, manifests, unlinked>>
    PROVE  Reports'
<1>1. BlobOf(publisher[p])'
  BY DEF BlobOf
<1>. QED  BY <1>1, ReportsStay

\* A write in a phase that owned no file, for one that owns the new file.
LEMMA WritesOwn ==
    ASSUME TypeOK, TypeOK', FilesAreOwned, NEW p \in Publishers, NEW file \in Files,
           Writes(p, {file}), \A f \in Files : publisher[p].phase \notin Owning(f),
           publisher'[p].phase \in Owning(file),
           \A o \in Publishers : o # p => publisher'[o] = publisher[o]
    PROVE  FilesAreOwned'
<1>1. \A t \in tmp : t.by # p
  BY OwnFiles
<1>2. \A t \in tmp' : t \in tmp \/ (t.by = p /\ t.file = file)
  BY DEF Writes
<1>3. /\ \A t \in tmp' : t \in tmp \/ t.by \in {p, None}
      /\ \A t \in tmp' : t.by = p => t.file \in {file}
      /\ {file} \in SUBSET Files
      /\ \A f \in {file} : publisher'[p].phase \in Owning(f)
  BY <1>1, <1>2
<1>. QED  BY <1>3, FilesStay

LEMMA WritesType ==
    ASSUME TypeOK, NEW p \in Publishers, NEW file \in Files, Writes(p, {file})
    PROVE  tmp' \subseteq [by : Publishers \union {None}, file : Files]
  BY DEF TypeOK, Writes

\* No file is owned before and after: tmp must not change.
LEMMA OwnsNothing ==
    ASSUME TypeOK, TypeOK', FilesAreOwned, NEW p \in Publishers, tmp' = tmp,
           \A f \in Files : publisher[p].phase \notin Owning(f),
           \A o \in Publishers : o # p => publisher'[o] = publisher[o]
    PROVE  FilesAreOwned'
<1>1. \A t \in tmp : t.by # p
  BY OwnFiles
<1>2. {} \in SUBSET Files
  OBVIOUS
<1>. QED  BY <1>1, <1>2, FilesStay

LEMMA CheckVersionKeeps ==
    ASSUME IInv, NEW p \in Publishers, NEW q \in Requests, CheckVersion(p, q) PROVE IInv'
<1>1. TypeOK /\ Kept /\ FilesAreOwned /\ Reports
  BY DEF IInv
<1>2. /\ publisher[p].phase = "stored" /\ publisher[p].request = q /\ Lineage(q)
      /\ UNCHANGED <<blobs, manifests, versions, latest, quarantine, returned, unlinked, faults>>
  BY DEF CheckVersion, At, Store, Catalog
<1>3. \A f \in Files : publisher[p].phase \notin Owning(f)
  BY <1>2 DEF Files, Owning
<1>4. ProgressOf(publisher[p])
  BY <1>1 DEF Kept, Progress
<1>5. CASE q \in versions
  <2>1. GoesTo(p, "versioned") /\ tmp' = tmp
    BY <1>5 DEF CheckVersion
  <2>2. /\ publisher' \in [Publishers -> Publisher]
        /\ publisher'[p].phase = "versioned" /\ publisher'[p].request = q
        /\ \A o \in Publishers : o # p => publisher'[o] = publisher[o]
    BY <1>1, <1>2, <2>1, Goes
  <2>3. TypeOK'
    BY <1>1, <1>2, <2>1, <2>2 DEF TypeOK
  <2>4. ProgressOf(publisher[p])'
    BY <1>2, <1>4, <1>5, <2>2 DEF ProgressOf
  <2>5. Kept'
    BY <1>1, <1>2, <2>2, <2>3, <2>4, KeptStays
  <2>6. FilesAreOwned'
    BY <1>1, <1>3, <2>1, <2>2, <2>3, OwnsNothing
  <2>. QED  BY <1>1, <1>2, <2>2, <2>3, <2>5, <2>6, StoreAlone DEF IInv
<1>6. CASE q \notin versions
  <2>1. GoesTo(p, "versioning") /\ Writes(p, {"version"}) /\ "version" \in Files
    BY <1>6 DEF CheckVersion, Files
  <2>2. /\ publisher' \in [Publishers -> Publisher]
        /\ publisher'[p].phase = "versioning" /\ publisher'[p].request = q
        /\ \A o \in Publishers : o # p => publisher'[o] = publisher[o]
    BY <1>1, <1>2, <2>1, Goes
  <2>3. TypeOK'
    BY <1>1, <1>2, <2>1, <2>2, WritesType DEF TypeOK
  <2>4. ProgressOf(publisher[p])'
    BY <1>2, <1>4, <2>2 DEF ProgressOf, Lineage
  <2>5. Kept'
    BY <1>1, <1>2, <2>2, <2>3, <2>4, KeptStays
  <2>6. publisher'[p].phase \in Owning("version")
    BY <2>2 DEF Owning
  <2>7. FilesAreOwned'
    BY <1>1, <1>3, <2>1, <2>2, <2>3, <2>6, WritesOwn
  <2>. QED  BY <1>1, <1>2, <2>2, <2>3, <2>5, <2>7, StoreAlone DEF IInv
<1>. QED  BY <1>5, <1>6

LEMMA PlaceVersionKeeps ==
    ASSUME IInv, NEW p \in Publishers, NEW q \in Requests, PlaceVersion(p, q) PROVE IInv'
<1>1. TypeOK /\ Kept /\ FilesAreOwned /\ Reports
  BY DEF IInv
<1>2. /\ publisher[p].phase = "versioning" /\ publisher[p].request = q
      /\ GoesTo(p, "versioned") /\ Takes(p, "version")
      /\ versions' = versions \union {q}
      /\ UNCHANGED <<blobs, manifests, latest, quarantine, returned, unlinked, faults>>
  BY DEF PlaceVersion, At, Store
<1>3. /\ publisher' \in [Publishers -> Publisher]
      /\ publisher'[p].phase = "versioned" /\ publisher'[p].request = q
      /\ \A o \in Publishers : o # p => publisher'[o] = publisher[o]
  BY <1>1, <1>2, Goes
<1>4. TypeOK'
  BY <1>1, <1>2, <1>3 DEF TypeOK, Takes
<1>5. Artifact[q] \in manifests /\ Lineage(q)
  BY <1>1, <1>2 DEF Kept, Progress, ProgressOf
<1>6. Kept'
  <2>1. ProgressOf(publisher[p])'
    BY <1>2, <1>3, <1>5 DEF ProgressOf
  <2>. QED  BY <1>1, <1>2, <1>3, <1>4, <1>5, <2>1, KeptStays
<1>7. FilesAreOwned'
  <2>1. "version" \in Files /\ \A f \in Files : publisher[p].phase \in Owning(f) => f = "version"
    BY <1>2 DEF Files, Owning
  <2>. QED  BY <1>1, <1>2, <1>3, <1>4, <2>1, TakesOwn
<1>. QED  BY <1>1, <1>2, <1>3, <1>4, <1>6, <1>7, StoreAlone DEF IInv

LEMMA PromoteKeeps ==
    ASSUME IInv, NEW p \in Publishers, NEW q \in Requests, Promote(p, q) PROVE IInv'
<1>1. TypeOK /\ Kept /\ FilesAreOwned /\ Reports
  BY DEF IInv
<1>2. /\ publisher[p].phase = "versioned" /\ publisher[p].request = q /\ q \in Passed
      /\ GoesTo(p, "promoting") /\ Writes(p, {"alias"}) /\ "alias" \in Files
      /\ UNCHANGED <<blobs, manifests, versions, latest, quarantine, returned, unlinked, faults>>
  BY DEF Promote, At, Store, Catalog, Files
<1>3. /\ publisher' \in [Publishers -> Publisher]
      /\ publisher'[p].phase = "promoting" /\ publisher'[p].request = q
      /\ \A o \in Publishers : o # p => publisher'[o] = publisher[o]
  BY <1>1, <1>2, Goes
<1>4. TypeOK'
  BY <1>1, <1>2, <1>3, WritesType DEF TypeOK
<1>5. Kept'
  <2>1. ProgressOf(publisher[p])'
    BY <1>1, <1>2, <1>3 DEF Kept, Progress, ProgressOf
  <2>. QED  BY <1>1, <1>2, <1>3, <1>4, <2>1, KeptStays
<1>6. FilesAreOwned'
  <2>1. /\ publisher'[p].phase \in Owning("alias")
        /\ \A f \in Files : publisher[p].phase \notin Owning(f)
    BY <1>2, <1>3 DEF Files, Owning
  <2>. QED  BY <1>1, <1>2, <1>3, <1>4, <2>1, WritesOwn
<1>. QED  BY <1>1, <1>2, <1>3, <1>4, <1>5, <1>6, StoreAlone DEF IInv

LEMMA PlaceAliasKeeps ==
    ASSUME IInv, NEW p \in Publishers, NEW q \in Requests, PlaceAlias(p, q) PROVE IInv'
<1>1. TypeOK /\ Kept /\ FilesAreOwned /\ Reports
  BY DEF IInv
<1>2. /\ publisher[p].phase = "promoting" /\ publisher[p].request = q
      /\ latest' = q /\ Takes(p, "alias")
      /\ publisher' = [publisher EXCEPT ![p] = Idle] /\ returned' = returned \union {q}
      /\ UNCHANGED <<blobs, manifests, versions, quarantine, unlinked, faults>>
  BY DEF PlaceAlias, At, Store, Returns
<1>3. /\ publisher' \in [Publishers -> Publisher]
      /\ publisher'[p].phase = "idle"
      /\ \A o \in Publishers : o # p => publisher'[o] = publisher[o]
  BY <1>1, <1>2, TurnsIdle
<1>4. TypeOK'
  BY <1>1, <1>2, <1>3 DEF TypeOK, Takes
<1>5. q \in versions \intersect Passed
  BY <1>1, <1>2 DEF Kept, Progress, ProgressOf
<1>6. Kept'
  <2>1. ProgressOf(publisher[p])'
    BY <1>3 DEF ProgressOf
  <2>. QED  BY <1>1, <1>2, <1>3, <1>4, <1>5, <2>1, KeptStays
<1>7. FilesAreOwned'
  <2>1. "alias" \in Files /\ \A f \in Files : publisher[p].phase \in Owning(f) => f = "alias"
    BY <1>2 DEF Files, Owning
  <2>. QED  BY <1>1, <1>2, <1>3, <1>4, <2>1, TakesOwn
<1>. QED  BY <1>1, <1>2, <1>3, <1>4, <1>6, <1>7, StoreAlone DEF IInv

LEMMA QuarantineKeeps ==
    ASSUME IInv, NEW p \in Publishers, NEW q \in Requests, Quarantine(p, q) PROVE IInv'
<1>1. TypeOK /\ Kept /\ FilesAreOwned /\ Reports
  BY DEF IInv
<1>2. /\ publisher[p].phase = "versioned" /\ publisher[p].request = q /\ q \notin Passed
      /\ UNCHANGED <<blobs, manifests, versions, latest, quarantine, unlinked, faults>>
  BY DEF Quarantine, At, Store, Catalog
<1>3. \A f \in Files : publisher[p].phase \notin Owning(f)
  BY <1>2 DEF Files, Owning
<1>4. q \in versions /\ Artifact[q] \in manifests
  BY <1>1, <1>2 DEF Kept, Progress, ProgressOf
<1>5. CASE q \in quarantine
  <2>1. /\ publisher' = [publisher EXCEPT ![p] = Idle] /\ returned' = returned \union {q}
        /\ tmp' = tmp
    BY <1>5 DEF Quarantine, Returns
  <2>2. /\ publisher' \in [Publishers -> Publisher]
        /\ publisher'[p].phase = "idle"
        /\ \A o \in Publishers : o # p => publisher'[o] = publisher[o]
    BY <1>1, <2>1, TurnsIdle
  <2>3. TypeOK'
    BY <1>1, <1>2, <2>1, <2>2 DEF TypeOK
  <2>4. ProgressOf(publisher[p])'
    BY <2>2 DEF ProgressOf
  <2>5. Kept'
    BY <1>1, <1>2, <1>4, <1>5, <2>1, <2>2, <2>3, <2>4, KeptStays
  <2>6. FilesAreOwned'
    BY <1>1, <1>3, <2>1, <2>2, <2>3, OwnsNothing
  <2>. QED  BY <1>1, <1>2, <2>2, <2>3, <2>5, <2>6, StoreAlone DEF IInv
<1>6. CASE q \notin quarantine
  <2>1. /\ GoesTo(p, "quarantining") /\ Writes(p, {"record"}) /\ "record" \in Files
        /\ returned' = returned
    BY <1>6 DEF Quarantine, Files
  <2>2. /\ publisher' \in [Publishers -> Publisher]
        /\ publisher'[p].phase = "quarantining" /\ publisher'[p].request = q
        /\ \A o \in Publishers : o # p => publisher'[o] = publisher[o]
    BY <1>1, <1>2, <2>1, Goes
  <2>3. TypeOK'
    BY <1>1, <1>2, <2>1, <2>2, WritesType DEF TypeOK
  <2>4. ProgressOf(publisher[p])'
    BY <1>2, <1>4, <2>2 DEF ProgressOf
  <2>5. Kept'
    BY <1>1, <1>2, <2>1, <2>2, <2>3, <2>4, KeptStays
  <2>6. publisher'[p].phase \in Owning("record")
    BY <2>2 DEF Owning
  <2>7. FilesAreOwned'
    BY <1>1, <1>3, <2>1, <2>2, <2>3, <2>6, WritesOwn
  <2>. QED  BY <1>1, <1>2, <2>2, <2>3, <2>5, <2>7, StoreAlone DEF IInv
<1>. QED  BY <1>5, <1>6

LEMMA PlaceRecordKeeps ==
    ASSUME IInv, NEW p \in Publishers, NEW q \in Requests, PlaceRecord(p, q) PROVE IInv'
<1>1. TypeOK /\ Kept /\ FilesAreOwned /\ Reports
  BY DEF IInv
<1>2. /\ publisher[p].phase = "quarantining" /\ publisher[p].request = q
      /\ quarantine' = quarantine \union {q} /\ Takes(p, "record")
      /\ publisher' = [publisher EXCEPT ![p] = Idle] /\ returned' = returned \union {q}
      /\ UNCHANGED <<blobs, manifests, versions, latest, unlinked, faults>>
  BY DEF PlaceRecord, At, Store, Returns
<1>3. /\ publisher' \in [Publishers -> Publisher]
      /\ publisher'[p].phase = "idle"
      /\ \A o \in Publishers : o # p => publisher'[o] = publisher[o]
  BY <1>1, <1>2, TurnsIdle
<1>4. TypeOK'
  BY <1>1, <1>2, <1>3 DEF TypeOK, Takes
<1>5. q \in versions \ Passed
  BY <1>1, <1>2 DEF Kept, Progress, ProgressOf
<1>6. Kept'
  <2>1. ProgressOf(publisher[p])'
    BY <1>3 DEF ProgressOf
  <2>. QED  BY <1>1, <1>2, <1>3, <1>4, <1>5, <2>1, KeptStays
<1>7. FilesAreOwned'
  <2>1. "record" \in Files /\ \A f \in Files : publisher[p].phase \in Owning(f) => f = "record"
    BY <1>2 DEF Files, Owning
  <2>. QED  BY <1>1, <1>2, <1>3, <1>4, <2>1, TakesOwn
<1>. QED  BY <1>1, <1>2, <1>3, <1>4, <1>6, <1>7, StoreAlone DEF IInv

-----------------------------------------------------------------------------
(* Failures                                                                *)

\* An exception may remove a blob, which is then an unlinked one.
LEMMA RaisesKeeps == ASSUME IInv, NEW p \in Publishers, Raises(p) PROVE IInv'
<1>1. TypeOK /\ Kept /\ FilesAreOwned /\ Reports
  BY DEF IInv
<1>2. /\ publisher[p].phase \notin {"idle", "failing"}
      /\ GoesTo(p, "failing") /\ tmp' = {t \in tmp : t.by # p}
      /\ blobs' = blobs \ Undone(p) /\ unlinked' = unlinked \union Undone(p)
      /\ UNCHANGED <<manifests, versions, latest, quarantine, returned>>
  BY DEF Raises, Fails, Catalog
<1>a. Undone(p) \subseteq Contents
  BY <1>1, PublicationAssumption DEF Undone, TypeOK, Kept, Progress, ProgressOf
<1>3. /\ publisher' \in [Publishers -> Publisher]
      /\ publisher'[p].phase = "failing" /\ publisher'[p].request = publisher[p].request
      /\ \A o \in Publishers : o # p => publisher'[o] = publisher[o]
  BY <1>1, <1>2, Goes
<1>4. TypeOK'
  <2>1. blobs' \subseteq Contents /\ unlinked' \subseteq Contents
    BY <1>1, <1>2, <1>a DEF TypeOK
  <2>2. faults' \in 0 .. MaxFaults
    <3>1. faults \in 0 .. MaxFaults /\ MaxFaults \in Nat
      BY <1>1, PublicationAssumption DEF TypeOK
    <3>2. faults' = faults \/ (faults < MaxFaults /\ faults' = faults + 1)
      BY DEF Raises, Fails
    <3>. QED  BY <3>1, <3>2
  <2>. QED  BY <1>1, <1>2, <1>3, <2>1, <2>2 DEF TypeOK
<1>5. Kept'
  <2>1. ProgressOf(publisher[p])'
    BY <1>1, <1>2, <1>3 DEF Kept, Progress, ProgressOf
  <2>. QED  BY <1>1, <1>2, <1>3, <1>4, <2>1, KeptStays
<1>6. FilesAreOwned'
  <2>1. {} \in SUBSET Files
    OBVIOUS
  <2>2. \A t \in tmp' : t \in tmp /\ t.by # p
    BY <1>2
  <2>. QED  BY <1>1, <1>3, <1>4, <2>1, <2>2, FilesStay
<1>7. Reports'
  <2>1. BlobOf(publisher[p])'
    BY <1>3 DEF BlobOf
  <2>2. blobs \union unlinked \subseteq blobs' \union unlinked'
    BY <1>2
  <2>. QED  BY <1>1, <1>2, <1>3, <2>1, <2>2, ReportsStay
<1>. QED  BY <1>4, <1>5, <1>6, <1>7 DEF IInv

LEMMA CleanUpKeeps == ASSUME IInv, NEW p \in Publishers, CleanUp(p) PROVE IInv'
<1>1. TypeOK /\ Kept /\ FilesAreOwned /\ Reports
  BY DEF IInv
<1>2. /\ tmp' = {} /\ publisher' = [publisher EXCEPT ![p] = Idle]
      /\ UNCHANGED <<blobs, manifests, versions, latest, quarantine, returned, unlinked, faults>>
  BY DEF CleanUp, Store, Catalog
<1>3. /\ publisher' \in [Publishers -> Publisher]
      /\ publisher'[p].phase = "idle"
      /\ \A o \in Publishers : o # p => publisher'[o] = publisher[o]
  BY <1>1, <1>2, TurnsIdle
<1>4. TypeOK'
  BY <1>1, <1>2, <1>3 DEF TypeOK
<1>5. Kept'
  <2>1. ProgressOf(publisher[p])'
    BY <1>3 DEF ProgressOf
  <2>. QED  BY <1>1, <1>2, <1>3, <1>4, <2>1, KeptStays
<1>6. FilesAreOwned'
  BY <1>2 DEF FilesAreOwned
<1>. QED  BY <1>1, <1>2, <1>3, <1>4, <1>5, <1>6, StoreAlone DEF IInv

\* A crash leaves its files to nobody.
LEMMA CrashKeeps == ASSUME IInv, NEW p \in Publishers, Crash(p) PROVE IInv'
<1>1. TypeOK /\ Kept /\ FilesAreOwned /\ Reports
  BY DEF IInv
<1>2. /\ faults < MaxFaults /\ faults' = faults + 1
      /\ publisher' = [publisher EXCEPT ![p] = Idle]
      /\ tmp' = {IF t.by = p THEN [t EXCEPT !.by = None] ELSE t : t \in tmp}
      /\ UNCHANGED <<blobs, manifests, versions, latest, quarantine, returned, unlinked>>
  BY DEF Crash, Store, Catalog
<1>3. /\ publisher' \in [Publishers -> Publisher]
      /\ publisher'[p].phase = "idle"
      /\ \A o \in Publishers : o # p => publisher'[o] = publisher[o]
  BY <1>1, <1>2, TurnsIdle
<1>4. \A t \in tmp : /\ t \in [by : Publishers \union {None}, file : Files]
                     /\ [t EXCEPT !.by = None] \in [by : Publishers \union {None}, file : Files]
                     /\ [t EXCEPT !.by = None].by = None
  BY <1>1 DEF TypeOK
<1>5. /\ tmp' \subseteq [by : Publishers \union {None}, file : Files]
      /\ \A t \in tmp' : (t \in tmp /\ t.by # p) \/ t.by = None
  BY <1>2, <1>4
<1>6. TypeOK'
  <2>1. faults' \in 0 .. MaxFaults
    BY <1>1, <1>2, PublicationAssumption DEF TypeOK
  <2>. QED  BY <1>1, <1>2, <1>3, <1>5, <2>1 DEF TypeOK
<1>7. Kept'
  <2>1. ProgressOf(publisher[p])'
    BY <1>3 DEF ProgressOf
  <2>. QED  BY <1>1, <1>2, <1>3, <1>6, <2>1, KeptStays
<1>8. FilesAreOwned'
  <2>1. {} \in SUBSET Files
    OBVIOUS
  <2>2. \A t \in tmp' : t.by = p => t.file \in {}
    BY <1>5, PublicationAssumption
  <2>3. \A t \in tmp' : t \in tmp \/ t.by \in {p, None}
    BY <1>5
  <2>. QED  BY <1>1, <1>3, <1>6, <2>1, <2>2, <2>3, FilesStay
<1>. QED  BY <1>1, <1>2, <1>3, <1>6, <1>7, <1>8, StoreAlone DEF IInv

-----------------------------------------------------------------------------
(* Theorems                                                                *)

LEMMA Inductive == IInv /\ [Next]_vars => IInv'
<1>. SUFFICES ASSUME IInv, [Next]_vars PROVE IInv'
  OBVIOUS
<1>1. ASSUME NEW p \in Publishers, NEW q \in Requests, Begin(p, q) \/ Publishes(p, q)
      PROVE  IInv'
  BY <1>1, BeginKeeps, CheckBlobKeeps, WriteReportKeeps, PlaceBlobKeeps, PlaceManifestKeeps,
     CheckVersionKeeps, PlaceVersionKeeps, PromoteKeeps, PlaceAliasKeeps, QuarantineKeeps,
     PlaceRecordKeeps
  DEF Publishes, StoresReport
<1>2. ASSUME NEW p \in Publishers, Raises(p) \/ CleanUp(p) \/ Crash(p) PROVE IInv'
  BY <1>2, RaisesKeeps, CleanUpKeeps, CrashKeeps
<1>3. CASE UNCHANGED vars
  BY <1>3 DEF vars, IInv, TypeOK, Kept, LatestPassedTheGate, VersionsAreListed, ReturnedIsStored,
              Progress, ProgressOf, Lineage, FilesAreOwned, Reports, ManifestsKeepTheirBlobs,
              BlobsAreThere, BlobOf
<1>. QED  BY <1>1, <1>2, <1>3 DEF Next

\* The conjunction that is inductive for publish() and its failures (publication.py).
THEOREM Invariance == Spec => []IInv
  BY Initially, Inductive, PTL DEF Spec

\* Directories and publishers hold what the code puts there.
THEOREM TypeCorrect == Spec => []TypeOK
  BY Invariance, PTL DEF IInv

\* publication.py: latest is a version whose report passed, and the versions
\* in quarantine are the others.
THEOREM GateHolds == Spec => []LatestPassedTheGate
  BY Invariance, PTL DEF IInv, Kept

\* publish_version(): a version has its predecessor, the manifest of its report
\* and the report's blob, unless a failing put_bytes() of equal content took the
\* blob back.
THEOREM LineageIsComplete == Spec => []VersionsAreBacked
<1>1. IInv => VersionsAreBacked
  BY DEF IInv, Kept, Reports, VersionsAreListed, Lineage, ManifestsKeepTheirBlobs, VersionsAreBacked
<1>. QED  BY <1>1, Invariance, PTL

\* publish(): a request returns only with its version, and its quarantine
\* record where it needs one, in place.
THEOREM ReturnsAreTrue == Spec => []ReturnedIsStored
  BY Invariance, PTL DEF IInv, Kept

\* put_bytes(): a manifest is without its blob only after a failing call took
\* back what it had placed; crashes never bring it about.
THEOREM OrderOfRenamesSuffices == Spec => []ManifestsKeepTheirBlobs
  BY Invariance, PTL DEF IInv, Reports

\* publish() and put_bytes(): only crashes leave temporary files behind.
THEOREM TemporaryFilesGo == Spec => []NoLeftovers
<1>1. IInv => NoLeftovers
  <2>. SUFFICES ASSUME IInv, NEW t \in tmp, t.by # None
                PROVE  publisher[t.by].phase \notin {"idle", "stored", "versioned", "failing"}
    BY DEF NoLeftovers
  <2>1. TypeOK /\ FilesAreOwned /\ t.by \in Publishers
    BY DEF IInv, TypeOK
  <2>. QED  BY <2>1, OwnFiles DEF Files, Owning
<1>. QED  BY <1>1, Invariance, PTL

\* publish(): a passed request returns in the step that makes it latest.
THEOREM ReturnMakesLatest == Spec => LatestOnReturn
<1>. DEFINE A == \A q \in (returned' \ returned) \intersect Passed : latest' = q
<1>1. IInv /\ [Next]_vars => [A]_vars
  <2>. SUFFICES ASSUME IInv, Next PROVE A
    BY DEF vars
  <2>1. ASSUME NEW p \in Publishers, NEW q \in Requests, Begin(p, q) \/ Publishes(p, q) PROVE A
    <3>1. CASE PlaceRecord(p, q)
      <4>1. q \notin Passed
        BY <3>1 DEF IInv, Kept, Progress, ProgressOf, PlaceRecord, At
      <4>. QED  BY <3>1, <4>1 DEF PlaceRecord, Returns
    <3>2. CASE PlaceAlias(p, q) \/ Quarantine(p, q)
      BY <3>2 DEF PlaceAlias, Quarantine, Returns
    <3>3. CASE \/ Begin(p, q) \/ StoresReport(p, q) \/ CheckVersion(p, q)
               \/ PlaceVersion(p, q) \/ Promote(p, q)
      BY <3>3 DEF StoresReport, Begin, CheckBlob, WriteReport, PlaceBlob, PlaceManifest,
                  CheckVersion, PlaceVersion, Promote
    <3>. QED  BY <2>1, <3>1, <3>2, <3>3 DEF Publishes
  <2>2. ASSUME NEW p \in Publishers, Raises(p) \/ CleanUp(p) \/ Crash(p) PROVE A
    BY <2>2 DEF Raises, CleanUp, Crash
  <2>. QED  BY <2>1, <2>2 DEF Next
<1>. QED  BY <1>1, Invariance, PTL DEF Spec, LatestOnReturn

-----------------------------------------------------------------------------
(* The repository of factor definitions                                    *)

\* A client carries what it publishes or retires, from the first step on.
ClientsCarry ==
    \A c \in Clients :
        /\ client[c].at # "idle" => client[c].spec \in Specs
        /\ client[c].at \notin {"idle", "draft_saved"} => client[c].stamp \in Stamps

\* Once the version is written it is there for whoever goes on from it.
ClientsAreBacked ==
    \A c \in Clients :
        client[c].at \in {"version_written", "index_written", "retiring", "retired"}
            => recorded[client[c].spec] # Nothing

\* What a client carries is of its type.
Carrying == RepositoryTypeOK /\ ClientsCarry

\* The inductive invariant.  What a retirement, an index entry or an event is
\* about was found, or written, by its client before: what a client knows is
\* in the invariant, and stays true because no version is ever taken away.
RepositoryInv == RepositoryTypeOK /\ ClientsCarry /\ ClientsAreBacked /\ RecordsAreBacked

USE RepositoryConstants

\* At first there is nothing to back.
LEMMA RepositoryInitHolds == RepositoryInit => RepositoryInv /\ AuditIsComplete
BY DEF RepositoryInit, RepositoryInv, RepositoryTypeOK, ClientsCarry, ClientsAreBacked, AtRest,
       Places, RecordsAreBacked, AuditIsComplete

\* A client goes on with what it carries, or with what it takes up.
LEMMA ClientGoes ==
    ASSUME Carrying, NEW c \in Clients, NEW place \in Places, NEW spec \in Specs,
           NEW stamp \in Stamps \cup {Nothing}, NEW seen \in Specs \cup {Nothing},
           place # "draft_saved" => stamp \in Stamps, Go(c, place, spec, stamp, seen)
    PROVE  /\ client' \in [Clients -> [at : Places, spec : Specs \cup {Nothing},
                                       stamp : Stamps \cup {Nothing},
                                       seen : Specs \cup {Nothing}]]
           /\ ClientsCarry'
BY DEF Carrying, RepositoryTypeOK, ClientsCarry, Go

\* A client that is done carries nothing.
LEMMA ClientReturns ==
    ASSUME Carrying, NEW c \in Clients, Return(c)
    PROVE  /\ client' \in [Clients -> [at : Places, spec : Specs \cup {Nothing},
                                       stamp : Stamps \cup {Nothing},
                                       seen : Specs \cup {Nothing}]]
           /\ ClientsCarry'
BY DEF Carrying, RepositoryTypeOK, ClientsCarry, Return, AtRest, Places

\* Every step leaves the types as they are, and a client with what it carries.
LEMMA TypeStep ==
    ASSUME Carrying, [RepositoryNext]_repositoryVars PROVE Carrying'
<1> DEFINE Rest == /\ drafts \in [Semantics -> Specs \cup {Nothing}]
                   /\ recorded \in [Specs -> Stamps \cup {Nothing}]
                   /\ index \in [Semantics -> Specs \cup {Nothing}]
                   /\ retired \in [Specs -> Stamps \cup {Nothing}]
                   /\ audit \subseteq [action : {"draft_saved", "published", "retired"},
                                       spec : Specs]
                   /\ lost \subseteq [action : {"published", "retired"}, spec : Specs]
                   /\ crashes \in 0..MaxCrashes
           Client == /\ client \in [Clients -> [at : Places, spec : Specs \cup {Nothing},
                                                stamp : Stamps \cup {Nothing},
                                                seen : Specs \cup {Nothing}]]
                     /\ ClientsCarry
<1>a. Carrying = (Rest /\ Client)
  BY DEF Carrying, RepositoryTypeOK
<1>b. Carrying' = (Rest' /\ Client')
  BY DEF Carrying, RepositoryTypeOK
<1>c. ASSUME NEW c \in Clients, ~Stands(c, "idle")
      PROVE  /\ client[c].spec \in Specs /\ client[c].seen \in Specs \cup {Nothing}
             /\ client[c].stamp \in Stamps \cup {Nothing}
             /\ ~Stands(c, "draft_saved") => client[c].stamp \in Stamps
  BY <1>c DEF Carrying, RepositoryTypeOK, ClientsCarry, Stands
<1>d. ASSUME NEW c \in Clients, ~Stands(c, "idle"), ~Stands(c, "draft_saved"),
             NEW place \in Places, Move(c, place)
      PROVE  Client'
  BY <1>c, <1>d, ClientGoes DEF Move
<1>e. ASSUME NEW c \in Clients, ~Stands(c, "idle"), ~Stands(c, "draft_saved"), RecordIsThere(c)
      PROVE  Client'
  <2>1. "version_written" \in Places
    BY DEF Places
  <2> QED BY <1>d, <1>e, <2>1, ClientReturns DEF RecordIsThere
<1>f. \A c \in Clients : Return(c) => Client'
  BY ClientReturns
<1>g. ASSUME NEW action \in {"draft_saved", "published", "retired"}, NEW spec \in Specs,
             Log(action, spec), UNCHANGED <<drafts, recorded, index, retired, lost, crashes>>
      PROVE  Rest'
  <2>1. [action |-> action, spec |-> spec]
            \in [action : {"draft_saved", "published", "retired"}, spec : Specs]
    OBVIOUS
  <2>2. audit' \subseteq [action : {"draft_saved", "published", "retired"}, spec : Specs]
    BY <1>a, <1>g, <2>1 DEF Log
  <2> QED BY <1>a, <1>g, <2>2
<1>1. ASSUME NEW c \in Clients, NEW v \in Specs, SaveDraft(c, v) PROVE Carrying'
  <2>1. Client'
    BY <1>1, ClientGoes DEF SaveDraft, Places
  <2>2. Rest'
    BY <1>1, <1>a DEF SaveDraft
  <2> QED BY <1>b, <2>1, <2>2
<1>2. ASSUME NEW c \in Clients, LogDraft(c) PROVE Carrying'
  <2>1. Client' /\ client[c].spec \in Specs
    BY <1>2, <1>c, <1>f DEF LogDraft, Stands
  <2>2. Rest'
    BY <1>2, <1>g, <2>1 DEF LogDraft
  <2> QED BY <1>b, <2>1, <2>2
<1>3. ASSUME NEW c \in Clients, NEW s \in Semantics, NEW t \in Stamps, ReadDraft(c, s, t)
      PROVE Carrying'
  <2>1. drafts[s] \in Specs
    BY <1>3, <1>a DEF ReadDraft
  <2>2. Client'
    BY <1>3, <2>1, ClientGoes DEF ReadDraft, Places
  <2>3. Rest'
    BY <1>3, <1>a DEF ReadDraft
  <2> QED BY <1>b, <2>2, <2>3
<1>4. ASSUME NEW c \in Clients, ReadIndex(c) PROVE Carrying'
  <2>1. client[c].spec \in Specs /\ client[c].stamp \in Stamps
    BY <1>4, <1>c DEF ReadIndex, Stands
  <2>2. index[SemanticOf[client[c].spec]] \in Specs \cup {Nothing}
    BY <1>a, <2>1
  <2>3. \E place \in Places : Go(c, place, client[c].spec, client[c].stamp,
                                 index[SemanticOf[client[c].spec]])
    BY <1>4 DEF ReadIndex, Places
  <2>4. Client'
    BY <2>1, <2>2, <2>3, ClientGoes
  <2>5. Rest'
    BY <1>4, <1>a DEF ReadIndex
  <2> QED BY <1>b, <2>4, <2>5
<1>5. ASSUME NEW c \in Clients, FindVersion(c) PROVE Carrying'
  <2>1. "version_absent" \in Places /\ "refused" \in Places
    BY DEF Places
  <2>2. Client'
    BY <1>5, <1>d, <1>e, <2>1 DEF FindVersion, Stands
  <2>3. Rest'
    BY <1>5, <1>a DEF FindVersion
  <2> QED BY <1>b, <2>2, <2>3
<1>6. ASSUME NEW c \in Clients, WriteVersion(c) PROVE Carrying'
  <2>1. Client' /\ client[c].stamp \in Stamps
    BY <1>6, <1>c, <1>e DEF WriteVersion, Stands
  <2>2. Rest'
    BY <1>6, <1>a, <2>1 DEF WriteVersion
  <2> QED BY <1>b, <2>1, <2>2
<1>7. ASSUME NEW c \in Clients, WriteIndex(c) PROVE Carrying'
  <2>1. "index_written" \in Places
    BY DEF Places
  <2>2. Client' /\ client[c].spec \in Specs
    BY <1>7, <1>c, <1>d, <2>1 DEF WriteIndex, Stands
  <2>3. Rest'
    BY <1>7, <1>a, <2>2 DEF WriteIndex
  <2> QED BY <1>b, <2>2, <2>3
<1>8. ASSUME NEW c \in Clients, LogPublished(c) PROVE Carrying'
  <2>1. Client' /\ client[c].spec \in Specs
    BY <1>8, <1>c, <1>f DEF LogPublished, Stands
  <2>2. Rest'
    BY <1>8, <1>g, <2>1 DEF LogPublished
  <2> QED BY <1>b, <2>1, <2>2
<1>9. ASSUME NEW c \in Clients, NEW v \in Specs, NEW t \in Stamps, Retire(c, v, t)
      PROVE Carrying'
  <2>1. \E place \in {"retiring", "refused"} : Go(c, place, v, t, Nothing)
    BY <1>9 DEF Retire
  <2>2. Client'
    BY <2>1, ClientGoes DEF Places
  <2>3. Rest'
    BY <1>9, <1>a DEF Retire
  <2> QED BY <1>b, <2>2, <2>3
<1>10. ASSUME NEW c \in Clients, WriteRetirement(c) PROVE Carrying'
  <2>1. "retired" \in Places
    BY DEF Places
  <2>2. Client' /\ client[c].stamp \in Stamps
    BY <1>10, <1>c, <1>d, <2>1 DEF WriteRetirement, Stands
  <2>3. Rest'
    BY <1>10, <1>a, <2>2 DEF WriteRetirement
  <2> QED BY <1>b, <2>2, <2>3
<1>11. ASSUME NEW c \in Clients, LogRetired(c) PROVE Carrying'
  <2>1. Client' /\ client[c].spec \in Specs
    BY <1>11, <1>c, <1>f DEF LogRetired, Stands
  <2>2. Rest'
    BY <1>11, <1>g, <2>1 DEF LogRetired
  <2> QED BY <1>b, <2>1, <2>2
<1>12. ASSUME NEW c \in Clients, Raise(c) PROVE Carrying'
  <2>1. Client' /\ Rest'
    BY <1>12, <1>a, <1>f DEF Raise
  <2> QED BY <1>b, <2>1
<1>13. ASSUME NEW c \in Clients, Die(c) PROVE Carrying'
  <2>1. Client'
    BY <1>13, <1>f DEF Die
  <2>2. crashes' \in 0..MaxCrashes
    <3>1. crashes \in 0..MaxCrashes /\ MaxCrashes \in Nat
      BY <1>a
    <3>2. crashes < MaxCrashes /\ crashes' = crashes + 1
      BY <1>13 DEF Die
    <3> HIDE DEF Rest, Client
    <3> QED BY <3>1, <3>2
  <2>3. Unlogged(c) \subseteq [action : {"published", "retired"}, spec : Specs]
    BY <1>13, <1>c DEF Die, Unlogged
  <2>4. Rest'
    BY <1>13, <1>a, <2>2, <2>3 DEF Die
  <2> QED BY <1>b, <2>1, <2>4
<1>14. CASE UNCHANGED repositoryVars
  BY <1>14 DEF repositoryVars, Carrying, RepositoryTypeOK, ClientsCarry
<1> QED
  BY <1>1, <1>2, <1>3, <1>4, <1>5, <1>6, <1>7, <1>8, <1>9, <1>10, <1>11, <1>12, <1>13, <1>14
  DEF RepositoryNext

\* Nothing takes a version away: a step adds none or that of its client.
LEMMA VersionsStay ==
    ASSUME RepositoryTypeOK, ClientsCarry, [RepositoryNext]_repositoryVars
    PROVE  \A v \in Specs : recorded[v] # Nothing => recorded'[v] # Nothing
<1>1. CASE UNCHANGED recorded
  BY <1>1
<1>2. ASSUME NEW c \in Clients, WriteVersion(c)
      PROVE  \A v \in Specs : recorded[v] # Nothing => recorded'[v] # Nothing
  BY <1>2 DEF WriteVersion, RepositoryTypeOK, ClientsCarry, Stands
<1> QED
  BY <1>1, <1>2 DEF RepositoryNext, repositoryVars, SaveDraft, LogDraft, ReadDraft, ReadIndex,
     FindVersion, WriteIndex, LogPublished, Retire, WriteRetirement, LogRetired, Raise, Die

\* A client comes to a place where the version is needed by finding it, by
\* writing it, or from another such place.
LEMMA BackedStep ==
    ASSUME RepositoryTypeOK, ClientsCarry, ClientsAreBacked, [RepositoryNext]_repositoryVars
    PROVE  ClientsAreBacked'
<1>0. RepositoryTypeOK' /\ \A v \in Specs : recorded[v] # Nothing => recorded'[v] # Nothing
  BY TypeStep, VersionsStay DEF Carrying
<1> USE DEF Stands, Go, Move, Return, AtRest, RecordIsThere, RepositoryTypeOK, ClientsCarry,
            ClientsAreBacked
<1>1. ASSUME NEW c \in Clients, NEW v \in Specs, SaveDraft(c, v) PROVE ClientsAreBacked'
  BY <1>0, <1>1 DEF SaveDraft
<1>2. ASSUME NEW c \in Clients, LogDraft(c) PROVE ClientsAreBacked'
  BY <1>0, <1>2 DEF LogDraft
<1>3. ASSUME NEW c \in Clients, NEW s \in Semantics, NEW t \in Stamps, ReadDraft(c, s, t)
      PROVE ClientsAreBacked'
  BY <1>0, <1>3 DEF ReadDraft
<1>4. ASSUME NEW c \in Clients, ReadIndex(c) PROVE ClientsAreBacked'
  BY <1>0, <1>4 DEF ReadIndex
<1>5. ASSUME NEW c \in Clients, FindVersion(c) PROVE ClientsAreBacked'
  BY <1>0, <1>5 DEF FindVersion
<1>6. ASSUME NEW c \in Clients, WriteVersion(c) PROVE ClientsAreBacked'
  BY <1>0, <1>6 DEF WriteVersion
<1>7. ASSUME NEW c \in Clients, WriteIndex(c) PROVE ClientsAreBacked'
  BY <1>0, <1>7 DEF WriteIndex
<1>8. ASSUME NEW c \in Clients, LogPublished(c) PROVE ClientsAreBacked'
  BY <1>0, <1>8 DEF LogPublished
<1>9. ASSUME NEW c \in Clients, NEW v \in Specs, NEW t \in Stamps, Retire(c, v, t)
      PROVE ClientsAreBacked'
  <2>1. \E place \in {"retiring", "refused"} : Go(c, place, v, t, Nothing)
    BY <1>9 DEF Retire
  <2> QED BY <1>0, <1>9, <2>1 DEF Retire
<1>10. ASSUME NEW c \in Clients, WriteRetirement(c) PROVE ClientsAreBacked'
  BY <1>0, <1>10 DEF WriteRetirement
<1>11. ASSUME NEW c \in Clients, LogRetired(c) PROVE ClientsAreBacked'
  BY <1>0, <1>11 DEF LogRetired
<1>12. ASSUME NEW c \in Clients, Raise(c) PROVE ClientsAreBacked'
  BY <1>0, <1>12 DEF Raise
<1>13. ASSUME NEW c \in Clients, Die(c) PROVE ClientsAreBacked'
  BY <1>0, <1>13 DEF Die
<1>14. CASE UNCHANGED repositoryVars
  BY <1>14 DEF repositoryVars
<1> QED
  BY <1>1, <1>2, <1>3, <1>4, <1>5, <1>6, <1>7, <1>8, <1>9, <1>10, <1>11, <1>12, <1>13, <1>14
  DEF RepositoryNext

\* Index, retirements and log grow by what their client is backed by.
LEMMA RecordsStep ==
    ASSUME RepositoryTypeOK, ClientsCarry, ClientsAreBacked, RecordsAreBacked,
           [RepositoryNext]_repositoryVars
    PROVE  RecordsAreBacked'
<1>0. RepositoryTypeOK' /\ \A v \in Specs : recorded[v] # Nothing => recorded'[v] # Nothing
  BY TypeStep, VersionsStay DEF Carrying
<1> USE DEF Stands, Log, RepositoryTypeOK, ClientsCarry, ClientsAreBacked, RecordsAreBacked
<1>1. CASE UNCHANGED <<index, retired, audit>>
  BY <1>0, <1>1
<1>2. ASSUME NEW c \in Clients, LogDraft(c) PROVE RecordsAreBacked'
  BY <1>0, <1>2 DEF LogDraft
<1>3. ASSUME NEW c \in Clients, WriteIndex(c) PROVE RecordsAreBacked'
  BY <1>0, <1>3 DEF WriteIndex
<1>4. ASSUME NEW c \in Clients, LogPublished(c) PROVE RecordsAreBacked'
  BY <1>0, <1>4 DEF LogPublished
<1>5. ASSUME NEW c \in Clients, WriteRetirement(c) PROVE RecordsAreBacked'
  BY <1>0, <1>5 DEF WriteRetirement
<1>6. ASSUME NEW c \in Clients, LogRetired(c) PROVE RecordsAreBacked'
  BY <1>0, <1>6 DEF LogRetired
<1> QED
  BY <1>1, <1>2, <1>3, <1>4, <1>5, <1>6 DEF RepositoryNext, repositoryVars, SaveDraft,
     ReadDraft, ReadIndex, FindVersion, WriteVersion, Retire, Raise, Die

\* No step of another client, and no step but its own entry in the log or its
\* crash, takes a client from where it will log what it has written.
LEMMA LoggersStay ==
    ASSUME RepositoryTypeOK, [RepositoryNext]_repositoryVars,
           NEW c \in Clients, Stands(c, "index_written") \/ Stands(c, "retired")
    PROVE  \/ client'[c] = client[c]
           \/ Stands(c, "index_written") /\ LogPublished(c)
           \/ Stands(c, "retired") /\ LogRetired(c)
           \/ Die(c)
<1> USE DEF Stands, Go, Move, Return, RecordIsThere, RepositoryTypeOK
<1>1. ASSUME NEW o \in Clients, o # c, client' = [client EXCEPT ![o] = client'[o]]
      PROVE client'[c] = client[c]
  BY <1>1
<1>2. ASSUME NEW o \in Clients,
             \/ \E v \in Specs : SaveDraft(o, v)
             \/ LogDraft(o)
             \/ \E s \in Semantics, t \in Stamps : ReadDraft(o, s, t)
             \/ ReadIndex(o) \/ FindVersion(o) \/ WriteVersion(o) \/ WriteIndex(o)
             \/ \E v \in Specs, t \in Stamps : Retire(o, v, t)
             \/ WriteRetirement(o) \/ Raise(o)
      PROVE client'[c] = client[c]
  BY <1>2 DEF SaveDraft, LogDraft, ReadDraft, ReadIndex, FindVersion, WriteVersion, WriteIndex,
              Retire, WriteRetirement, Raise
<1>3. ASSUME NEW o \in Clients, Die(o), o # c PROVE client'[c] = client[c]
  BY <1>3 DEF Die
<1>4. ASSUME NEW o \in Clients, LogPublished(o) \/ LogRetired(o), o # c
      PROVE client'[c] = client[c]
  BY <1>4 DEF LogPublished, LogRetired
<1>5. CASE UNCHANGED repositoryVars
  BY <1>5 DEF repositoryVars
<1>6. LogPublished(c) => Stands(c, "index_written")
  BY DEF LogPublished
<1>7. LogRetired(c) => Stands(c, "retired")
  BY DEF LogRetired
<1> QED BY <1>2, <1>3, <1>4, <1>5, <1>6, <1>7 DEF RepositoryNext

\* Neither the log nor what was lost on the way to it shrinks.
LEMMA LogStays ==
    ASSUME [RepositoryNext]_repositoryVars PROVE audit \cup lost \subseteq audit' \cup lost'
BY DEF RepositoryNext, repositoryVars, SaveDraft, LogDraft, ReadDraft, ReadIndex, FindVersion,
   WriteVersion, WriteIndex, LogPublished, Retire, WriteRetirement, LogRetired, Raise, Die, Log

\* What a client has not logged yet stays to be logged, is logged or is lost.
LEMMA UnloggedIsAccounted ==
    ASSUME RepositoryTypeOK, [RepositoryNext]_repositoryVars,
           NEW c \in Clients, NEW event \in Unlogged(c)
    PROVE  event \in audit' \cup lost' \/ event \in Unlogged(c)'
<1>1. Stands(c, "index_written") \/ Stands(c, "retired")
  BY DEF Unlogged
<1>2. CASE client'[c] = client[c]
  BY <1>2 DEF Unlogged, Stands
<1>3. CASE Stands(c, "index_written") /\ LogPublished(c)
  BY <1>3 DEF Unlogged, LogPublished, Log
<1>4. CASE Stands(c, "retired") /\ LogRetired(c)
  BY <1>4 DEF Unlogged, LogRetired, Log, Stands
<1>5. CASE Die(c)
  BY <1>5 DEF Die
<1> QED BY <1>1, <1>2, <1>3, <1>4, <1>5, LoggersStay

\* What is new in the index or among the retirements is what a client wrote,
\* who is now about to log it.
LEMMA WritersLog ==
    ASSUME RepositoryTypeOK, ClientsCarry, [RepositoryNext]_repositoryVars
    PROVE  /\ \A s \in Semantics : index'[s] # index[s] =>
                \E c \in Clients : client'[c].at = "index_written" /\ client'[c].spec = index'[s]
           /\ \A v \in Specs : retired'[v] # retired[v] =>
                \E c \in Clients : client'[c].at = "retired" /\ client'[c].spec = v
<1> USE DEF Stands, Go, Move, RepositoryTypeOK, ClientsCarry
<1>1. CASE UNCHANGED <<index, retired>>
  BY <1>1
<1>2. ASSUME NEW c \in Clients, WriteIndex(c), NEW s \in Semantics, index'[s] # index[s]
      PROVE client'[c].at = "index_written" /\ client'[c].spec = index'[s]
  BY <1>2 DEF WriteIndex
<1>3. ASSUME NEW c \in Clients, WriteRetirement(c), NEW v \in Specs, retired'[v] # retired[v]
      PROVE client'[c].at = "retired" /\ client'[c].spec = v
  BY <1>3 DEF WriteRetirement
<1>4. \A c \in Clients : WriteIndex(c) => UNCHANGED retired
  BY DEF WriteIndex
<1>5. \A c \in Clients : WriteRetirement(c) => UNCHANGED index
  BY DEF WriteRetirement
<1> QED
  BY <1>1, <1>2, <1>3, <1>4, <1>5 DEF RepositoryNext, repositoryVars, SaveDraft, LogDraft,
     ReadDraft, ReadIndex, FindVersion, WriteVersion, LogPublished, Retire, LogRetired, Raise,
     Die

\* What was in the log or lost stays there; who was about to log still is, just
\* did or died; and what is new is about to be logged.
LEMMA AuditStep ==
    ASSUME RepositoryTypeOK, ClientsCarry, AuditIsComplete, [RepositoryNext]_repositoryVars
    PROVE  AuditIsComplete'
<1> DEFINE Accounted(event) ==
        event \in audit \cup lost \/ \E c \in Clients : event \in Unlogged(c)
<1>1. ASSUME NEW event, Accounted(event) PROVE Accounted(event)'
  BY <1>1, LogStays, UnloggedIsAccounted
<1>2. ASSUME NEW s \in Semantics, index'[s] # Nothing
      PROVE  Accounted([action |-> "published", spec |-> index[s]])'
  <2>1. CASE index'[s] = index[s]
    <3>1. Accounted([action |-> "published", spec |-> index[s]])
      BY <1>2, <2>1 DEF AuditIsComplete
    <3> QED BY <1>1, <2>1, <3>1
  <2>2. CASE index'[s] # index[s]
    BY <2>2, WritersLog DEF Unlogged, Stands
  <2> QED BY <2>1, <2>2
<1>3. ASSUME NEW v \in Specs, retired'[v] # Nothing
      PROVE  Accounted([action |-> "retired", spec |-> v])'
  <2>1. CASE retired'[v] = retired[v]
    <3>1. Accounted([action |-> "retired", spec |-> v])
      BY <1>3, <2>1 DEF AuditIsComplete
    <3> QED BY <1>1, <3>1
  <2>2. CASE retired'[v] # retired[v]
    BY <2>2, WritersLog DEF Unlogged, Stands
  <2> QED BY <2>1, <2>2
<1> QED BY <1>2, <1>3 DEF AuditIsComplete

\* A client about to write the index had found none.
WritersFoundNone ==
    \A c \in Clients : client[c].at = "version_written" => client[c].seen = Nothing

LEMMA WritersStep ==
    ASSUME RepositoryTypeOK, WritersFoundNone, [RepositoryNext]_repositoryVars
    PROVE  WritersFoundNone'
<1> USE DEF Stands, Go, Move, Return, AtRest, RecordIsThere, RepositoryTypeOK, WritersFoundNone
<1>1. ASSUME NEW c \in Clients,
             \/ \E v \in Specs : SaveDraft(c, v)
             \/ LogDraft(c)
             \/ \E s \in Semantics, t \in Stamps : ReadDraft(c, s, t)
             \/ ReadIndex(c)
      PROVE  WritersFoundNone'
  BY <1>1 DEF SaveDraft, LogDraft, ReadDraft, ReadIndex
<1>2. ASSUME NEW c \in Clients, FindVersion(c) \/ WriteVersion(c) PROVE WritersFoundNone'
  BY <1>2 DEF FindVersion, WriteVersion
<1>3. ASSUME NEW c \in Clients,
             \/ WriteIndex(c) \/ LogPublished(c) \/ WriteRetirement(c) \/ LogRetired(c)
             \/ Raise(c) \/ Die(c)
      PROVE  WritersFoundNone'
  BY <1>3 DEF WriteIndex, LogPublished, WriteRetirement, LogRetired, Raise, Die
<1>4. ASSUME NEW c \in Clients, NEW v \in Specs, NEW t \in Stamps, Retire(c, v, t)
      PROVE  WritersFoundNone'
  BY <1>4 DEF Retire
<1>5. CASE UNCHANGED repositoryVars
  BY <1>5 DEF repositoryVars
<1> QED BY <1>1, <1>2, <1>3, <1>4, <1>5 DEF RepositoryNext

\* A publisher of an entry that is settled finds it, and one that has found an
\* entry writes none.
LEMMA SettledStep ==
    ASSUME RepositoryTypeOK, ClientsCarry, WritersFoundNone, [RepositoryNext]_repositoryVars,
           NEW s \in Semantics, Settled(s)
    PROVE  index'[s] = index[s] /\ OpenPublishers(s)' = {}
<1>0. index[s] # Nothing /\ OpenPublishers(s) = {}
  BY DEF Settled
<1>1. \A c \in Clients :
         /\ client[c].at \in {"index_read", "version_absent", "version_written"}
         /\ client[c].seen = Nothing
         => SemanticOf[client[c].spec] # s
  BY <1>0 DEF OpenPublishers
<1>2. index'[s] = index[s]
  <2>1. ASSUME NEW c \in Clients, WriteIndex(c) PROVE index'[s] = index[s]
    <3>1. client[c].at = "version_written" /\ client[c].seen = Nothing
      BY <2>1 DEF WriteIndex, Stands, WritersFoundNone
    <3>2. SemanticOf[client[c].spec] # s
      BY <1>1, <3>1
    <3> QED BY <2>1, <3>2 DEF WriteIndex, RepositoryTypeOK
  <2> QED
    BY <2>1 DEF RepositoryNext, repositoryVars, SaveDraft, LogDraft, ReadDraft, ReadIndex,
       FindVersion, WriteVersion, LogPublished, Retire, WriteRetirement, LogRetired, Raise, Die
<1> DEFINE Open(c) ==
        /\ client[c].at \in {"index_read", "version_absent", "version_written"}
        /\ client[c].seen = Nothing
        /\ SemanticOf[client[c].spec] = s
<1>3. ASSUME NEW c \in Clients, Open(c)' PROVE FALSE
  <2> USE DEF Stands, Go, Move, Return, AtRest, RecordIsThere, RepositoryTypeOK
  <2>1. ASSUME NEW o \in Clients,
               \/ \E v \in Specs : SaveDraft(o, v)
               \/ LogDraft(o)
               \/ \E u \in Semantics, t \in Stamps : ReadDraft(o, u, t)
        PROVE  FALSE
    BY <1>1, <1>3, <2>1 DEF SaveDraft, LogDraft, ReadDraft
  <2>2. ASSUME NEW o \in Clients, ReadIndex(o) PROVE FALSE
    <3>1. CASE o = c
      BY <1>0, <1>3, <2>2, <3>1 DEF ReadIndex
    <3>2. CASE o # c
      BY <1>1, <1>3, <2>2, <3>2 DEF ReadIndex
    <3> QED BY <3>1, <3>2
  <2>3. ASSUME NEW o \in Clients, FindVersion(o) \/ WriteVersion(o) PROVE FALSE
    BY <1>1, <1>3, <2>3 DEF FindVersion, WriteVersion
  <2>4. ASSUME NEW o \in Clients,
               \/ WriteIndex(o) \/ LogPublished(o) \/ WriteRetirement(o) \/ LogRetired(o)
               \/ Raise(o) \/ Die(o)
        PROVE  FALSE
    BY <1>1, <1>3, <2>4 DEF WriteIndex, LogPublished, WriteRetirement, LogRetired, Raise, Die
  <2>5. ASSUME NEW o \in Clients, NEW v \in Specs, NEW t \in Stamps, Retire(o, v, t)
        PROVE  FALSE
    BY <1>1, <1>3, <2>5 DEF Retire
  <2>6. CASE UNCHANGED repositoryVars
    BY <1>1, <1>3, <2>6 DEF repositoryVars
  <2> QED BY <2>1, <2>2, <2>3, <2>4, <2>5, <2>6 DEF RepositoryNext
<1>4. OpenPublishers(s)' = {}
  BY <1>3 DEF OpenPublishers
<1> QED BY <1>2, <1>4

\* The invariant holds in every reachable state.
LEMMA RepositoryInvHolds == RepositorySpec => []RepositoryInv
<1>1. RepositoryInit => RepositoryInv
  BY RepositoryInitHolds
<1>2. RepositoryInv /\ [RepositoryNext]_repositoryVars => RepositoryInv'
  BY TypeStep, BackedStep, RecordsStep DEF RepositoryInv, Carrying
<1> QED BY <1>1, <1>2, PTL DEF RepositorySpec

\* Whatever overlaps and crashes between the files of a call, no index entry,
\* retirement or logged event is about a version that is not there
\* (LocalFactorDefinitionRepository, quant/factors/definitions.py).
THEOREM RecordsAlwaysBacked == RepositorySpec => []RecordsAreBacked
<1>1. RepositoryInv => RecordsAreBacked
  BY DEF RepositoryInv
<1> QED BY <1>1, RepositoryInvHolds, PTL

\* What is published or retired is logged, about to be logged by the client that
\* wrote it, or that client died there (publish_draft, retire_version).
THEOREM AuditAlwaysComplete == RepositorySpec => []AuditIsComplete
<1>1. RepositoryInit => AuditIsComplete
  BY RepositoryInitHolds
<1>2. RepositoryInv /\ AuditIsComplete /\ [RepositoryNext]_repositoryVars => AuditIsComplete'
  BY AuditStep DEF RepositoryInv
<1> QED BY <1>1, <1>2, RepositoryInvHolds, PTL DEF RepositorySpec

\* An index entry that stands while no publisher is under way that had found
\* none stands for good: only publishers that overlap the first publication can
\* move it (publish_draft, quant/factors/definitions.py).
THEOREM IndexSettles == RepositorySpec => SettledIndexStands
<1> DEFINE A == \A s \in Semantics :
                   Settled(s) => index'[s] = index[s] /\ OpenPublishers(s)' = {}
<1>1. RepositoryInit => WritersFoundNone
  BY DEF RepositoryInit, AtRest, WritersFoundNone
<1>2. RepositoryInv /\ WritersFoundNone /\ [RepositoryNext]_repositoryVars => WritersFoundNone'
  BY WritersStep DEF RepositoryInv
<1>3. RepositoryInv /\ WritersFoundNone /\ [RepositoryNext]_repositoryVars
         => [A]_repositoryVars
  BY SettledStep DEF RepositoryInv
<1>4. RepositorySpec => [][A]_repositoryVars
  BY <1>1, <1>2, <1>3, RepositoryInvHolds, PTL DEF RepositorySpec
<1> QED BY <1>4 DEF SettledIndexStands

-----------------------------------------------------------------------------
(* Recursion, finite sets of numbers and the value of a node               *)

\* What is asked of the operands of a node for its value to be what it is.
SameOperands(e, one, other, inst, day, days) ==
    /\ DOMAIN one = DOMAIN other
    /\ e.op \in {"delay"} \cup RollingOps =>
          \A n \in 0..e.n : \A d \in Back(days, day, n) : one[1][inst][d] = other[1][inst][d]
    /\ e.op = "rank" =>
          /\ DOMAIN one[1] = DOMAIN other[1] /\ inst \in DOMAIN one[1]
          /\ \A i \in DOMAIN one[1] : one[1][i][day] = other[1][i][day]
    /\ e.op \notin {"input", "constant", "delay", "rank"} \cup RollingOps =>
          \A a \in DOMAIN one : one[a][inst][day] = other[a][inst][day]

LEMMA SameNodeValue ==
    ASSUME NEW e, NEW one, NEW other, NEW inst, NEW day, NEW days, NEW data1, NEW data2,
           SameOperands(e, one, other, inst, day, days),
           e.op \in WindowOps => e.n \in Nat \ {0},
           e.op = "input" => data1[<<e.name, inst, day>>] = data2[<<e.name, inst, day>>]
    PROVE  NodeValue(e, one, inst, day, days, data1) = NodeValue(e, other, inst, day, days, data2)
  <1> DEFINE ValueBack(operands, n) == LET back == Back(days, day, n)
                 IN  IF back = {} THEN Missing
                     ELSE operands[1][inst][CHOOSE d \in back : TRUE]
  <1>1. ASSUME e.op \in {"delay"} \cup RollingOps, NEW n \in 0..e.n
        PROVE  ValueBack(one, n) = ValueBack(other, n)
    <2>1. CASE Back(days, day, n) = {}
      BY <2>1
    <2>2. CASE Back(days, day, n) # {}
      <3> DEFINE b == CHOOSE d \in Back(days, day, n) : TRUE
      <3>1. b \in Back(days, day, n)
        BY <2>2
      <3> HIDE DEF b
      <3>2. one[1][inst][b] = other[1][inst][b]
        BY <1>1, <3>1 DEF SameOperands
      <3> QED
        BY <2>2, <3>2 DEF b
    <2> QED
      BY <2>1, <2>2
  <1>2. CASE e.op = "input"
    BY <1>2 DEF NodeValue
  <1>3. CASE e.op = "constant"
    BY <1>3 DEF NodeValue
  <1>4. CASE e.op = "delay"
    <2>1. e.n \in 0..e.n
      BY <1>4 DEF WindowOps
    <2>2. ValueBack(one, e.n) = ValueBack(other, e.n)
      BY <1>1, <1>4, <2>1
    <2> QED
      BY <1>4, <2>2 DEF NodeValue
  <1>5. CASE e.op \in RollingOps
    <2>1. \A m \in 1..e.n : e.n - m \in 0..e.n
      BY <1>5 DEF WindowOps
    <2>2. [m \in 1..e.n |-> ValueBack(one, e.n - m)] = [m \in 1..e.n |-> ValueBack(other, e.n - m)]
      <3> HIDE DEF ValueBack
      <3> QED
        BY <1>1, <1>5, <2>1
    <2>3. e.op \notin {"input", "constant", "delay"}
      BY <1>5 DEF RollingOps
    <2> QED
      BY <1>5, <2>2, <2>3 DEF NodeValue
  <1>6. CASE e.op = "rank"
    <2>1. e.op \notin {"input", "constant", "delay"} \cup RollingOps
      BY <1>6 DEF RollingOps
    <2>2. one[1][inst][day] = other[1][inst][day]
      BY <1>6 DEF SameOperands
    <2>3. {i \in DOMAIN one[1] : one[1][i][day] # Missing /\ one[1][i][day] < one[1][inst][day]}
            = {i \in DOMAIN other[1] : other[1][i][day] # Missing /\ other[1][i][day] < other[1][inst][day]}
      BY <1>6, <2>2 DEF SameOperands
    <2> QED
      BY <1>6, <2>1, <2>2, <2>3 DEF NodeValue
  <1>7. CASE e.op \notin {"input", "constant", "delay", "rank"} \cup RollingOps
    <2>1. [a \in DOMAIN one |-> one[a][inst][day]] = [a \in DOMAIN other |-> other[a][inst][day]]
      BY <1>7 DEF SameOperands
    <2> QED
      BY <1>7, <2>1 DEF NodeValue
  <1> QED
    BY <1>2, <1>3, <1>4, <1>5, <1>6, <1>7
\* What holds of 0, and of k when it holds of k - 1, holds up to n.
LEMMA Climb ==
    ASSUME NEW n \in Nat, NEW T, 0 \in T, \A k \in 1..n : k - 1 \in T => k \in T
    PROVE  0..n \subseteq T
  <1> SUFFICES ASSUME NEW b \in 0..n, b \notin T PROVE FALSE
    OBVIOUS
  <1> DEFINE Bad == {k \in 0..n : k \notin T}
             Below(k) == 0..k
             Family == {Below(k) : k \in Bad}
  <1>1. \A k \in 0..n : Below(k) \subseteq 0..n /\ \A j \in 0..n : j < k => Below(j) # Below(k) /\ Below(j) \subseteq Below(k)
    <2>1. ASSUME NEW k \in 0..n, NEW j \in 0..n, j < k PROVE k \in Below(k) /\ k \notin Below(j) /\ Below(j) \subseteq Below(k)
      BY <2>1
    <2>2. \A k \in 0..n : Below(k) \subseteq 0..n
      OBVIOUS
    <2> HIDE DEF Below
    <2> QED
      BY <2>1, <2>2
  <1>2. IsFiniteSet(0..n)
    BY FS_Interval
  <1> HIDE DEF Below
  <1>3. IsWellFoundedOn(StrictSubsetOrdering(0..n), FiniteSubsetsOf(0..n))
    BY FS_StrictSubsetOrderingWellFounded
  <1>4. Family \subseteq FiniteSubsetsOf(0..n) /\ Family # {}
    BY <1>1, <1>2, FS_Subset DEF FiniteSubsetsOf
  <1>5. PICK S \in Family : \A U \in Family : <<U, S>> \notin StrictSubsetOrdering(0..n)
    BY <1>3, <1>4, WFMin
  <1>6. PICK k \in Bad : S = Below(k)
    OBVIOUS
  <1>7. k # 0 /\ k - 1 \in 0..n /\ k \in 1..n /\ k - 1 < k
    OBVIOUS
  <1>8. k - 1 \in Bad
    BY <1>7
  <1>9. <<Below(k - 1), Below(k)>> \in StrictSubsetOrdering(0..n)
    BY <1>1, <1>7 DEF StrictSubsetOrdering
  <1> QED
    BY <1>5, <1>6, <1>8, <1>9

\* What is finite and not empty has an element none comes before.
LEMMA MinimumExists ==
  ASSUME NEW S, IsFiniteSet(S), S # {}, NEW Before,
         \A x \in S : <<x, x>> \notin Before,
         \A x, y, z \in S : <<x, y>> \in Before /\ <<y, z>> \in Before => <<x, z>> \in Before
  PROVE  \E x \in S : \A y \in S : <<y, x>> \notin Before
<1> DEFINE Below(x) == {y \in S : <<y, x>> \in Before}
           Family == {Below(x) : x \in S}
<1>1. \A x \in S : Below(x) \in FiniteSubsetsOf(S)
  BY FS_Subset DEF FiniteSubsetsOf
<1>2. IsWellFoundedOn(StrictSubsetOrdering(S), FiniteSubsetsOf(S))
  BY FS_StrictSubsetOrderingWellFounded
<1>3. PICK T \in Family : \A U \in Family : <<U, T>> \notin StrictSubsetOrdering(S)
  <2>1. Family \subseteq FiniteSubsetsOf(S) /\ Family # {}
    <3> HIDE DEF Below
    <3> QED BY <1>1
  <2> QED BY <1>2, <2>1, WFMin
<1>4. PICK x \in S : T = Below(x)
  OBVIOUS
<1>5. ASSUME NEW y \in S, <<y, x>> \in Before PROVE FALSE
  <2>1. Below(y) \subseteq Below(x) /\ y \in Below(x) /\ y \notin Below(y)
    BY <1>5
  <2>2. <<Below(y), Below(x)>> \in (SUBSET S) \X (SUBSET S)
    OBVIOUS
  <2>3. Below(y) \in Family
    OBVIOUS
  <2> HIDE DEF Below
  <2> QED BY <1>3, <1>4, <2>1, <2>2, <2>3 DEF StrictSubsetOrdering
<1> QED BY <1>5

\* What is finite and not empty has a greatest number, its Max.
LEMMA MaxIsGreatest ==
    ASSUME NEW S, S \subseteq Int, IsFiniteSet(S), S # {}
    PROVE  Max(S) \in S /\ \A n \in S : Max(S) >= n
  <1> DEFINE Before == {p \in S \X S : p[1] > p[2]}
  <1>1. \A x, y \in S : <<x, y>> \in Before <=> x > y
    OBVIOUS
  <1> HIDE DEF Before
  <1>2. /\ \A x \in S : <<x, x>> \notin Before
        /\ \A x, y, z \in S : <<x, y>> \in Before /\ <<y, z>> \in Before => <<x, z>> \in Before
    BY <1>1
  <1>3. PICK x \in S : \A y \in S : <<y, x>> \notin Before
    BY <1>2, MinimumExists
  <1>4. ASSUME NEW y \in S PROVE x >= y
    <2>1. ~(y > x) /\ x \in Int /\ y \in Int
      BY <1>1, <1>3
    <2> QED
      BY <2>1
  <1> QED
    BY <1>4 DEF Max


-----------------------------------------------------------------------------
(* Formulas                                                                *)

\* What compiling leaves of a formula that the values depend on.
Compiled(f) ==
    /\ IsFormula(f)
    /\ \A k \in DOMAIN f : f[k].op \in WindowOps => f[k].n \in Nat \ {0} /\ 1 \in DOMAIN f[k].args
    /\ \A k \in DOMAIN f : f[k].op = "rank" => 1 \in DOMAIN f[k].args

LEMMA FormulaShape ==
    ASSUME NEW f, IsFormula(f)
    PROVE  /\ Len(f) \in Nat \ {0} /\ DOMAIN f = 1..Len(f)
           /\ \A k \in 1..Len(f) : \A a \in DOMAIN f[k].args :
                 f[k].args[a] \in Range(f[k].args) /\ f[k].args[a] \in 1..(k - 1)
           /\ \A k \in 1..Len(f) : Range(f[k].args) \subseteq 1..(k - 1)
  <1>1. f \in Seq(Range(f)) /\ f # <<>>
    BY DEF IsFormula
  <1>2. Len(f) \in Nat \ {0} /\ DOMAIN f = 1..Len(f)
    BY <1>1
  <1>3. \A k \in 1..Len(f) : Range(f[k].args) \subseteq 1..(k - 1)
    BY <1>2 DEF IsFormula
  <1>4. \A k \in 1..Len(f) : \A a \in DOMAIN f[k].args : f[k].args[a] \in Range(f[k].args)
    BY DEF Range
  <1> QED
    BY <1>2, <1>3, <1>4

LEMMA CompiledShape ==
    ASSUME NEW s \in Published, Compiles(s)
    PROVE  Compiled(s.formula)
  <1> DEFINE f == s.formula
  <1>1. IsFormula(f) /\ s.windows \subseteq Nat
    BY PlanningConstants
  <1>2. ASSUME NEW k \in DOMAIN f, f[k].op \in NumericUnary PROVE 1 \in DOMAIN f[k].args
    <2>1. WellTyped(f, k)
      BY DEF Compiles
    <2>2. OperandTypes(f, k) = <<"numeric">>
      BY <1>2, <2>1 DEF WellTyped, NumericUnary, WindowOps, RollingOps, Arithmetic, Comparisons
    <2>3. DOMAIN OperandTypes(f, k) = DOMAIN f[k].args
      BY DEF OperandTypes
    <2> QED
      BY <2>2, <2>3
  <1>3. ASSUME NEW k \in DOMAIN f, f[k].op \in WindowOps PROVE f[k].n \in Nat \ {0}
    BY <1>1, <1>3 DEF Compiles
  <1> QED
    BY <1>1, <1>2, <1>3 DEF Compiled, NumericUnary

\* One recursion over the nodes of a formula: what is there of a node depends
\* on what is there of its operands, which come before it.
LEMMA LookbacksAre ==
    ASSUME NEW f, Compiled(f)
    PROVE  /\ \A k \in 1..Len(f) : Lookbacks(f)[k] \in Nat /\ Lookbacks(f)[k] >= Window(f[k])
           /\ \A k \in 1..Len(f) : \A a \in Range(f[k].args) :
                 Lookbacks(f)[k] >= Window(f[k]) + Lookbacks(f)[a]
  <1> DEFINE n == Len(f)
             Of(g, k) == Window(f[k]) + Max({g[a] : a \in Range(f[k].args)} \cup {0})
             Upto(m, g) == /\ g = [k \in 1..n |-> g[k]]
                           /\ \A k \in 1..m : g[k] = Of(g, k)
             T == {m \in 0..n : \E g : Upto(m, g)}
  <1>1. n \in Nat /\ DOMAIN f = 1..n /\ \A k \in 1..n : Range(f[k].args) \subseteq 1..(k - 1)
    BY FormulaShape DEF Compiled
  <1>2. 0 \in T
    <2>1. Upto(0, [k \in 1..n |-> 0])
      OBVIOUS
    <2> HIDE DEF Upto
    <2> QED
      BY <1>1, <2>1
  <1>3. ASSUME NEW m \in 1..n, m - 1 \in T PROVE m \in T
    <2>1. PICK g : Upto(m - 1, g)
      BY <1>3
    <2> DEFINE h == [k \in 1..n |-> IF k = m THEN Of(g, m) ELSE g[k]]
    <2>2. ASSUME NEW k \in 1..m PROVE Of(h, k) = Of(g, k)
      <3>1. \A a \in Range(f[k].args) : a \in 1..n /\ a # m
        BY <1>1
      <3>2. \A a \in Range(f[k].args) : h[a] = g[a]
        BY <3>1
      <3>3. {h[a] : a \in Range(f[k].args)} = {g[a] : a \in Range(f[k].args)}
        BY <3>2
      <3> HIDE DEF h
      <3> QED
        BY <3>3
    <2>3. \A k \in 1..m : h[k] = Of(g, k)
      <3>1. ASSUME NEW k \in 1..m PROVE h[k] = Of(g, k)
        <4>1. k \in 1..n /\ (k # m => k \in 1..(m - 1))
          BY <1>1
        <4> HIDE DEF Of
        <4> QED
          BY <2>1, <4>1
      <3> QED
        BY <3>1
    <2>4. h = [k \in 1..n |-> h[k]]
      OBVIOUS
    <2>5. Upto(m, h)
      <3> HIDE DEF h, Of
      <3> QED
        BY <2>2, <2>3, <2>4
    <2> HIDE DEF Upto
    <2> QED
      BY <2>5
  <1>4. n \in T
    <2> HIDE DEF T
    <2>1. 0..n \subseteq T
      BY <1>1, <1>2, <1>3, Climb
    <2> QED
      BY <1>1, <2>1
  <1>5. PICK g : Upto(n, g)
    BY <1>4
  <1>6. g = [k \in DOMAIN f |-> Of(g, k)]
    <2> HIDE DEF Of
    <2> QED
      BY <1>1, <1>5
  <1> DEFINE L == Lookbacks(f)
  <1>7. L = [k \in DOMAIN f |-> Of(L, k)]
    BY <1>6 DEF Lookbacks
  <1> HIDE DEF L
  <1>8. \A k \in 1..n : L[k] = Of(L, k)
    <2> HIDE DEF Of
    <2> QED
      BY <1>1, <1>7
  <1>9. ASSUME NEW k \in 1..n, \A a \in 1..(k - 1) : L[a] \in Nat
        PROVE  L[k] \in Nat /\ L[k] >= Window(f[k]) /\ \A a \in Range(f[k].args) : L[k] >= Window(f[k]) + L[a]
    <2> DEFINE args == Range(f[k].args)
               earlier == {L[a] : a \in args}
               longest == Max(earlier \cup {0})
    <2>1. args \subseteq 1..(k - 1)
      BY <1>1
    <2>2. earlier \subseteq Nat
      BY <1>9, <2>1
    <2>3. IsFiniteSet(earlier \cup {0})
      <3>1. IsFiniteSet(args)
        <4>1. 1 \in Int /\ k - 1 \in Int
          BY <1>1
        <4>2. IsFiniteSet(1..(k - 1)) /\ args \in SUBSET (1..(k - 1))
          BY <2>1, <4>1, FS_Interval
        <4> HIDE DEF args
        <4> QED
          BY <4>2, FS_Subset
      <3>2. [a \in args |-> L[a]] \in Surjection(args, earlier)
        BY DEF Surjection
      <3> HIDE DEF args, earlier
      <3>3. IsFiniteSet(earlier)
        BY <3>1, <3>2, FS_Surjection
      <3> QED
        BY <3>3, FS_AddElement
    <2>4. longest \in earlier \cup {0} /\ \A x \in earlier \cup {0} : longest >= x
      <3> HIDE DEF earlier
      <3>1. earlier \cup {0} \subseteq Int /\ earlier \cup {0} # {}
        BY <2>2
      <3> QED
        BY <2>3, <3>1, MaxIsGreatest
    <2>5. longest \in Nat /\ \A a \in args : longest >= L[a] /\ L[a] \in Nat
      BY <1>9, <2>1, <2>2, <2>4
    <2>6. Window(f[k]) \in Nat
      BY <1>1 DEF Compiled, Window
    <2>7. L[k] = Window(f[k]) + longest
      BY <1>8
    <2> HIDE DEF longest, args
    <2>8. L[k] \in Nat /\ L[k] >= Window(f[k]) /\ \A a \in args : L[k] >= Window(f[k]) + L[a]
      BY <2>5, <2>6, <2>7
    <2> QED
      BY <2>8 DEF args
  <1>10. \A k \in 1..n : L[k] \in Nat
    <2> DEFINE S == {m \in 0..n : \A k \in 1..m : L[k] \in Nat}
    <2>1. 0 \in S
      BY <1>1
    <2>2. ASSUME NEW m \in 1..n, m - 1 \in S PROVE m \in S
      <3>1. L[m] \in Nat
        BY <1>9, <2>2
      <3>2. \A k \in 1..m : k = m \/ k \in 1..(m - 1)
        BY <1>1
      <3> QED
        BY <1>1, <2>2, <3>1, <3>2
    <2>3. n \in S
      <3> HIDE DEF S
      <3>1. 0..n \subseteq S
        BY <1>1, <2>1, <2>2, Climb
      <3> QED
        BY <1>1, <3>1
    <2> QED
      BY <2>3
  <1>11. \A k \in 1..n : \A a \in 1..(k - 1) : a \in 1..n
    BY <1>1
  <1>12. \A k \in 1..n : L[k] >= Window(f[k]) /\ \A a \in Range(f[k].args) : L[k] >= Window(f[k]) + L[a]
    BY <1>9, <1>10, <1>11
  <1> QED
    BY <1>10, <1>12 DEF L

NodeOf(f, instruments, days, given, values, k) ==
    [i \in instruments |-> [day \in days |->
        NodeValue(f[k], [a \in DOMAIN f[k].args |-> values[f[k].args[a]]],
                  i, day, days, given)]]

LEMMA NodeValuesAre ==
    ASSUME NEW f, IsFormula(f), NEW instruments, NEW days, NEW given
    PROVE  \A k \in 1..Len(f) : NodeValues(f, instruments, days, given)[k]
               = NodeOf(f, instruments, days, given, NodeValues(f, instruments, days, given), k)
  <1> DEFINE n == Len(f)
             Of(g, k) == NodeOf(f, instruments, days, given, g, k)
             Upto(m, g) == /\ g = [k \in 1..n |-> g[k]]
                           /\ \A k \in 1..m : g[k] = Of(g, k)
             T == {m \in 0..n : \E g : Upto(m, g)}
  <1>1. /\ n \in Nat /\ DOMAIN f = 1..n
        /\ \A k \in 1..n : \A a \in DOMAIN f[k].args : f[k].args[a] \in 1..(k - 1)
    BY FormulaShape
  <1>2. 0 \in T
    <2>1. Upto(0, [k \in 1..n |-> 0])
      OBVIOUS
    <2> HIDE DEF Upto
    <2> QED
      BY <1>1, <2>1
  <1>3. ASSUME NEW m \in 1..n, m - 1 \in T PROVE m \in T
    <2>1. PICK g : Upto(m - 1, g)
      BY <1>3
    <2> DEFINE h == [k \in 1..n |-> IF k = m THEN Of(g, m) ELSE g[k]]
    <2>2. ASSUME NEW k \in 1..m PROVE Of(h, k) = Of(g, k)
      <3>1. \A a \in DOMAIN f[k].args : f[k].args[a] \in 1..n /\ f[k].args[a] # m
        BY <1>1
      <3>2. \A a \in DOMAIN f[k].args : h[f[k].args[a]] = g[f[k].args[a]]
        BY <3>1
      <3>3. [a \in DOMAIN f[k].args |-> h[f[k].args[a]]] = [a \in DOMAIN f[k].args |-> g[f[k].args[a]]]
        BY <3>2
      <3> HIDE DEF h
      <3> QED
        BY <3>3 DEF NodeOf
    <2>3. \A k \in 1..m : h[k] = Of(g, k)
      <3>1. ASSUME NEW k \in 1..m PROVE h[k] = Of(g, k)
        <4>1. k \in 1..n /\ (k # m => k \in 1..(m - 1))
          BY <1>1
        <4> HIDE DEF Of
        <4> QED
          BY <2>1, <4>1
      <3> QED
        BY <3>1
    <2>4. h = [k \in 1..n |-> h[k]]
      OBVIOUS
    <2>5. Upto(m, h)
      <3> HIDE DEF h, Of
      <3> QED
        BY <2>2, <2>3, <2>4
    <2> HIDE DEF Upto
    <2> QED
      BY <2>5
  <1>4. n \in T
    <2> HIDE DEF T
    <2>1. 0..n \subseteq T
      BY <1>1, <1>2, <1>3, Climb
    <2> QED
      BY <1>1, <2>1
  <1>5. PICK g : Upto(n, g)
    BY <1>4
  <1>6. g = [k \in DOMAIN f |-> Of(g, k)]
    <2> HIDE DEF Of
    <2> QED
      BY <1>1, <1>5
  <1> DEFINE V == NodeValues(f, instruments, days, given)
  <1>7. V = [k \in DOMAIN f |-> Of(V, k)]
    BY <1>6 DEF NodeValues, NodeOf
  <1> HIDE DEF V
  <1>8. \A k \in 1..n : V[k] = Of(V, k)
    <2> HIDE DEF Of
    <2> QED
      BY <1>1, <1>7
  <1> QED
    BY <1>8 DEF V

-----------------------------------------------------------------------------
(* The days a value is computed from                                       *)

\* What is recent on a day that is itself so many days back.
LEMMA RecentAdds ==
    ASSUME NEW days \in SUBSET Int, IsFiniteSet(days), NEW day \in days, NEW n \in Nat,
           NEW m \in Nat, NEW back \in Back(days, day, m), NEW d \in Recent(days, back, n)
    PROVE  d \in Recent(days, day, n + m)
  <1> DEFINE near == {x \in days : back < x /\ x <= day}
             far == {x \in days : d < x /\ x <= back}
             all == {x \in days : d < x /\ x <= day}
  <1>1. back \in days /\ back <= day /\ Cardinality(near) = m
    BY DEF Back
  <1>2. d \in days /\ d <= back /\ Cardinality(far) <= n
    BY DEF Recent
  <1>3. near \in SUBSET days /\ far \in SUBSET days
    OBVIOUS
  <1>4. IsFiniteSet(near) /\ IsFiniteSet(far)
    <2> HIDE DEF near, far
    <2> QED
      BY <1>3, FS_Subset
  <1> \A x \in days : x \in Int
    OBVIOUS
  <1>5. all = near \cup far
    <2>1. \A x \in days : (d < x /\ x <= day) <=> ((back < x /\ x <= day) \/ (d < x /\ x <= back))
      BY <1>1, <1>2
    <2> QED
      BY <2>1
  <1>6. near \cap far = {}
    <2>1. \A x \in days : ~((back < x /\ x <= day) /\ (d < x /\ x <= back))
      BY <1>1, <1>2
    <2> QED
      BY <2>1
  <1>7. Cardinality(all) = Cardinality(near) + Cardinality(far)
    <2> HIDE DEF near, far, all
    <2>1. Cardinality(near \cup far) = Cardinality(near) + Cardinality(far) - Cardinality(near \cap far)
      BY ONLY <1>4, FS_Union
    <2>2. Cardinality(near) \in Nat /\ Cardinality(far) \in Nat
      BY ONLY <1>4, FS_CardinalityType
    <2>3. Cardinality(near \cap far) = 0
      BY <1>6, FS_EmptySet
    <2> QED
      BY <1>5, <2>1, <2>2, <2>3
  <1>8. Cardinality(all) <= n + m
    <2> HIDE DEF near, far, all
    <2> QED
      BY <1>1, <1>2, <1>4, <1>7, FS_CardinalityType
  <1>9. d <= day
    BY <1>1, <1>2
  <1> QED
    BY <1>2, <1>8, <1>9 DEF Recent

LEMMA RecentGrows ==
    ASSUME NEW days \in SUBSET Int, IsFiniteSet(days), NEW day \in days, NEW n \in Nat, NEW m \in Nat, n <= m
    PROVE  Recent(days, day, n) \subseteq Recent(days, day, m) /\ day \in Recent(days, day, n)
  <1>1. ASSUME NEW d \in Recent(days, day, n) PROVE d \in Recent(days, day, m)
    <2> DEFINE all == {x \in days : d < x /\ x <= day}
    <2>1. Cardinality(all) \in Nat
      <3>1. all \in SUBSET days
        OBVIOUS
      <3> HIDE DEF all
      <3> QED
        BY <3>1, FS_Subset, FS_CardinalityType
    <2>2. Cardinality(all) <= n /\ d \in days /\ d <= day
      BY DEF Recent
    <2>3. Cardinality(all) <= m
      <3> HIDE DEF all
      <3> QED
        BY <2>1, <2>2
    <2> QED
      BY <2>2, <2>3 DEF Recent
  <1>2. {x \in days : day < x /\ x <= day} = {}
    <2>1. \A x \in days : x \in Int /\ ~(day < x /\ x <= day)
      OBVIOUS
    <2> QED
      BY <2>1
  <1>3. Cardinality({x \in days : day < x /\ x <= day}) <= n /\ day <= day
    BY <1>2, FS_EmptySet
  <1> QED
    BY <1>1, <1>3 DEF Recent

\* The data agree on all that a formula reads of a day and of n days before it.
Agree(f, instruments, days, data1, data2, day, n) ==
    \A name \in RequiredInputs(f) : \A i \in instruments : \A d \in Recent(days, day, n) :
        data1[<<name, i, d>>] = data2[<<name, i, d>>]

\* What a node is worth depends on its inputs on the days it looks back to.
LEMMA SameValues ==
    ASSUME NEW f, Compiled(f), NEW instruments, NEW days \in SUBSET Int, IsFiniteSet(days),
           NEW data1, NEW data2
    PROVE  \A k \in 1..Len(f) : \A day \in days :
               Agree(f, instruments, days, data1, data2, day, Lookbacks(f)[k]) =>
                   \A i \in instruments :
                       NodeValues(f, instruments, days, data1)[k][i][day]
                           = NodeValues(f, instruments, days, data2)[k][i][day]
  <1> DEFINE n == Len(f)
             L == Lookbacks(f)
             V1 == NodeValues(f, instruments, days, data1)
             V2 == NodeValues(f, instruments, days, data2)
             Alike(day, m) == Agree(f, instruments, days, data1, data2, day, m)
             Holds(k) == \A day \in days : Alike(day, L[k]) =>
                            \A i \in instruments : V1[k][i][day] = V2[k][i][day]
             T == {m \in 0..n : \A k \in 1..m : Holds(k)}
  <1>1. /\ n \in Nat \ {0} /\ DOMAIN f = 1..n
        /\ \A k \in 1..n : \A a \in DOMAIN f[k].args :
              f[k].args[a] \in Range(f[k].args) /\ f[k].args[a] \in 1..(k - 1)
    BY FormulaShape DEF Compiled
  <1>2. /\ \A k \in 1..n : L[k] \in Nat
        /\ \A k \in 1..n : \A a \in DOMAIN f[k].args : L[k] >= Window(f[k]) + L[f[k].args[a]]
    BY <1>1, LookbacksAre
  <1>3. /\ \A k \in 1..n : V1[k] = NodeOf(f, instruments, days, data1, V1, k)
        /\ \A k \in 1..n : V2[k] = NodeOf(f, instruments, days, data2, V2, k)
    BY NodeValuesAre DEF Compiled
  <1> HIDE DEF L, V1, V2
  <1>4. ASSUME NEW k \in 1..n, \A j \in 1..(k - 1) : Holds(j) PROVE Holds(k)
    <2> SUFFICES ASSUME NEW day \in days, Alike(day, L[k]), NEW inst \in instruments
                 PROVE  V1[k][inst][day] = V2[k][inst][day]
      OBVIOUS
    <2> DEFINE e == f[k]
               one == [a \in DOMAIN e.args |-> V1[e.args[a]]]
               other == [a \in DOMAIN e.args |-> V2[e.args[a]]]
    <2>1. /\ V1[k][inst][day] = NodeValue(e, one, inst, day, days, data1)
          /\ V2[k][inst][day] = NodeValue(e, other, inst, day, days, data2)
      <3>1. V1[k] = NodeOf(f, instruments, days, data1, V1, k)
        BY <1>3
      <3>2. V2[k] = NodeOf(f, instruments, days, data2, V2, k)
        BY <1>3
      <3>3. NodeOf(f, instruments, days, data1, V1, k)[inst][day] = NodeValue(e, one, inst, day, days, data1)
        BY DEF NodeOf
      <3>4. NodeOf(f, instruments, days, data2, V2, k)[inst][day] = NodeValue(e, other, inst, day, days, data2)
        BY DEF NodeOf
      <3> HIDE DEF e, one, other
      <3> QED
        BY <3>1, <3>2, <3>3, <3>4
    <2>2. \A a \in DOMAIN e.args : e.args[a] \in 1..(k - 1) /\ e.args[a] \in 1..n
      BY <1>1
    <2>3. Window(e) \in Nat /\ (e.op \in WindowOps => Window(e) = e.n /\ e.n \in Nat \ {0})
      BY <1>1 DEF Window, Compiled
    <2>4. \A a \in DOMAIN e.args : L[e.args[a]] \in Nat /\ L[k] \in Nat /\ L[k] >= Window(e) + L[e.args[a]]
      BY <1>2, <2>2
    <2>5. ASSUME NEW a \in DOMAIN e.args, NEW m \in 0..Window(e), NEW back \in Back(days, day, m)
          PROVE  \A i \in instruments : one[a][i][back] = other[a][i][back]
      <3> DEFINE j == e.args[a]
      <3>1. L[j] \in Nat /\ m \in Nat /\ L[j] + m \in Nat /\ L[j] + m <= L[k] /\ L[k] \in Nat
        BY <2>3, <2>4
      <3>2. back \in days
        BY DEF Back
      <3>3. Recent(days, back, L[j]) \subseteq Recent(days, day, L[j] + m)
        BY <3>1, RecentAdds
      <3>4. Recent(days, day, L[j] + m) \subseteq Recent(days, day, L[k])
        BY <3>1, RecentGrows
      <3>5. Alike(back, L[j])
        BY <3>3, <3>4 DEF Agree
      <3>6. Holds(j)
        BY <1>4, <2>2
      <3>7. \A i \in instruments : V1[j][i][back] = V2[j][i][back]
        BY <3>2, <3>5, <3>6
      <3> QED
        BY <3>7
    <2>6. day \in Back(days, day, 0)
      <3>1. {x \in days : day < x /\ x <= day} = {}
        <4>1. \A x \in days : x \in Int /\ ~(day < x /\ x <= day)
          OBVIOUS
        <4> QED
          BY <4>1
      <3>2. Cardinality({x \in days : day < x /\ x <= day}) = 0
        BY <3>1, FS_EmptySet
      <3>3. day \in Int /\ day <= day
        OBVIOUS
      <3> QED
        BY <3>2, <3>3 DEF Back
    <2>7. ASSUME NEW a \in DOMAIN e.args
          PROVE  \A i \in instruments : one[a][i][day] = other[a][i][day]
      <3>1. 0 \in 0..Window(e)
        BY <2>3
      <3> HIDE DEF one, other
      <3> QED
        BY <2>5, <2>6, <3>1
    <2>8. SameOperands(e, one, other, inst, day, days)
      <3>1. DOMAIN one = DOMAIN e.args /\ DOMAIN other = DOMAIN e.args
        OBVIOUS
      <3>2. ASSUME e.op \in {"delay"} \cup RollingOps
            PROVE  \A m \in 0..e.n : \A d \in Back(days, day, m) : one[1][inst][d] = other[1][inst][d]
        <4>1. 1 \in DOMAIN e.args /\ Window(e) = e.n
          BY <1>1, <2>3, <3>2 DEF Compiled, WindowOps
        <4> HIDE DEF one, other
        <4> QED
          BY <2>5, <4>1
      <3>3. ASSUME e.op = "rank"
            PROVE  /\ DOMAIN one[1] = DOMAIN other[1] /\ inst \in DOMAIN one[1]
                   /\ \A i \in DOMAIN one[1] : one[1][i][day] = other[1][i][day]
        <4>1. 1 \in DOMAIN e.args
          BY <1>1, <3>3 DEF Compiled
        <4>2. DOMAIN one[1] = instruments /\ DOMAIN other[1] = instruments
          <5>1. V1[e.args[1]] = NodeOf(f, instruments, days, data1, V1, e.args[1])
            BY <1>3, <2>2, <4>1
          <5>2. V2[e.args[1]] = NodeOf(f, instruments, days, data2, V2, e.args[1])
            BY <1>3, <2>2, <4>1
          <5>3. one[1] = V1[e.args[1]] /\ other[1] = V2[e.args[1]]
            BY <4>1
          <5> QED
            BY <5>1, <5>2, <5>3 DEF NodeOf
        <4> HIDE DEF one, other
        <4> QED
          BY <2>7, <4>1, <4>2
      <3> HIDE DEF one, other
      <3>4. \A a \in DOMAIN one : one[a][inst][day] = other[a][inst][day]
        BY <2>7, <3>1
      <3> HIDE DEF e
      <3> QED
        BY <3>1, <3>2, <3>3, <3>4 DEF SameOperands
    <2>9. e.op = "input" => data1[<<e.name, inst, day>>] = data2[<<e.name, inst, day>>]
      <3>1. ASSUME e.op = "input" PROVE e.name \in RequiredInputs(f)
        BY <1>1, <3>1 DEF RequiredInputs
      <3>2. day \in Recent(days, day, L[k])
        BY <1>2, RecentGrows
      <3> QED
        BY <3>1, <3>2 DEF Agree
    <2> HIDE DEF one, other
    <2> QED
      BY <2>1, <2>3, <2>8, <2>9, SameNodeValue
  <1>5. 0 \in T
    BY <1>1
  <1>6. ASSUME NEW m \in 1..n, m - 1 \in T PROVE m \in T
    <2> HIDE DEF Holds
    <2>1. Holds(m)
      BY <1>4, <1>6
    <2>2. \A k \in 1..m : k = m \/ k \in 1..(m - 1)
      BY <1>1
    <2> QED
      BY <1>1, <1>6, <2>1, <2>2
  <1>7. n \in T
    <2> HIDE DEF T
    <2>1. 0..n \subseteq T
      BY <1>1, <1>5, <1>6, Climb
    <2> QED
      BY <1>1, <2>1
  <1> QED
    BY <1>7 DEF L, V1, V2

LEMMA SameValue ==
    ASSUME NEW f, Compiled(f), NEW instruments, NEW days \in SUBSET Int, IsFiniteSet(days),
           NEW data1, NEW data2, NEW day \in days,
           Agree(f, instruments, days, data1, data2, day, LookbackPeriods(f))
    PROVE  \A i \in instruments : ValueOf(f, instruments, days, data1)[i][day]
                                   = ValueOf(f, instruments, days, data2)[i][day]
  <1>1. Len(f) \in 1..Len(f)
    BY FormulaShape DEF Compiled
  <1> QED
    BY <1>1, SameValues DEF ValueOf, LookbackPeriods

-----------------------------------------------------------------------------
(* The days of a plan                                                      *)

LEMMA PlannedDaysAre ==
    /\ DOMAIN PlannedDays = 1..Len(PlannedDays) /\ Len(PlannedDays) \in Nat \ {0}
    /\ \A k \in DOMAIN PlannedDays : PlannedDays[k] \in TradingDays /\ PlannedDays[k] \in Int
    /\ TradingDays \in SUBSET Int /\ IsFiniteSet(TradingDays)
  <1>1. TradingDays \in SUBSET (1..LastDay) /\ LastDay \in Int
    BY CalendarAssumption
  <1>2. IsFiniteSet(TradingDays)
    <2>1. IsFiniteSet(1..LastDay)
      BY <1>1, FS_Interval
    <2> QED
      BY <1>1, <2>1, FS_Subset
  <1>3. TradingDays \in SUBSET Int
    BY <1>1
  <1>4. PlannedDays \in Seq(TradingDays) /\ PlannedDays # <<>>
    BY PlanningConstants
  <1>5. DOMAIN PlannedDays = 1..Len(PlannedDays) /\ Len(PlannedDays) \in Nat \ {0}
    BY <1>4
  <1>6. \A k \in DOMAIN PlannedDays : PlannedDays[k] \in TradingDays
    BY <1>4
  <1> QED
    BY <1>2, <1>3, <1>5, <1>6

\* Between two planned days there are as many trading days at least.
LEMMA PlannedDaysAreApart ==
    ASSUME NEW k \in DOMAIN PlannedDays, NEW m \in DOMAIN PlannedDays, m <= k
    PROVE  Cardinality({x \in TradingDays : PlannedDays[m] < x /\ x <= PlannedDays[k]}) >= k - m
  <1> DEFINE between == {x \in TradingDays : PlannedDays[m] < x /\ x <= PlannedDays[k]}
             day == [j \in (m + 1)..k |-> PlannedDays[j]]
  <1>1. k \in Int /\ m \in Int /\ m + 1 \in Int /\ \A j \in (m + 1)..k : j \in DOMAIN PlannedDays
    BY PlannedDaysAre
  <1>2. \A j \in (m + 1)..k : PlannedDays[j] \in between
    <2>1. ASSUME NEW j \in (m + 1)..k
          PROVE  /\ PlannedDays[m] < PlannedDays[j]
                 /\ PlannedDays[j] <= PlannedDays[k] /\ PlannedDays[j] \in TradingDays
      <3>1. j \in DOMAIN PlannedDays /\ m < j /\ (j < k \/ j = k)
        BY <1>1
      <3>2. PlannedDays[m] < PlannedDays[j] /\ (j < k => PlannedDays[j] < PlannedDays[k])
        BY <3>1, PlanningConstants
      <3> QED
        BY <3>1, <3>2, PlannedDaysAre
    <2> QED
      BY <2>1
  <1>3. day \in [(m + 1)..k -> between]
    <2> HIDE DEF between
    <2> QED
      BY <1>2
  <1>4. ASSUME NEW i \in (m + 1)..k, NEW j \in (m + 1)..k, i # j PROVE day[i] # day[j]
    <2>1. i \in DOMAIN PlannedDays /\ j \in DOMAIN PlannedDays /\ (i < j \/ j < i)
      BY <1>1, <1>4
    <2>2. (i < j => PlannedDays[i] < PlannedDays[j]) /\ (j < i => PlannedDays[j] < PlannedDays[i])
      BY <2>1, PlanningConstants
    <2>3. PlannedDays[i] \in Int /\ PlannedDays[j] \in Int
      BY <2>1, PlannedDaysAre
    <2> QED
      BY <2>1, <2>2, <2>3
  <1>5. IsFiniteSet(between)
    <2>1. between \in SUBSET TradingDays
      OBVIOUS
    <2> HIDE DEF between
    <2> QED
      BY <2>1, PlannedDaysAre, FS_Subset
  <1>6. day \in Injection((m + 1)..k, between)
    <2> HIDE DEF between, day
    <2> QED
      BY <1>3, <1>4 DEF Injection, IsInjective
  <1>7. Cardinality((m + 1)..k) <= Cardinality(between)
    <2> HIDE DEF between, day
    <2> QED
      BY <1>5, <1>6, FS_Injection
  <1>8. Cardinality((m + 1)..k) = k - m
    <2>1. Cardinality((m + 1)..k) = IF m + 1 > k THEN 0 ELSE k - (m + 1) + 1
      BY <1>1, FS_Interval
    <2> QED
      BY <1>1, <2>1
  <1>9. Cardinality(between) \in Nat
    BY <1>5, FS_CardinalityType
  <1> QED
    BY <1>1, <1>7, <1>8, <1>9

\* A partition's days reach back to all that is recent, of the planned days on.
LEMMA StartIsEarly ==
    ASSUME NEW k \in DOMAIN PlannedDays, NEW n \in Nat,
           NEW d \in Recent(TradingDays, PlannedDays[k], n), PlannedDays[1] <= d
    PROVE  PlannedDays[Max({1, k - n})] <= d /\ d <= PlannedDays[k]
  <1>1. k \in Nat /\ k >= 1 /\ 1 \in DOMAIN PlannedDays /\ d \in TradingDays /\ d \in Int
    BY PlannedDaysAre DEF Recent
  <1>2. d <= PlannedDays[k]
    BY DEF Recent
  <1>3. CASE k - n <= 1
    <2>1. Max({1, k - n}) = 1
      BY <1>1, <1>3 DEF Max
    <2> QED
      BY <1>2, <2>1
  <1>4. CASE k - n > 1
    <2> DEFINE m == k - n
               start == PlannedDays[m]
               near == {x \in TradingDays : start < x /\ x <= PlannedDays[k]}
               all == {x \in TradingDays : d < x /\ x <= PlannedDays[k]}
    <2>1. Max({1, k - n}) = m
      BY <1>1, <1>4 DEF Max
    <2>2. m \in DOMAIN PlannedDays /\ m <= k /\ start \in TradingDays /\ start \in Int
      BY <1>1, <1>4, PlannedDaysAre
    <2>3. Cardinality(near) >= n
      <3>1. Cardinality(near) >= k - m
        BY <2>2, PlannedDaysAreApart
      <3>2. k - m = n
        BY <1>1
      <3> QED
        BY <3>1, <3>2
    <2>4. ASSUME d < start PROVE FALSE
      <3>1. start <= PlannedDays[k] /\ PlannedDays[k] \in Int
        <4>1. m = k \/ m < k
          BY <1>1, <2>2
        <4>2. m < k => PlannedDays[m] < PlannedDays[k]
          BY <2>2, PlanningConstants
        <4> QED
          BY <4>1, <4>2, <2>2, PlannedDaysAre
      <3>2. \A x \in TradingDays : x \in Int
        BY PlannedDaysAre
      <3>3. near \cup {start} \subseteq all /\ start \notin near
        <4>1. \A x \in TradingDays : start < x => d < x
          BY <1>1, <2>2, <2>4, <3>2
        <4>2. start \in all
          BY <2>2, <2>4, <3>1
        <4>3. near \subseteq all
          BY <4>1
        <4>4. ~(start < start)
          BY <2>2
        <4> HIDE DEF start, all
        <4> QED
          BY <4>2, <4>3, <4>4
      <3>4. IsFiniteSet(all) /\ IsFiniteSet(near)
        <4>1. all \in SUBSET TradingDays /\ near \in SUBSET TradingDays
          OBVIOUS
        <4> HIDE DEF all, near
        <4> QED
          BY <4>1, PlannedDaysAre, FS_Subset
      <3>5. Cardinality(all) <= n
        BY DEF Recent
      <3> HIDE DEF all, near, start, m
      <3>6. IsFiniteSet(near \cup {start}) /\ Cardinality(near \cup {start}) = Cardinality(near) + 1
        BY <3>3, <3>4, FS_AddElement
      <3>7. Cardinality(near \cup {start}) <= Cardinality(all)
        BY <3>3, <3>4, FS_Subset
      <3>8. Cardinality(near) \in Nat /\ Cardinality(all) \in Nat
        BY <3>4, FS_CardinalityType
      <3> QED
        BY <2>3, <3>5, <3>6, <3>7, <3>8
    <2>5. start <= d
      BY <1>1, <2>2, <2>4
    <2> QED
      BY <1>2, <2>1, <2>5
  <1>5. k - n <= 1 \/ k - n > 1
    BY <1>1
  <1> QED
    BY <1>3, <1>4, <1>5

-----------------------------------------------------------------------------
(* The cache                                                               *)

\* What is restated is an entry of the data; what is pending are its days and
\* datasets.
ScreeningTypeOK ==
    /\ DOMAIN data = DOMAIN Data
    /\ pending \in [datasets : SUBSET {r.dataset : r \in Restatements},
                    specs : SUBSET Published, days : SUBSET Int]
    /\ told \subseteq Restatements
    /\ release \in Nat

CacheIsPlanned ==
    \A p \in DOMAIN cache :
        /\ p.spec \in Published /\ Compiles(p.spec)
        /\ p.inst \in Instruments \cup {Missing}
        /\ \E k \in DOMAIN PlannedDays :
              /\ p.day = PlannedDays[k]
              /\ p.start = PlannedDays[Max({1, k - LookbackPeriods(p.spec.formula)})]

ScreeningInv == ScreeningTypeOK /\ CacheIsPlanned /\ StaleIsSelected

\* The day of r is before the planned ones, where no partition starts.
TooEarly(p, r) == r.key[3] < PlannedDays[1] /\ LooksBackTo(p, r)

\* A restatement leaves every partition as it is that is of another input, or
\* whose days it is not of, unless it is too early.
LEMMA RestatedElsewhere ==
    ASSUME ScreeningTypeOK, CacheIsPlanned, NEW p \in DOMAIN cache, NEW r \in Restatements,
           data' = [data EXCEPT ![r.key] = r.value],
           r.key[1] \notin RequiredInputs(p.spec.formula)
               \/ (~(p.start <= r.key[3] /\ r.key[3] <= p.day) /\ ~TooEarly(p, r))
    PROVE  ValuesOf(p)' = ValuesOf(p)
  <1> DEFINE f == p.spec.formula
             n == LookbackPeriods(f)
  <1>1. /\ p.spec \in Published /\ Compiles(p.spec)
        /\ p.inst \in Instruments \cup {Missing}
    BY DEF CacheIsPlanned
  <1>2. PICK k \in DOMAIN PlannedDays : p.day = PlannedDays[k] /\ p.start = PlannedDays[Max({1, k - n})]
    BY DEF CacheIsPlanned
  <1>3. Compiled(f)
    BY <1>1, CompiledShape
  <1>4. Len(f) \in 1..Len(f) /\ n = Lookbacks(f)[Len(f)] /\ n \in Nat
    <2>1. Len(f) \in 1..Len(f)
      BY <1>3, FormulaShape DEF Compiled
    <2> QED
      BY <1>3, <2>1, LookbacksAre DEF LookbackPeriods
  <1>5. TradingDays \in SUBSET Int /\ IsFiniteSet(TradingDays) /\ p.day \in TradingDays
    BY <1>2, PlannedDaysAre
  <1>6. Agree(f, Instruments, TradingDays, data, data', p.day, n)
    <2> SUFFICES ASSUME NEW name \in RequiredInputs(f), NEW i \in Instruments,
                        NEW d \in Recent(TradingDays, p.day, n)
                 PROVE  data[<<name, i, d>>] = data'[<<name, i, d>>]
      BY DEF Agree
    <2>1. <<name, i, d>> \in DOMAIN data
      <3>1. d \in TradingDays
        BY DEF Recent
      <3>2. <<name, i, d>> \in RequiredInputs(f) \X Instruments \X TradingDays
        BY <3>1
      <3> QED
        BY <1>1, <3>2, PlanningConstants DEF ScreeningTypeOK
    <2>2. <<name, i, d>> # r.key
      <3> SUFFICES ASSUME <<name, i, d>> = r.key PROVE FALSE
        OBVIOUS
      <3>1. r.key[1] = name /\ r.key[3] = d
        OBVIOUS
      <3>2. ~TooEarly(p, r) /\ ~(p.start <= d /\ d <= p.day)
        BY <3>1
      <3>3. PlannedDays[1] <= d
        <4>1. LooksBackTo(p, r)
          BY <3>1 DEF LooksBackTo
        <4>2. d \in Int /\ PlannedDays[1] \in Int
          BY <3>1, RestatedConstants, PlannedDaysAre
        <4> QED
          BY <3>1, <3>2, <4>1, <4>2 DEF TooEarly
      <3>4. p.start <= d /\ d <= p.day
        BY <1>2, <1>4, <3>3, StartIsEarly
      <3> QED
        BY <3>2, <3>4
    <2> QED
      BY <2>1, <2>2
  <1>7. \A i \in Instruments : ValueOf(f, Instruments, TradingDays, data)[i][p.day]
                                 = ValueOf(f, Instruments, TradingDays, data')[i][p.day]
    <2> HIDE DEF f
    <2>1. \A d1, d2 : Agree(f, Instruments, TradingDays, d1, d2, p.day, n) =>
              \A i \in Instruments : ValueOf(f, Instruments, TradingDays, d1)[i][p.day]
                                      = ValueOf(f, Instruments, TradingDays, d2)[i][p.day]
      <3> TAKE d1, d2
      <3> HAVE Agree(f, Instruments, TradingDays, d1, d2, p.day, n)
      <3> DEFINE day == p.day
      <3>1. day \in TradingDays /\ Agree(f, Instruments, TradingDays, d1, d2, day, LookbackPeriods(f))
        BY <1>5
      <3> HIDE DEF day
      <3>2. \A i \in Instruments : ValueOf(f, Instruments, TradingDays, d1)[i][day]
                                      = ValueOf(f, Instruments, TradingDays, d2)[i][day]
        BY ONLY <1>3, <1>5, <3>1, SameValue
      <3> QED
        BY <3>2 DEF day
    <2> QED
      BY ONLY <1>6, <2>1
  <1> DEFINE instruments == IF p.inst = Missing THEN Instruments ELSE {p.inst}
  <1>8. instruments \subseteq Instruments
    BY <1>1
  <1>9. ValuesOf(p) = [i \in instruments |-> ValueOf(f, Instruments, TradingDays, data)[i][p.day]]
    BY DEF ValuesOf
  <1>10. ValuesOf(p)' = [i \in instruments |-> ValueOf(f, Instruments, TradingDays, data')[i][p.day]]
    BY DEF ValuesOf
  <1> HIDE DEF instruments, f
  <1> QED
    BY <1>7, <1>8, <1>9, <1>10

LEMMA PlanIsPlanned ==
    ASSUME NEW specs \in SUBSET Published, PlanCache(specs), ScreeningInv
    PROVE  CacheIsPlanned' /\ StaleIsSelected'
  <1> DEFINE partitions == Partitions(specs, Instruments, PlannedDays)
  <1>1. cache' = [p \in partitions |-> ValuesOf(p)] /\ data' = data /\ BuildsDag(specs)
    BY DEF PlanCache
  <1>2. \A p \in partitions : cache'[p] = ValuesOf(p)'
    BY <1>1 DEF ValuesOf
  <1>3. ASSUME NEW p \in partitions
        PROVE  /\ p.spec \in Published /\ Compiles(p.spec)
               /\ p.inst \in Instruments \cup {Missing}
               /\ \E k \in DOMAIN PlannedDays :
                     /\ p.day = PlannedDays[k]
                     /\ p.start = PlannedDays[Max({1, k - LookbackPeriods(p.spec.formula)})]
    <2>1. PICK s \in specs : p \in PartitionsOf(s, Instruments, PlannedDays)
      BY DEF Partitions
    <2>2. Compiles(s) /\ s \in Published
      BY <1>1 DEF BuildsDag
    <2> DEFINE start(k) == PlannedDays[Max({1, k - LookbackPeriods(s.formula)})]
               planned == (IF NeedsTimeSeries(s) THEN Instruments ELSE {})
                              \cup (IF NeedsCrossSection(s) THEN {Missing} ELSE {})
    <2>3. p \in {[spec |-> s, inst |-> i, day |-> PlannedDays[k], start |-> start(k)] :
                    i \in planned, k \in DOMAIN PlannedDays}
      BY ONLY <2>1 DEF PartitionsOf
    <2>4. planned \subseteq Instruments \cup {Missing}
      OBVIOUS
    <2> HIDE DEF start, planned
    <2>5. PICK i \in planned, k \in DOMAIN PlannedDays :
             p = [spec |-> s, inst |-> i, day |-> PlannedDays[k], start |-> start(k)]
      BY ONLY <2>3
    <2>6. p.spec = s /\ p.inst = i /\ p.day = PlannedDays[k] /\ p.start = start(k)
      BY ONLY <2>5
    <2> QED
      BY <2>2, <2>4, <2>6 DEF start
  <1>4. DOMAIN cache' = partitions
    BY <1>1
  <1> HIDE DEF partitions
  <1> QED
    BY <1>2, <1>3, <1>4 DEF CacheIsPlanned, StaleIsSelected

LEMMA RestateKeepsSelection ==
    ASSUME ScreeningInv, NEW r \in Restatements, NEW byDay \in BOOLEAN, Restate(r, byDay)
    PROVE  StaleIsSelected' /\ ScreeningTypeOK'
  <1>1. cache' = cache /\ data' = [data EXCEPT ![r.key] = r.value]
    BY DEF Restate
  <1>2. /\ byDay => pending' = [pending EXCEPT !.days = @ \cup {r.key[3]}]
        /\ ~byDay => pending' = [pending EXCEPT !.datasets = @ \cup {r.dataset}]
        /\ told' = IF byDay THEN told \cup {r} ELSE told
    BY DEF Restate
  <1>3. /\ pending.datasets \subseteq pending'.datasets /\ pending'.specs = pending.specs
        /\ pending.days \subseteq pending'.days
        /\ byDay => r.key[3] \in pending'.days
        /\ ~byDay => r.dataset \in pending'.datasets
    BY <1>2 DEF ScreeningInv, ScreeningTypeOK
  <1>4. ASSUME NEW p \in DOMAIN cache, p \notin RecomputePlan(DOMAIN cache, pending'),
               cache'[p] # ValuesOf(p)'
        PROVE  \E q \in told' : TooEarly(p, q)
    <2>1. p \notin RecomputePlan(DOMAIN cache, pending)
      BY <1>3, <1>4 DEF RecomputePlan
    <2>2. CASE byDay /\ TooEarly(p, r)
      BY <1>2, <2>2
    <2>3. CASE ~(byDay /\ TooEarly(p, r))
      <3>1. r.key[1] \notin RequiredInputs(p.spec.formula)
                \/ (~(p.start <= r.key[3] /\ r.key[3] <= p.day) /\ ~TooEarly(p, r))
        <4>1. CASE byDay
          BY <1>3, <1>4, <2>3, <4>1 DEF RecomputePlan
        <4>2. CASE ~byDay
          <5>1. r.dataset \notin DatasetsOf(p.spec)
            BY <1>3, <1>4, <4>2 DEF RecomputePlan
          <5>2. p.spec \in Published
            BY DEF ScreeningInv, CacheIsPlanned
          <5> QED
            BY <5>1, <5>2, RestatedConstants DEF DatasetsOf
        <4> QED
          BY <4>1, <4>2
      <3>2. ValuesOf(p)' = ValuesOf(p)
        BY <1>1, <3>1, RestatedElsewhere DEF ScreeningInv
      <3>3. PICK q \in told : TooEarly(p, q)
        BY <1>1, <1>4, <2>1, <3>2 DEF ScreeningInv, StaleIsSelected, TooEarly
      <3> QED
        BY <1>2, <3>3
    <2> QED
      BY <2>2, <2>3
  <1>5. StaleIsSelected'
    BY <1>1, <1>4 DEF StaleIsSelected, TooEarly
  <1>6. pending' \in [datasets : SUBSET {q.dataset : q \in Restatements},
                      specs : SUBSET Published, days : SUBSET Int]
    <2>1. r.key[3] \in Int /\ r.dataset \in {q.dataset : q \in Restatements}
      BY RestatedConstants
    <2> QED
      BY <1>2, <2>1 DEF ScreeningInv, ScreeningTypeOK
  <1>7. DOMAIN data' = DOMAIN data /\ release' = release /\ told' \subseteq Restatements
    BY <1>1, <1>2 DEF Restate, ScreeningInv, ScreeningTypeOK
  <1> QED
    BY <1>5, <1>6, <1>7 DEF ScreeningInv, ScreeningTypeOK

LEMMA RecomputeKeepsSelection ==
    ASSUME ScreeningInv, Recompute
    PROVE  StaleIsSelected' /\ CacheIsPlanned' /\ ScreeningTypeOK'
  <1>1. /\ cache' = [p \in DOMAIN cache |->
                        IF p \in RecomputePlan(DOMAIN cache, pending) THEN ValuesOf(p) ELSE cache[p]]
        /\ data' = data /\ pending' = NoChange /\ release' = release + 1
        /\ told' = {r \in told : r.dataset \notin pending.datasets}
    BY DEF Recompute
  <1>2. DOMAIN cache' = DOMAIN cache
    BY <1>1
  <1>3. ASSUME NEW p \in DOMAIN cache, cache'[p] # ValuesOf(p)'
        PROVE  \E r \in told' : TooEarly(p, r)
    <2>1. ValuesOf(p)' = ValuesOf(p)
      BY <1>1 DEF ValuesOf
    <2>2. p \notin RecomputePlan(DOMAIN cache, pending) /\ cache[p] # ValuesOf(p)
      BY <1>1, <1>3, <2>1
    <2>3. PICK r \in told : TooEarly(p, r)
      BY <2>2 DEF ScreeningInv, StaleIsSelected, TooEarly
    <2>4. r.dataset \in DatasetsOf(p.spec)
      <3>1. p.spec \in Published /\ r \in Restatements
        BY DEF ScreeningInv, CacheIsPlanned, ScreeningTypeOK
      <3>2. r.key[1] \in RequiredInputs(p.spec.formula)
        BY <2>3 DEF TooEarly, LooksBackTo
      <3> QED
        BY <3>1, <3>2, RestatedConstants DEF DatasetsOf
    <2>5. r.dataset \notin pending.datasets
      BY <2>2, <2>4 DEF RecomputePlan
    <2> QED
      BY <1>1, <2>3, <2>5
  <1>4. StaleIsSelected'
    BY <1>2, <1>3 DEF StaleIsSelected, TooEarly
  <1>5. CacheIsPlanned'
    BY <1>2 DEF ScreeningInv, CacheIsPlanned
  <1> QED
    BY <1>1, <1>4, <1>5 DEF ScreeningInv, ScreeningTypeOK, NoChange

LEMMA ScreeningNextKeeps == ScreeningInv /\ [ScreeningNext]_screeningVars => ScreeningInv'
  <1> SUFFICES ASSUME ScreeningInv, [ScreeningNext]_screeningVars PROVE ScreeningInv'
    OBVIOUS
  <1>1. ASSUME NEW specs \in SUBSET Published, PlanCache(specs) PROVE ScreeningInv'
    BY <1>1, PlanIsPlanned DEF ScreeningInv, ScreeningTypeOK, PlanCache
  <1>2. ASSUME NEW r \in Restatements, NEW byDay \in BOOLEAN, Restate(r, byDay) PROVE ScreeningInv'
    BY <1>2, RestateKeepsSelection DEF ScreeningInv, CacheIsPlanned, Restate
  <1>3. ASSUME Recompute PROVE ScreeningInv'
    BY <1>3, RecomputeKeepsSelection DEF ScreeningInv
  <1>4. ASSUME UNCHANGED <<data, cache, pending, told, release>> PROVE ScreeningInv'
    <2>1. \A p \in DOMAIN cache : ValuesOf(p)' = ValuesOf(p)
      BY <1>4 DEF ValuesOf
    <2>2. StaleIsSelected'
      BY <1>4, <2>1 DEF ScreeningInv, StaleIsSelected
    <2>3. ScreeningTypeOK' /\ CacheIsPlanned'
      BY <1>4 DEF ScreeningInv, ScreeningTypeOK, CacheIsPlanned
    <2> QED
      BY <2>2, <2>3 DEF ScreeningInv
  <1>5. ASSUME NEW s \in Screens, NEW b \in Batches, NEW day \in Range(PlannedDays), RunScreen(s, b, day)
        PROVE  ScreeningInv'
    BY <1>4, <1>5 DEF RunScreen
  <1> QED
    BY <1>1, <1>2, <1>3, <1>4, <1>5 DEF ScreeningNext, screeningVars

\* plan_incremental_factor_recompute: a partition of the factor cache that the
\* recompute of the pending changes leaves holds what the data give, whatever
\* nested windows its formula has and however days and datasets are restated,
\* unless a day before the planned ones, within its look-back, was restated and
\* told by its day: of those, and only of those, the engine loses track.
THEOREM StalePartitionsAreSelected == ScreeningSpec => []StaleIsSelected
  <1>1. ScreeningInit => ScreeningInv
    BY DEF ScreeningInit, ScreeningInv, ScreeningTypeOK, CacheIsPlanned, StaleIsSelected, NoChange
  <1>2. ScreeningInv => StaleIsSelected
    BY DEF ScreeningInv
  <1> QED
    BY <1>1, <1>2, ScreeningNextKeeps, PTL DEF ScreeningSpec

-----------------------------------------------------------------------------
(* Screens                                                                 *)

Pinned(run) == {"factor_values", "universe"} \subseteq DOMAIN run.screen.versions

\* A pinned screen ran over the universe and the factor values it names; as
\* long as those are in the cache, it is what a screen over them gives now.
RunIsPinned(run) ==
    LET version == run.screen.versions["factor_values"]
    IN  /\ run.universe = run.screen.versions["universe"]
        /\ version \in 0..release
        /\ version = release =>
              run.result = Screened(run.screen, run.batch, run.universe, FactorResults(run.day))

PinnedRuns == \A run \in runs : Pinned(run) => RunIsPinned(run)

RunsRepeat ==
    \A a, b \in runs :
        a.screen = b.screen /\ a.batch = b.batch /\ a.day = b.day /\ Pinned(a) =>
            a.universe = b.universe /\ a.result = b.result

RunsInv == release \in Nat /\ PinnedRuns /\ RunsRepeat

LEMMA PinnedRunsAge ==
    ASSUME RunsInv, release' = release + 1, runs' = runs
    PROVE  RunsInv'
  <1>1. ASSUME NEW run \in runs, Pinned(run) PROVE RunIsPinned(run)'
    <2>1. RunIsPinned(run)
      BY <1>1 DEF RunsInv, PinnedRuns
    <2> DEFINE version == run.screen.versions["factor_values"]
    <2>2. version \in 0..release /\ run.universe = run.screen.versions["universe"]
      BY <2>1 DEF RunIsPinned
    <2> HIDE DEF version
    <2>3. version \in 0..(release + 1) /\ version # release + 1
      BY <2>2 DEF RunsInv
    <2> QED
      BY <2>2, <2>3 DEF RunIsPinned, version
  <1> QED
    BY <1>1 DEF RunsInv, PinnedRuns, RunsRepeat

LEMMA PinnedRunsStay ==
    ASSUME RunsInv, UNCHANGED <<cache, release, runs>>
    PROVE  RunsInv'
  <1>1. \A day : FactorResults(day)' = FactorResults(day)
    BY DEF FactorResults, CachedValues
  <1>2. \A run \in runs : RunIsPinned(run)' = RunIsPinned(run)
    BY <1>1 DEF RunIsPinned
  <1> QED
    BY <1>2 DEF RunsInv, PinnedRuns, RunsRepeat

LEMMA RunScreenRepeats ==
    ASSUME RunsInv, NEW screen \in Screens, NEW batch \in Batches, NEW day \in Range(PlannedDays),
           RunScreen(screen, batch, day)
    PROVE  RunsInv'
  <1> DEFINE universe == UniverseOn(Universe, day, Bars(day))
             results == FactorResults(day)
             result == Screened(screen, batch, universe, results)
  <1>0. PICK new : new = [screen |-> screen, batch |-> batch, day |-> day,
                          universe |-> universe, result |-> result]
    OBVIOUS
  <1>1. /\ runs' = runs \cup {new} /\ UNCHANGED <<cache, release>>
        /\ AcceptsUniverse(screen, universe) /\ AcceptsFactors(screen, results)
    BY <1>0 DEF RunScreen
  <1>2. \A d : FactorResults(d)' = FactorResults(d)
    BY <1>1 DEF FactorResults, CachedValues
  <1>3. \A run \in runs : RunIsPinned(run)' = RunIsPinned(run)
    BY <1>1, <1>2 DEF RunIsPinned
  <1>4. ASSUME Pinned(new)
        PROVE  screen.versions["factor_values"] = release /\ universe = screen.versions["universe"]
    <2>1. "factor_values" \in DOMAIN screen.versions /\ "universe" \in DOMAIN screen.versions
      BY <1>0, <1>4 DEF Pinned
    <2>2. PICK f \in Range(screen.factors) : TRUE
      <3>1. screen.factors \in Seq(Range(screen.factors)) /\ screen.factors # <<>>
        BY ScreeningConstants DEF ValidScreen
      <3>2. 1 \in DOMAIN screen.factors
        BY <3>1
      <3> DEFINE factors == screen.factors
      <3>3. factors[1] \in Range(factors)
        BY <3>2 DEF Range
      <3> QED
        BY ONLY <3>3
    <2>3. f.id \in DOMAIN results /\ results[f.id].version = screen.versions["factor_values"]
      <3> HIDE DEF results
      <3> QED
        BY <1>1, <2>1, <2>2 DEF AcceptsFactors
    <2>4. \A id \in DOMAIN results : results[id].version = release
      BY DEF FactorResults
    <2>5. universe = screen.versions["universe"]
      <3> HIDE DEF universe
      <3> QED
        BY <1>1, <2>1 DEF AcceptsUniverse
    <2> HIDE DEF results, universe
    <2> QED
      BY <2>3, <2>4, <2>5
  <1>5. new.screen = screen /\ new.batch = batch /\ new.day = day /\ new.universe = universe /\ new.result = result
    BY <1>0
  <1>6. Pinned(new) => RunIsPinned(new)'
    <2> SUFFICES ASSUME Pinned(new) PROVE RunIsPinned(new)'
      OBVIOUS
    <2>1. screen.versions["factor_values"] = release /\ universe = screen.versions["universe"] /\ release \in 0..release
      BY <1>4 DEF RunsInv
    <2> HIDE DEF universe
    <2> QED
      BY <1>1, <1>2, <1>5, <2>1 DEF RunIsPinned
  <1>7. PinnedRuns'
    BY <1>1, <1>3, <1>6 DEF RunsInv, PinnedRuns
  <1>8. ASSUME NEW run \in runs, run.screen = screen, run.batch = batch, run.day = day, Pinned(run)
        PROVE  run.universe = universe /\ run.result = result /\ Pinned(new)
    <2>1. Pinned(new)
      BY <1>5, <1>8 DEF Pinned
    <2>2. screen.versions["factor_values"] = release /\ universe = screen.versions["universe"]
      BY <1>4, <2>1
    <2>3. RunIsPinned(run)
      BY <1>8 DEF RunsInv, PinnedRuns
    <2> HIDE DEF universe
    <2> QED
      BY <1>8, <2>1, <2>2, <2>3 DEF RunIsPinned
  <1> HIDE DEF universe, result
  <1>9. RunsRepeat'
    <2> SUFFICES ASSUME NEW a \in runs', NEW b \in runs',
                        a.screen = b.screen, a.batch = b.batch, a.day = b.day, Pinned(a)
                 PROVE  a.universe = b.universe /\ a.result = b.result
      BY DEF RunsRepeat
    <2>1. Pinned(b)
      BY DEF Pinned
    <2>2. CASE a \in runs /\ b \in runs
      BY <2>2 DEF RunsInv, RunsRepeat
    <2>3. CASE a \in runs /\ b = new
      BY <1>5, <1>8, <2>3
    <2>4. CASE a = new /\ b \in runs
      BY <1>5, <1>8, <2>1, <2>4
    <2>5. CASE a = new /\ b = new
      BY <2>5
    <2> QED
      BY <1>1, <2>2, <2>3, <2>4, <2>5
  <1> QED
    BY <1>1, <1>7, <1>9 DEF RunsInv

LEMMA NothingChanged ==
    ASSUME NEW a, NEW b, a.screen = b.screen, a.day = b.day, a.result = b.result
    PROVE  MismatchReasons(a, b) = {} /\ \A change \in Range(Compared(a, b)) : change = {}
  <1>1. MismatchReasons(a, b) = {}
    BY DEF MismatchReasons
  <1> DEFINE c == Compared(a, b)
  <1>2. c.added = {} /\ c.removed = {} /\ c.statusChanges = {} /\ c.rankChanges = {}
    BY DEF Compared
  <1>3. DOMAIN c = {"added", "removed", "statusChanges", "rankChanges"}
    BY DEF Compared
  <1> HIDE DEF c
  <1>4. \A change \in Range(c) : change = {}
    BY <1>2, <1>3 DEF Range
  <1> QED
    BY <1>1, <1>4 DEF c

\* Whoever runs a screen that pins the universe and the factor values again,
\* after whatever was restated and computed again in between, is either
\* refused or finds neither a mismatch nor a change.
THEOREM PinnedScreensReproduce == ScreeningSpec => []ScreensReproduce
  <1>1. ScreeningInit => RunsInv
    BY DEF ScreeningInit, RunsInv, PinnedRuns, RunsRepeat
  <1>2. RunsInv /\ [ScreeningNext]_screeningVars => RunsInv'
    <2> SUFFICES ASSUME RunsInv, [ScreeningNext]_screeningVars PROVE RunsInv'
      OBVIOUS
    <2>1. ASSUME NEW specs \in SUBSET Published, PlanCache(specs) PROVE RunsInv'
      BY <2>1, PinnedRunsAge DEF PlanCache
    <2>2. ASSUME NEW r \in Restatements, NEW byDay \in BOOLEAN, Restate(r, byDay) PROVE RunsInv'
      BY <2>2, PinnedRunsStay DEF Restate
    <2>3. ASSUME Recompute PROVE RunsInv'
      BY <2>3, PinnedRunsAge DEF Recompute
    <2>4. ASSUME NEW s \in Screens, NEW b \in Batches, NEW day \in Range(PlannedDays), RunScreen(s, b, day)
          PROVE  RunsInv'
      BY <2>4, RunScreenRepeats
    <2>5. ASSUME UNCHANGED screeningVars PROVE RunsInv'
      BY <2>5, PinnedRunsStay DEF screeningVars
    <2> QED
      BY <2>1, <2>2, <2>3, <2>4, <2>5 DEF ScreeningNext
  <1>3. RunsInv => ScreensReproduce
    <2> SUFFICES ASSUME RunsInv, NEW a \in runs, NEW b \in runs,
                        a.screen = b.screen, a.batch = b.batch, a.day = b.day, Pinned(a)
                 PROVE  MismatchReasons(a, b) = {} /\ \A change \in Range(Compared(a, b)) : change = {}
      BY DEF ScreensReproduce, Pinned
    <2>1. a.result = b.result
      BY DEF RunsInv, RunsRepeat
    <2> QED
      BY <2>1, NothingChanged
  <1> QED
    BY <1>1, <1>2, <1>3, PTL DEF ScreeningSpec

-----------------------------------------------------------------------------
(* The results of a screen                                                 *)

\* Whoever passes the gate was before it.
LEMMA GatePassesItsOwn ==
    ASSUME NEW screen, NEW scores, NEW industry, IsFiniteSet(DOMAIN scores)
    PROVE  RiskGate(screen, scores, industry).passed \subseteq DOMAIN scores
  <1> DEFINE D == DOMAIN scores
             n == Cardinality(D)
             order == SetToSortSeq(DOMAIN scores, LAMBDA i, j :
                          scores[i] > scores[j] \/ (scores[i] = scores[j] /\ i < j))
             Full(passed, i) ==
                 /\ screen.maxPerIndustry # Missing
                 /\ Cardinality({j \in passed : industry[j] = industry[i]})
                       >= screen.maxPerIndustry
             Pass(before, k) ==
                 LET next == DOMAIN scores \cap {order[k]}
                     capped == {i \in next : Full(before.passed, i)}
                     open == Cardinality(before.passed) < screen.topN
                 IN  [passed |-> before.passed \cup
                                    (IF open THEN next \ capped ELSE {}),
                      capped |-> before.capped \cup capped]
             Of(g, k) == IF k = 0 THEN [passed |-> {}, capped |-> {}] ELSE Pass(g[k - 1], k)
             Upto(m, g) == g = [k \in 0..n |-> g[k]] /\ \A k \in 0..m : g[k] = Of(g, k)
             T == {m \in 0..n : \E g : Upto(m, g)}
  <1>1. n \in Nat
    BY FS_CardinalityType
  <1> HIDE DEF n
  <1>2. 0 \in T
    <2> HIDE DEF Pass
    <2>1. Upto(0, [k \in 0..n |-> [passed |-> {}, capped |-> {}]])
      BY <1>1
    <2> HIDE DEF Upto
    <2> QED
      BY <1>1, <2>1
  <1>3. ASSUME NEW m \in 1..n, m - 1 \in T PROVE m \in T
    <2> HIDE DEF Pass
    <2>1. PICK g : Upto(m - 1, g)
      BY <1>3
    <2> DEFINE h == [k \in 0..n |-> IF k = m THEN Of(g, m) ELSE g[k]]
    <2>2. ASSUME NEW k \in 0..m PROVE Of(h, k) = Of(g, k)
      <3>1. k # 0 => k - 1 \in 0..n /\ k - 1 # m
        BY <1>1
      <3>2. k # 0 => h[k - 1] = g[k - 1]
        BY <3>1
      <3> HIDE DEF h
      <3> QED
        BY <3>2
    <2>3. ASSUME NEW k \in 0..m PROVE h[k] = Of(g, k)
      <3>1. k \in 0..n /\ (k # m => k \in 0..(m - 1))
        BY <1>1
      <3> HIDE DEF Of
      <3> QED
        BY <2>1, <3>1
    <2>4. h = [k \in 0..n |-> h[k]]
      OBVIOUS
    <2>5. Upto(m, h)
      <3> HIDE DEF h, Of
      <3> QED
        BY <2>2, <2>3, <2>4
    <2> HIDE DEF Upto
    <2> QED
      BY <2>5
  <1>4. n \in T
    <2> HIDE DEF T
    <2>1. 0..n \subseteq T
      BY <1>1, <1>2, <1>3, Climb
    <2> QED
      BY <1>1, <2>1
  <1>5. PICK g : Upto(n, g)
    BY <1>4
  <1>6. g = [k \in 0..n |-> Of(g, k)]
    <2> HIDE DEF Of
    <2> QED
      BY <1>1, <1>5
  <1> DEFINE gate == CHOOSE f : f = [k \in 0..n |-> Of(f, k)]
  <1>7. gate = [k \in 0..n |-> Of(gate, k)]
    <2> HIDE DEF Of
    <2> QED
      BY <1>6
  <1>8. RiskGate(screen, scores, industry) = gate[n]
    BY DEF RiskGate, n
  <1> HIDE DEF gate
  <1>9. \A k \in 0..n : gate[k] = Of(gate, k)
    <2> HIDE DEF Of
    <2> QED
      BY <1>7
  <1> DEFINE S == {k \in 0..n : gate[k].passed \subseteq D}
  <1>10. 0 \in S
    <2> HIDE DEF Pass
    <2>1. 0 \in 0..n /\ gate[0] = [passed |-> {}, capped |-> {}]
      BY <1>1, <1>9
    <2> QED
      BY <2>1
  <1>11. ASSUME NEW k \in 1..n, k - 1 \in S PROVE k \in S
    <2>1. k \in 0..n /\ k # 0
      BY <1>1
    <2>2. gate[k] = Pass(gate[k - 1], k)
      <3> HIDE DEF Pass
      <3> QED
        BY <1>9, <2>1
    <2>3. Pass(gate[k - 1], k).passed \subseteq gate[k - 1].passed \cup D
      <3> HIDE DEF order, Full
      <3> QED
        OBVIOUS
    <2> HIDE DEF Pass, D
    <2> QED
      BY <1>11, <2>1, <2>2, <2>3
  <1>12. n \in S
    <2> HIDE DEF S
    <2>1. 0..n \subseteq S
      BY <1>1, <1>10, <1>11, Climb
    <2> QED
      BY <1>1, <2>1
  <1> QED
    BY <1>8, <1>12

\* A batch proposes finitely many instruments.
LEMMA ProposedAreFinite ==
    ASSUME NEW screen \in Screens, NEW batch \in Batches
    PROVE  IsFiniteSet({c.inst : c \in Range(Proposed(screen, batch))})
  <1> DEFINE s == batch.candidates
             m == Min({screen.maxCandidates, Len(s)})
             p == SubSeq(s, 1, m)
             places == DOMAIN p
  <1>1. s \in Seq(Range(s)) /\ screen.maxCandidates \in Nat
    BY ScreeningConstants
  <1>2. Len(s) \in Nat /\ DOMAIN s = 1..Len(s)
    BY <1>1
  <1>3. m \in Nat /\ m <= Len(s)
    <2>1. CASE screen.maxCandidates <= Len(s)
      <3>1. m = screen.maxCandidates
        BY <1>1, <1>2, <2>1 DEF Min
      <3> QED
        BY <1>1, <2>1, <3>1
    <2>2. CASE Len(s) < screen.maxCandidates
      <3>1. m = Len(s)
        BY <1>1, <1>2, <2>2 DEF Min
      <3> QED
        BY <1>2, <3>1
    <2> QED
      BY <1>1, <1>2, <2>1, <2>2
  <1> HIDE DEF m
  <1>4. places = 1..m
    BY <1>1, <1>2, <1>3
  <1>5. IsFiniteSet(places)
    <2>1. 1 \in Int /\ m \in Int
      BY <1>3
    <2> QED
      BY <1>4, <2>1, FS_Interval
  <1> DEFINE image == {p[x].inst : x \in places}
             f == [x \in places |-> p[x].inst]
  <1> HIDE DEF p, places
  <1>6. f \in Surjection(places, image)
    BY DEF Surjection
  <1>7. IsFiniteSet(image)
    <2> HIDE DEF image, f
    <2> QED
      BY <1>5, <1>6, FS_Surjection
  <1>8. {c.inst : c \in Range(p)} = image
    BY DEF Range, places
  <1>9. Proposed(screen, batch) = p
    BY DEF Proposed, p, m
  <1> QED
    BY <1>7, <1>8, <1>9

LEMMA MembersAreFinite ==
    ASSUME NEW day, NEW bars
    PROVE  IsFiniteSet(UniverseOn(Universe, day, bars).members)
  <1> DEFINE members == UniverseOn(Universe, day, bars).members
             f == [r \in Listings |-> r.inst]
             image == {r.inst : r \in Listings}
  <1>1. members \subseteq image
    BY DEF UniverseOn, EffectiveListings
  <1>2. f \in Surjection(Listings, image)
    BY DEF Surjection
  <1> HIDE DEF members, f, image
  <1>3. IsFiniteSet(image)
    BY <1>2, FS_Surjection, ScreeningConstants
  <1> QED
    BY <1>1, <1>3, FS_Subset DEF members

\* A member fails no rule.
LEMMA MembersCouldBeTraded ==
    ASSUME NEW day, NEW bars, NEW i \in UniverseOn(Universe, day, bars).members
    PROVE  /\ \E l \in EffectiveListings(day) : l.inst = i /\ Listed(l, day)
           /\ Universe.excludeSuspended => <<i, day>> \notin Suspensions
  <1> DEFINE Failed(r) == {k \in DOMAIN RulesInOrder :
                              FailsRule(RulesInOrder[k], Universe, r, day, bars)}
  <1>1. UniverseOn(Universe, day, bars).members = {r.inst : r \in {q \in EffectiveListings(day) : Failed(q) = {}}}
    BY DEF UniverseOn
  <1>2. PICK r \in EffectiveListings(day) : r.inst = i /\ Failed(r) = {}
    BY <1>1
  <1>3. /\ 1 \in DOMAIN RulesInOrder /\ RulesInOrder[1] = "listing_status_active"
        /\ 4 \in DOMAIN RulesInOrder /\ RulesInOrder[4] = "not_suspended"
    BY DEF RulesInOrder
  <1>4. ~FailsRule("listing_status_active", Universe, r, day, bars) /\ ~FailsRule("not_suspended", Universe, r, day, bars)
    BY <1>2, <1>3
  <1> QED
    BY <1>2, <1>4 DEF FailsRule

LEMMA ScreenedIsAccounted ==
    ASSUME NEW screen, NEW batch, NEW universe, NEW results, IsFiniteSet(universe.members),
           IsFiniteSet({c.inst : c \in Range(Proposed(screen, batch))})
    PROVE  LET result == Screened(screen, batch, universe, results)
               proposed == {c.inst : c \in Range(Proposed(screen, batch))}
           IN  /\ proposed \cup universe.members # {} => MakesSnapshot(result)
               /\ {f[1] : f \in result.failed} \cup result.passed = proposed \cup universe.members
               /\ result.passed \subseteq universe.members
  <1> DEFINE members == universe.members
             candidate == [i \in {c.inst : c \in Range(Proposed(screen, batch))} |->
                             CHOOSE c \in Range(Proposed(screen, batch)) : c.inst = i]
             proposed == DOMAIN candidate
             inUniverse == proposed \cap members
             valued == {i \in inUniverse : \A f \in Range(screen.factors) :
                           i \in DOMAIN results[f.id].values}
             raw == [i \in valued |-> RawScore(screen, results, i)]
             scores == FinalScores(screen, batch, raw, candidate)
             industry == [i \in valued |-> IF candidate[i].industry # Missing
                                           THEN candidate[i].industry
                                           ELSE IndustryOf[i]]
             gate == IF valued = {} THEN [passed |-> {}, capped |-> {}]
                     ELSE RiskGate(screen, scores, industry)
             FinalReason(i) == IF i \in gate.capped THEN "max_per_industry" ELSE "top_n"
             result == Screened(screen, batch, universe, results)
             failed == {<<i, "l0_universe_member">> : i \in proposed \ members}
                         \cup {<<i, "l1_provider_candidate_missing">> : i \in members \ proposed}
                         \cup {<<i, "l2_factor_value_missing">> : i \in inUniverse \ valued}
                         \cup {<<i, FinalReason(i)>> : i \in valued \ gate.passed}
             Reason(i) == IF i \notin members THEN "l0_universe_member"
                          ELSE IF i \notin proposed THEN "l1_provider_candidate_missing"
                          ELSE IF i \notin valued THEN "l2_factor_value_missing"
                          ELSE FinalReason(i)
             instruments == {f[1] : f \in failed}
  <1>1. result.passed = gate.passed /\ result.failed = failed
    BY DEF Screened
  <1>2. proposed = {c.inst : c \in Range(Proposed(screen, batch))}
    OBVIOUS
  <1>3. DOMAIN scores = valued
    <2> HIDE DEF candidate
    <2> QED
      BY DEF FinalScores
  <1>4. IsFiniteSet(proposed \cup members) /\ valued \subseteq inUniverse
    <2> HIDE DEF candidate
    <2> QED
      BY <1>2, FS_Union
  <1>5. IsFiniteSet(valued)
    <2>1. valued \in SUBSET (proposed \cup members)
      OBVIOUS
    <2> HIDE DEF valued, proposed
    <2> QED
      BY <1>4, <2>1, FS_Subset
  <1>6. gate.passed \subseteq valued
    <2>1. CASE valued = {}
      BY <2>1
    <2>2. CASE valued # {}
      <3> HIDE DEF scores, valued, industry
      <3>1. RiskGate(screen, scores, industry).passed \subseteq DOMAIN scores
        BY <1>3, <1>5, GatePassesItsOwn
      <3> QED
        BY <1>3, <2>2, <3>1
    <2> QED
      BY <2>1, <2>2
  <1> HIDE DEF gate, valued, candidate, FinalReason
  <1>7. \A q \in failed : q = <<q[1], Reason(q[1])>>
    BY <1>4
  <1>8. instruments = (proposed \cup members) \ gate.passed
    <2> DEFINE firsts == (proposed \ members) \cup (members \ proposed) \cup (inUniverse \ valued) \cup (valued \ gate.passed)
    <2>1. ASSUME NEW i \in instruments PROVE i \in firsts
      <3>1. PICK q \in failed : q[1] = i
        OBVIOUS
      <3> QED
        BY <3>1
    <2>2. ASSUME NEW i \in firsts PROVE i \in instruments
      <3>1. <<i, Reason(i)>> \in failed
        BY <1>4
      <3>2. <<i, Reason(i)>>[1] = i
        OBVIOUS
      <3> HIDE DEF failed, Reason
      <3> QED
        BY <3>1, <3>2
    <2>3. firsts = (proposed \cup members) \ gate.passed
      BY <1>4, <1>6
    <2> HIDE DEF instruments, firsts
    <2> QED
      BY <2>1, <2>2, <2>3
  <1>9. IsFiniteSet(instruments)
    <2>1. instruments \in SUBSET (proposed \cup members)
      BY <1>8
    <2> HIDE DEF instruments, proposed
    <2> QED
      BY <1>4, <2>1, FS_Subset
  <1> DEFINE first == [q \in failed |-> q[1]]
  <1>10. first \in Bijection(failed, instruments)
    <2> HIDE DEF failed, Reason
    <2>1. first \in [failed -> instruments] /\ \A i \in instruments : \E q \in failed : first[q] = i
      OBVIOUS
    <2>2. \A q, r \in failed : first[q] = first[r] => q = r
      BY <1>7
    <2> HIDE DEF first, instruments
    <2> QED
      BY <2>1, <2>2 DEF Bijection, Injection, Surjection, IsInjective
  <1>11. Cardinality(instruments) = Cardinality(failed)
    <2> HIDE DEF instruments, failed, first
    <2>1. first \in Injection(failed, instruments) /\ first \in Surjection(failed, instruments)
      BY <1>10 DEF Bijection
    <2>2. IsFiniteSet(failed) /\ Cardinality(failed) <= Cardinality(instruments)
      BY <1>9, <2>1, FS_Injection
    <2>3. Cardinality(instruments) <= Cardinality(failed)
      BY <2>1, <2>2, FS_Surjection
    <2>4. Cardinality(instruments) \in Nat /\ Cardinality(failed) \in Nat
      BY <1>9, <2>2, FS_CardinalityType
    <2> QED
      BY <2>2, <2>3, <2>4
  <1>12. gate.passed \subseteq members /\ gate.passed \subseteq proposed
    BY <1>4, <1>6
  <1>13. instruments \cup gate.passed = proposed \cup members /\ instruments \cap gate.passed = {}
    BY <1>8, <1>12
  <1> HIDE DEF result, failed
  <1>14. proposed \cup members # {} => MakesSnapshot(result)
    BY <1>1, <1>11, <1>13 DEF MakesSnapshot
  <1> HIDE DEF proposed
  <1> QED
    BY <1>1, <1>2, <1>12, <1>13, <1>14 DEF result

LEMMA RunIsAccounted ==
    ASSUME EveryResultIsAccounted, NEW screen \in Screens, NEW batch \in Batches,
           NEW day \in Range(PlannedDays), RunScreen(screen, batch, day)
    PROVE  EveryResultIsAccounted'
  <1> DEFINE universe == UniverseOn(Universe, day, Bars(day))
             result == Screened(screen, batch, universe, FactorResults(day))
             proposed == {c.inst : c \in Range(Proposed(screen, batch))}
  <1>1. PICK new : new = [screen |-> screen, batch |-> batch, day |-> day,
                          universe |-> universe, result |-> result]
    OBVIOUS
  <1>2. runs' = runs \cup {new}
    BY <1>1 DEF RunScreen
  <1>3. IsFiniteSet(universe.members) /\ IsFiniteSet(proposed)
    BY ProposedAreFinite, MembersAreFinite
  <1>4. /\ proposed \cup universe.members # {} => MakesSnapshot(result)
        /\ {f[1] : f \in result.failed} \cup result.passed = proposed \cup universe.members
        /\ result.passed \subseteq universe.members
    BY <1>3, ScreenedIsAccounted
  <1>5. ASSUME NEW i \in result.passed
        PROVE  /\ \E l \in EffectiveListings(day) : l.inst = i /\ Listed(l, day)
               /\ Universe.excludeSuspended => <<i, day>> \notin Suspensions
    <2>1. i \in universe.members
      BY <1>4
    <2> QED
      BY <2>1, MembersCouldBeTraded
  <1>6. new.screen = screen /\ new.batch = batch /\ new.day = day /\ new.universe = universe /\ new.result = result
    BY <1>1
  <1> HIDE DEF universe, result
  <1>7. ASSUME NEW run \in runs'
        PROVE  LET pr == {c.inst : c \in Range(Proposed(run.screen, run.batch))}
               IN  /\ pr \cup run.universe.members # {} => MakesSnapshot(run.result)
                   /\ {f[1] : f \in run.result.failed} \cup run.result.passed = pr \cup run.universe.members
                   /\ \A i \in run.result.passed :
                         /\ \E l \in EffectiveListings(run.day) : l.inst = i /\ Listed(l, run.day)
                         /\ Universe.excludeSuspended => <<i, run.day>> \notin Suspensions
    <2>1. CASE run \in runs
      BY <2>1 DEF EveryResultIsAccounted
    <2>2. CASE run = new
      BY <1>4, <1>5, <1>6, <2>2
    <2> QED
      BY <1>2, <2>1, <2>2
  <1> QED
    BY <1>7 DEF EveryResultIsAccounted

\* A snapshot has exactly one result of each instrument that was proposed or
\* is in the historical universe, and whoever passes the five stages was
\* listed and, where the universe asks for it, not suspended on that day.
THEOREM ResultsAreAccounted == ScreeningSpec => []EveryResultIsAccounted
  <1>1. ScreeningInit => EveryResultIsAccounted
    BY DEF ScreeningInit, EveryResultIsAccounted
  <1>2. EveryResultIsAccounted /\ [ScreeningNext]_screeningVars => EveryResultIsAccounted'
    <2> SUFFICES ASSUME EveryResultIsAccounted, [ScreeningNext]_screeningVars
                 PROVE  EveryResultIsAccounted'
      OBVIOUS
    <2>1. CASE runs' = runs
      BY <2>1 DEF EveryResultIsAccounted
    <2>2. ASSUME NEW s \in Screens, NEW b \in Batches, NEW day \in Range(PlannedDays), RunScreen(s, b, day)
          PROVE  EveryResultIsAccounted'
      BY <2>2, RunIsAccounted
    <2> QED
      BY <2>1, <2>2 DEF ScreeningNext, screeningVars, PlanCache, Restate, Recompute
  <1> QED
    BY <1>1, <1>2, PTL DEF ScreeningSpec

-----------------------------------------------------------------------------
(* Sums over finite sets                                                   *)

\* What holds of {}, and of a set when it holds of its proper parts, holds of
\* all parts of a finite set.
LEMMA SubsetInduction ==
    ASSUME NEW A, IsFiniteSet(A), NEW Good, {} \in Good,
           \A s \in SUBSET A : s # {} /\ (\A t \in SUBSET s : t # s => t \in Good) => s \in Good
    PROVE  \A s \in SUBSET A : s \in Good
  <1> SUFFICES ASSUME NEW b \in SUBSET A, b \notin Good PROVE FALSE
    OBVIOUS
  <1> DEFINE Bad == {s \in SUBSET A : s \notin Good}
  <1>1. Bad \subseteq FiniteSubsetsOf(A) /\ Bad # {}
    BY FS_Subset DEF FiniteSubsetsOf
  <1>2. IsWellFoundedOn(StrictSubsetOrdering(A), FiniteSubsetsOf(A))
    BY FS_StrictSubsetOrderingWellFounded
  <1>3. PICK s \in Bad : \A t \in Bad : <<t, s>> \notin StrictSubsetOrdering(A)
    <2> HIDE DEF Bad
    <2> QED
      BY ONLY <1>1, <1>2, WFMin
  <1>4. s # {} /\ s \in SUBSET A /\ s \notin Good
    OBVIOUS
  <1>5. PICK t \in SUBSET s : t # s /\ t \notin Good
    BY <1>4
  <1>6. t \in Bad /\ t \in SUBSET A
    BY <1>4, <1>5
  <1>7. <<t, s>> \in StrictSubsetOrdering(A)
    BY <1>4, <1>5, <1>6 DEF StrictSubsetOrdering
  <1> QED
    BY <1>3, <1>6, <1>7

\* The partial sums of e, one for each set of what it is summed over.
IsSum(f, e) ==
    f = [s \in SUBSET (DOMAIN e) |->
            IF s = {} THEN 0
            ELSE LET x == CHOOSE y \in s : TRUE IN e[x] + f[s \ {x}]]

UpToSize(A, m) == {s \in SUBSET A : Cardinality(s) <= m}

LEMMA SizesDescend ==
    ASSUME NEW A, IsFiniteSet(A)
    PROVE  \A s \in SUBSET A :
              /\ Cardinality(s) \in 0..Cardinality(A) /\ (Cardinality(s) = 0 <=> s = {})
              /\ \A x \in s : Cardinality(s \ {x}) = Cardinality(s) - 1
  <1> SUFFICES ASSUME NEW s \in SUBSET A
               PROVE  /\ Cardinality(s) \in 0..Cardinality(A) /\ (Cardinality(s) = 0 <=> s = {})
                      /\ \A x \in s : Cardinality(s \ {x}) = Cardinality(s) - 1
    OBVIOUS
  <1>1. IsFiniteSet(s) /\ Cardinality(s) <= Cardinality(A)
    BY FS_Subset
  <1>2. Cardinality(s) \in Nat /\ Cardinality(A) \in Nat
    BY <1>1, FS_CardinalityType
  <1>3. Cardinality(s) = 0 <=> s = {}
    BY <1>1, FS_EmptySet
  <1>4. \A x \in s : Cardinality(s \ {x}) = Cardinality(s) - 1
    BY <1>1, FS_RemoveElement
  <1> QED
    BY <1>1, <1>2, <1>3, <1>4

LEMMA SumExists == ASSUME NEW e, IsFiniteSet(DOMAIN e) PROVE \E f : IsSum(f, e)
  <1> DEFINE A == DOMAIN e
             n == Cardinality(A)
             First(s) == CHOOSE y \in s : TRUE
             Added(f, s) == IF s = {} THEN 0 ELSE e[First(s)] + f[s \ {First(s)}]
             Sums(m, f) == f = [s \in UpToSize(A, m) |-> Added(f, s)]
             T == {m \in 0..n : \E f : Sums(m, f)}
  <1>1. n \in Nat
    BY FS_CardinalityType
  <1>2. \A s \in SUBSET A :
           /\ Cardinality(s) \in 0..n /\ (Cardinality(s) = 0 <=> s = {})
           /\ s # {} => First(s) \in s /\ Cardinality(s \ {First(s)}) = Cardinality(s) - 1
    BY SizesDescend
  <1> HIDE DEF n, First, A
  <1>3. 0 \in T
    <2>1. ASSUME NEW s \in UpToSize(A, 0) PROVE s = {}
      <3>1. s \in SUBSET A /\ Cardinality(s) <= 0
        BY DEF UpToSize
      <3>2. Cardinality(s) \in 0..n /\ (Cardinality(s) = 0 <=> s = {})
        BY <1>2, <3>1
      <3>3. Cardinality(s) = 0
        BY <1>1, <3>1, <3>2
      <3> QED
        BY <3>2, <3>3
    <2>2. Sums(0, [s \in UpToSize(A, 0) |-> 0])
      BY <2>1
    <2> HIDE DEF Sums
    <2> QED
      BY <1>1, <2>2
  <1>4. ASSUME NEW m \in 1..n, m - 1 \in T PROVE m \in T
    <2>1. PICK f : Sums(m - 1, f)
      BY <1>4
    <2> DEFINE D == UpToSize(A, m)
               E == UpToSize(A, m - 1)
               g == [s \in D |-> Added(f, s)]
    <2>2. \A s \in D : s # {} => s \ {First(s)} \in E /\ s \ {First(s)} \in D
      BY <1>1, <1>2 DEF UpToSize
    <2>3. ASSUME NEW s \in E PROVE s \in D
      <3>1. s \in SUBSET A /\ Cardinality(s) <= m - 1
        BY DEF UpToSize
      <3>2. Cardinality(s) \in 0..n
        BY <1>2, <3>1
      <3> QED
        BY <1>1, <3>1, <3>2 DEF UpToSize
    <2> HIDE DEF D
    <2>4. \A s \in E : f[s] = Added(f, s)
      BY <2>1
    <2> HIDE DEF E
    <2>5. \A s \in E : g[s] = f[s]
      <3> HIDE DEF Added
      <3> QED
        BY <2>3, <2>4
    <2>6. \A s \in D : g[s] = Added(f, s)
      OBVIOUS
    <2> HIDE DEF g
    <2>7. \A s \in D : Added(g, s) = Added(f, s)
      BY <2>2, <2>5
    <2>8. g = [s \in D |-> g[s]]
      BY DEF g
    <2>9. g = [s \in D |-> Added(g, s)]
      <3> HIDE DEF Added
      <3> QED
        BY <2>6, <2>7, <2>8
    <2>10. Sums(m, g)
      BY <2>9 DEF D
    <2> HIDE DEF Sums
    <2> QED
      BY <2>10
  <1>5. PICK f : Sums(n, f)
    <2> HIDE DEF T
    <2>1. 0..n \subseteq T
      BY <1>1, <1>3, <1>4, Climb
    <2>2. n \in T
      BY <1>1, <2>1
    <2> QED
      BY <2>2 DEF T
  <1>6. UpToSize(A, n) = SUBSET A
    <2>1. ASSUME NEW s \in SUBSET A PROVE Cardinality(s) <= n
      <3>1. Cardinality(s) \in 0..n
        BY <1>2
      <3> QED
        BY <1>1, <3>1
    <2> QED
      BY <2>1 DEF UpToSize
  <1>7. IsSum(f, e)
    BY <1>5, <1>6 DEF IsSum, First, A
  <1> QED
    BY <1>7

\* A partial sum is that of whichever element and the rest.
AddsUp(f, e) ==
    \A s \in SUBSET (DOMAIN e) : f[s] \in Int /\ \A x \in s : f[s] = e[x] + f[s \ {x}]

LEMMA SumInAnyOrder ==
    ASSUME NEW e, IsFiniteSet(DOMAIN e), \A x \in DOMAIN e : e[x] \in Int,
           NEW f, IsSum(f, e)
    PROVE  AddsUp(f, e)
  <1> DEFINE A == DOMAIN e
             Good == {s \in SUBSET A : f[s] \in Int /\ \A x \in s : f[s] = e[x] + f[s \ {x}]}
  <1>1. f[{}] = 0 /\ \A s \in SUBSET A : s # {} => \E y \in s : f[s] = e[y] + f[s \ {y}]
    BY DEF IsSum
  <1>2. {} \in Good
    BY <1>1
  <1>3. ASSUME NEW s \in SUBSET A, s # {}, \A t \in SUBSET s : t # s => t \in Good
        PROVE  s \in Good
    <2>1. PICK y \in s : f[s] = e[y] + f[s \ {y}]
      BY <1>1, <1>3
    <2>2. \A x \in s : s \ {x} \in Good /\ (s \ {x}) \ {y} \in Good
      BY <1>3
    <2>3. \A x \in s : f[s \ {x}] \in Int /\ f[(s \ {x}) \ {y}] \in Int /\ e[x] \in Int
      BY <2>2
    <2>4. ASSUME NEW x \in s, x # y PROVE f[s] = e[x] + f[s \ {x}]
      <3>1. (s \ {y}) \ {x} = (s \ {x}) \ {y} /\ x \in s \ {y} /\ y \in s \ {x}
        BY <2>4
      <3>2. s \ {y} \in Good /\ s \ {x} \in Good
        BY <2>2
      <3>3. f[s \ {y}] = e[x] + f[(s \ {y}) \ {x}] /\ f[s \ {x}] = e[y] + f[(s \ {x}) \ {y}]
        BY ONLY <3>1, <3>2
      <3>4. f[(s \ {x}) \ {y}] \in Int /\ e[x] \in Int /\ e[y] \in Int
        BY <2>3
      <3> DEFINE rest == f[(s \ {x}) \ {y}]
      <3>5. f[s] = e[y] + (e[x] + rest) /\ f[s \ {x}] = e[y] + rest
        BY <2>1, <3>1, <3>3
      <3> HIDE DEF Good, rest
      <3>6. e[y] + (e[x] + rest) = e[x] + (e[y] + rest)
        BY <3>4 DEF rest
      <3> QED
        BY <3>5, <3>6
    <2>5. f[s] \in Int
      <3>1. f[s \ {y}] \in Int /\ e[y] \in Int
        BY <2>3
      <3> HIDE DEF Good
      <3> QED
        BY <2>1, <3>1
    <2> QED
      BY <2>1, <2>4, <2>5
  <1> HIDE DEF Good
  <1>4. \A s \in SUBSET A : s \in Good
    BY <1>2, <1>3, SubsetInduction
  <1> QED
    BY <1>4 DEF Good, AddsUp

\* The sum over a part is the partial sum of the part.
LEMMA SumOfPart ==
    ASSUME NEW e, IsFiniteSet(DOMAIN e), NEW f, IsSum(f, e), NEW B \in SUBSET (DOMAIN e)
    PROVE  SumFunction([x \in B |-> e[x]]) = f[B]
  <1> DEFINE part == [x \in B |-> e[x]]
             g == CHOOSE h : IsSum(h, part)
             Good == {s \in SUBSET B : g[s] = f[s]}
  <1>1. DOMAIN part = B /\ \A x \in B : part[x] = e[x]
    OBVIOUS
  <1>2. IsFiniteSet(B)
    BY FS_Subset
  <1>3. SumFunction(part) = g[B]
    BY <1>1 DEF SumFunction, SumFunctionOnSet, FoldFunctionOnSet, MapThenFoldSet, IsSum
  <1> HIDE DEF part
  <1>4. IsSum(g, part)
    BY <1>1, <1>2, SumExists
  <1> HIDE DEF g
  <1>5. \A s \in SUBSET B : g[s] = IF s = {} THEN 0
                                  ELSE LET x == CHOOSE y \in s : TRUE IN part[x] + g[s \ {x}]
    BY <1>1, <1>4 DEF IsSum
  <1>6. \A s \in SUBSET B : f[s] = IF s = {} THEN 0
                                  ELSE LET x == CHOOSE y \in s : TRUE IN e[x] + f[s \ {x}]
    BY DEF IsSum
  <1>7. {} \in Good
    BY <1>5, <1>6
  <1>8. ASSUME NEW s \in SUBSET B, s # {}, \A t \in SUBSET s : t # s => t \in Good
        PROVE  s \in Good
    <2> DEFINE x == CHOOSE y \in s : TRUE
    <2>1. x \in s
      BY <1>8
    <2>2. g[s] = part[x] + g[s \ {x}] /\ f[s] = e[x] + f[s \ {x}]
      BY <1>5, <1>6, <1>8
    <2> HIDE DEF x
    <2>3. s \ {x} \in Good
      BY <1>8, <2>1
    <2> QED
      BY <1>1, <2>1, <2>2, <2>3
  <1> HIDE DEF Good
  <1>9. \A s \in SUBSET B : s \in Good
    BY <1>2, <1>7, <1>8, SubsetInduction
  <1>10. B \in Good
    BY <1>9
  <1>11. g[B] = f[B]
    BY <1>10 DEF Good
  <1> QED
    BY <1>3, <1>11 DEF part

IsAdditive(F, A) ==
    /\ F[{}] = 0
    /\ \A s \in SUBSET A : F[s] \in Int
    /\ \A s, t \in SUBSET A : s \cap t = {} => F[s \cup t] = F[s] + F[t]

LEMMA PartialSumsAdd ==
    ASSUME NEW e, IsFiniteSet(DOMAIN e), \A x \in DOMAIN e : e[x] \in Int,
           NEW f, IsSum(f, e)
    PROVE  IsAdditive(f, DOMAIN e)
  <1> DEFINE A == DOMAIN e
             Good == {t \in SUBSET A : \A s \in SUBSET A : s \cap t = {} => f[s \cup t] = f[s] + f[t]}
  <1>1. \A s \in SUBSET A : f[s] \in Int /\ \A x \in s : f[s] = e[x] + f[s \ {x}]
    <2>1. AddsUp(f, e)
      BY SumInAnyOrder
    <2> QED
      BY <2>1 DEF AddsUp
  <1>2. f[{}] = 0
    BY DEF IsSum
  <1>3. {} \in Good
    <2>1. \A s \in SUBSET A : s \cup {} = s /\ f[s] + 0 = f[s]
      BY <1>1
    <2> QED
      BY <1>2, <2>1
  <1>4. ASSUME NEW t \in SUBSET A, t # {}, \A p \in SUBSET t : p # t => p \in Good
        PROVE  t \in Good
    <2>1. PICK x \in t : TRUE
      BY <1>4
    <2>2. t \ {x} \in Good /\ t \ {x} \in SUBSET A
      BY <1>4
    <2>3. ASSUME NEW s \in SUBSET A, s \cap t = {} PROVE f[s \cup t] = f[s] + f[t]
      <3>1. (s \cup t) \ {x} = s \cup (t \ {x}) /\ x \in s \cup t /\ s \cup t \in SUBSET A /\ s \cap (t \ {x}) = {}
        BY <2>3
      <3>2. f[s \cup t] = e[x] + f[s \cup (t \ {x})]
        BY <1>1, <3>1
      <3>3. f[s \cup (t \ {x})] = f[s] + f[t \ {x}]
        BY <2>2, <3>1
      <3>4. f[t] = e[x] + f[t \ {x}] /\ f[s] \in Int /\ f[t \ {x}] \in Int /\ e[x] \in Int
        BY <1>1, <2>2
      <3> QED
        BY <3>2, <3>3, <3>4
    <2> QED
      BY <2>3
  <1> HIDE DEF Good
  <1>5. \A t \in SUBSET A : t \in Good
    BY <1>3, <1>4, SubsetInduction
  <1>6. \A t, s \in SUBSET A : s \cap t = {} => f[s \cup t] = f[s] + f[t]
    BY <1>5 DEF Good
  <1> QED
    BY <1>1, <1>2, <1>6 DEF IsAdditive

SumOfGroups(A, n, group, F) == SumFunction([g \in 1..n |-> F[{x \in A : group[x] = g}]])

\* What adds up over the parts of a set adds up over the groups of a grouping.
LEMMA GroupsAddUp ==
    ASSUME NEW A, NEW n \in Nat, NEW group, \A x \in A : group[x] \in 1..n,
           NEW F, IsAdditive(F, A)
    PROVE  SumOfGroups(A, n, group, F) = F[A]
  <1> DEFINE Group(g) == {x \in A : group[x] = g}
             Upto(m) == {x \in A : group[x] <= m}
             e == [g \in 1..n |-> F[Group(g)]]
             h == CHOOSE f : IsSum(f, e)
             T == {m \in 0..n : h[1..m] = F[Upto(m)]}
  <1>1. DOMAIN e = 1..n /\ IsFiniteSet(1..n)
    BY FS_Interval
  <1>2. \A g \in 1..n : e[g] = F[Group(g)] /\ e[g] \in Int
    BY DEF IsAdditive
  <1>3. SumFunction(e) = h[1..n]
    BY <1>1 DEF SumFunction, SumFunctionOnSet, FoldFunctionOnSet, MapThenFoldSet, IsSum
  <1> HIDE DEF e
  <1>4. IsSum(h, e)
    BY <1>1, SumExists
  <1> HIDE DEF h
  <1>5. \A s \in SUBSET (1..n) : h[s] \in Int /\ \A g \in s : h[s] = e[g] + h[s \ {g}]
    <2>1. AddsUp(h, e)
      BY <1>1, <1>2, <1>4, SumInAnyOrder
    <2> QED
      BY <1>1, <2>1 DEF AddsUp
  <1>6. 0 \in T
    <2>1. 1..0 = {} /\ Upto(0) = {}
      OBVIOUS
    <2>2. h[{}] = 0
      BY <1>4 DEF IsSum
    <2>3. F[{}] = 0 /\ 0 \in 0..n
      BY DEF IsAdditive
    <2> HIDE DEF Upto
    <2> QED
      BY <2>1, <2>2, <2>3
  <1>7. ASSUME NEW m \in 1..n, m - 1 \in T PROVE m \in T
    <2>1. 1..m \in SUBSET (1..n) /\ m \in 1..m /\ (1..m) \ {m} = 1..(m - 1)
      OBVIOUS
    <2>2. h[1..m] = e[m] + h[1..(m - 1)]
      BY <1>5, <2>1
    <2>3. Upto(m) = Group(m) \cup Upto(m - 1) /\ Group(m) \cap Upto(m - 1) = {}
      OBVIOUS
    <2>4. Group(m) \in SUBSET A /\ Upto(m - 1) \in SUBSET A
      OBVIOUS
    <2>5. h[1..(m - 1)] = F[Upto(m - 1)]
      BY <1>7
    <2> HIDE DEF Upto, Group
    <2>6. F[Upto(m)] = F[Group(m)] + F[Upto(m - 1)]
      BY <2>3, <2>4 DEF IsAdditive
    <2> QED
      BY <1>2, <2>2, <2>5, <2>6
  <1>8. n \in T
    <2> HIDE DEF T
    <2>1. 0..n \subseteq T
      BY <1>6, <1>7, Climb
    <2> QED
      BY <2>1
  <1>9. Upto(n) = A
    OBVIOUS
  <1>10. SumFunction(e) = F[A]
    <2> HIDE DEF Upto
    <2> QED
      BY <1>3, <1>8, <1>9
  <1> QED
    BY <1>10 DEF e, SumOfGroups
-----------------------------------------------------------------------------
(* Places and groups of a cross-section                                    *)

IsSection(values) ==
    /\ IsFiniteSet(DOMAIN values) /\ DOMAIN values \subseteq Int
    /\ \A i \in DOMAIN values : values[i] \in Int

\* Each place is taken by one instrument, in order.
LEMMA PlacesAreTaken ==
    ASSUME NEW values, IsSection(values)
    PROVE  /\ Cardinality(DOMAIN values) \in Nat
           /\ \A i \in DOMAIN values : Place(values, i) \in 1..Cardinality(DOMAIN values)
           /\ \A i, j \in DOMAIN values :
                 ComesBefore(values, j, i) => Place(values, j) < Place(values, i)
           /\ \A i, j \in DOMAIN values : Place(values, i) = Place(values, j) => i = j
           /\ \A k \in 1..Cardinality(DOMAIN values) : \E i \in DOMAIN values : Place(values, i) = k
  <1> DEFINE D == DOMAIN values
             n == Cardinality(D)
             Earlier(i) == {j \in D : ComesBefore(values, j, i)}
             P(i) == Place(values, i)
  <1>1. n \in Nat
    BY FS_CardinalityType DEF IsSection
  <1>2. \A i, j, k \in D : /\ ~ComesBefore(values, i, i)
                          /\ (ComesBefore(values, i, j) /\ ComesBefore(values, j, k) => ComesBefore(values, i, k))
                          /\ (i # j => ComesBefore(values, i, j) \/ ComesBefore(values, j, i))
    <2>1. \A i \in D : i \in Int /\ values[i] \in Int
      BY DEF IsSection
    <2> HIDE DEF D
    <2> QED
      BY <2>1 DEF ComesBefore
  <1>3. \A i \in D : P(i) = Cardinality(Earlier(i)) + 1
    BY DEF Place
  <1>4. ASSUME NEW i \in D PROVE IsFiniteSet(Earlier(i)) /\ Cardinality(Earlier(i)) \in Nat
    <2>1. Earlier(i) \in SUBSET D /\ IsFiniteSet(D)
      BY DEF IsSection
    <2> HIDE DEF Earlier, D
    <2> QED
      BY <2>1, FS_Subset, FS_CardinalityType
  <1>5. ASSUME NEW i \in D PROVE Cardinality(Earlier(i)) < n
    <2>1. Earlier(i) \in SUBSET D /\ i \in D /\ i \notin Earlier(i)
      BY <1>2
    <2>2. IsFiniteSet(D)
      BY DEF IsSection
    <2> DEFINE E == Earlier(i)
    <2>3. E \in SUBSET D /\ E # D
      BY <2>1
    <2>4. Cardinality(E) \in Nat
      BY <1>4
    <2> HIDE DEF Earlier, D, E
    <2>5. Cardinality(E) <= Cardinality(D) /\ Cardinality(E) # Cardinality(D)
      BY <2>2, <2>3, FS_Subset
    <2> QED
      BY <1>1, <2>4, <2>5 DEF E
  <1>6. ASSUME NEW i \in D, NEW j \in D, ComesBefore(values, j, i)
        PROVE  Cardinality(Earlier(j)) < Cardinality(Earlier(i))
    <2> DEFINE E == Earlier(j)
               F == Earlier(i)
    <2>1. E \in SUBSET F
      BY <1>2, <1>6
    <2>2. j \in F /\ j \notin E
      BY <1>2, <1>6
    <2>3. IsFiniteSet(F) /\ Cardinality(F) \in Nat /\ Cardinality(E) \in Nat
      BY <1>4
    <2> HIDE DEF E, F
    <2>4. Cardinality(E) <= Cardinality(F) /\ Cardinality(E) # Cardinality(F)
      BY <2>1, <2>2, <2>3, FS_Subset
    <2> QED
      BY <2>3, <2>4 DEF E, F
  <1> HIDE DEF P, n, Earlier
  <1>7. \A i \in D : P(i) \in 1..n
    BY <1>1, <1>3, <1>4, <1>5
  <1>8. \A i, j \in D : ComesBefore(values, j, i) => P(j) < P(i)
    BY <1>3, <1>4, <1>6
  <1>9. \A i, j \in D : P(i) = P(j) => i = j
    <2> SUFFICES ASSUME NEW i \in D, NEW j \in D, i # j PROVE P(i) # P(j)
      OBVIOUS
    <2>1. P(i) < P(j) \/ P(j) < P(i)
      BY <1>2, <1>8
    <2>2. P(i) \in Int /\ P(j) \in Int
      BY <1>1, <1>7
    <2> QED
      BY <2>1, <2>2
  <1>10. \A k \in 1..n : \E i \in D : P(i) = k
    <2> DEFINE place == [i \in D |-> P(i)]
    <2>1. IsFiniteSet(1..n) /\ Cardinality(1..n) = n
      <3>1. Cardinality(1..n) = IF 1 > n THEN 0 ELSE n - 1 + 1
        BY <1>1, FS_Interval
      <3> QED
        BY <1>1, <3>1, FS_Interval
    <2>2. place \in Injection(D, 1..n)
      BY <1>7, <1>9 DEF Injection, IsInjective
    <2>3. place \in Surjection(D, 1..n)
      <3> HIDE DEF place, D
      <3> QED
        BY <2>1, <2>2, FS_Injection DEF n
    <2> QED
      BY <2>3 DEF Surjection
  <1> QED
    BY <1>1, <1>7, <1>8, <1>9, <1>10 DEF P, n

-----------------------------------------------------------------------------
(* Arithmetic of quantiles                                                 *)

LEMMA Division ==
    ASSUME NEW x \in Int, NEW c \in Nat \ {0}
    PROVE  /\ x \div c \in Int
           /\ c * (x \div c) <= x /\ x < c * (x \div c) + c
  OBVIOUS

LEMMA Cancel ==
    ASSUME NEW a \in Int, NEW b \in Int, NEW c \in Nat \ {0}
    PROVE  (c * a < c * b => a < b) /\ (c * a < c * b + c => a <= b)
  <1>1. a - b \in Int /\ c * a = c * b + c * (a - b)
    OBVIOUS
  <1>2. \A d \in Int : d >= 0 => c * d >= 0
    OBVIOUS
  <1>3. \A d \in Int : d >= 1 => c * d >= c
    OBVIOUS
  <1>4. c * b \in Int /\ c * (a - b) \in Int /\ c * a \in Int
    OBVIOUS
  <1>5. ASSUME c * a < c * b, ~(a < b) PROVE FALSE
    <2>1. c * (a - b) >= 0
      BY <1>2, <1>5
    <2> QED
      BY <1>1, <1>4, <1>5, <2>1
  <1>6. ASSUME c * a < c * b + c, ~(a <= b) PROVE FALSE
    <2>1. c * (a - b) >= c
      BY <1>3, <1>6
    <2> QED
      BY <1>1, <1>4, <1>6, <2>1
  <1> QED
    BY <1>5, <1>6

\* The last place of a group.
Bound(g, size, count) == (g * size) \div count

\* The group computed for a place is the one between whose bounds it is.
LEMMA GroupIsBetweenBounds ==
    ASSUME NEW size \in Nat \ {0}, NEW count \in Nat \ {0}, NEW place \in 1..size,
           NEW group, group = (place * count + size - 1) \div size
    PROVE  /\ group \in 1..count
           /\ \A g \in 1..count :
                 group = g <=> Bound(g - 1, size, count) < place /\ place <= Bound(g, size, count)
  <1> DEFINE x == place * count
  <1>1. x \in Int /\ x >= count /\ x <= size * count
    <2>1. \A p \in Nat : p >= 1 => p * count >= count
      OBVIOUS
    <2>2. \A p \in Nat : p <= size => p * count <= size * count
      OBVIOUS
    <2> QED
      BY <2>1, <2>2
  <1> HIDE DEF x
  <1>2. group \in Int /\ size * group <= x + size - 1 /\ x + size - 1 < size * group + size
    <2>1. x + size - 1 \in Int
      BY <1>1
    <2> HIDE <1>1
    <2> QED
      BY <2>1, Division DEF x
  <1>3. size * group \in Int /\ size * count \in Int /\ size * 0 = 0
    BY <1>2
  <1>4. group >= 1
    <2>1. size * 0 < size * group
      BY <1>1, <1>2, <1>3
    <2> QED
      BY <1>2, <2>1, Cancel
  <1>5. group <= count
    <2>1. size * group < size * count + size
      BY <1>1, <1>2, <1>3
    <2> QED
      BY <1>2, <2>1, Cancel
  <1>6. ASSUME NEW g \in 1..count
        PROVE  group = g <=> size * (g - 1) < x /\ x <= size * g
    <2>1. size * (g - 1) = size * g - size /\ size * g \in Int
      OBVIOUS
    <2>2. ASSUME size * (g - 1) < x, x <= size * g PROVE group = g
      <3>1. size * group < size * g + size /\ size * g < size * group + size
        BY <1>1, <1>2, <1>3, <2>1, <2>2
      <3>2. group <= g /\ g <= group
        BY <1>2, <3>1, Cancel
      <3> QED
        BY <1>2, <3>2
    <2>3. ASSUME group = g PROVE size * (g - 1) < x /\ x <= size * g
      BY <1>1, <1>2, <1>3, <2>1, <2>3
    <2> QED
      BY <2>2, <2>3
  <1>7. ASSUME NEW g \in 0..count PROVE x <= size * g <=> place <= Bound(g, size, count)
    <2> DEFINE b == Bound(g, size, count)
    <2>1. g * size \in Int /\ g * size = size * g
      OBVIOUS
    <2>2. b \in Int /\ count * b <= size * g /\ size * g < count * b + count
      BY <2>1, Division DEF Bound
    <2> HIDE DEF b
    <2>3. x = count * place /\ count * b \in Int /\ size * g \in Int
      BY <2>2 DEF x
    <2>4. ASSUME x <= size * g PROVE place <= b
      <3>1. count * place < count * b + count
        BY <1>1, <2>2, <2>3, <2>4
      <3> QED
        BY <2>2, <3>1, Cancel
    <2>5. ASSUME place <= b PROVE x <= size * g
      <3>1. \A p, q \in Int : p <= q => count * p <= count * q
        BY Cancel
      <3>2. count * place <= count * b
        BY <2>2, <2>5, <3>1
      <3> QED
        BY <1>1, <2>2, <2>3, <3>2
    <2> QED
      BY <2>4, <2>5 DEF b
  <1>8. ASSUME NEW g \in 0..count PROVE Bound(g, size, count) \in Int
    <2>1. g * size \in Int
      OBVIOUS
    <2> QED
      BY <2>1, Division DEF Bound
  <1>9. ASSUME NEW g \in 1..count
        PROVE  group = g <=> Bound(g - 1, size, count) < place /\ place <= Bound(g, size, count)
    <2>1. g \in 0..count /\ g - 1 \in 0..count
      OBVIOUS
    <2>2. size * (g - 1) \in Int
      OBVIOUS
    <2>3. ~(x <= size * (g - 1)) <=> size * (g - 1) < x
      BY <1>1, <2>2
    <2>4. Bound(g - 1, size, count) \in Int
      BY <1>8, <2>1
    <2>5. ~(place <= Bound(g - 1, size, count)) <=> Bound(g - 1, size, count) < place
      BY <2>4
    <2> QED
      BY <1>6, <1>7, <2>1, <2>3, <2>5
  <1> QED
    BY <1>2, <1>4, <1>5, <1>9

\* Groups differ by one place at most.
LEMMA BoundsAreEven ==
    ASSUME NEW size \in Nat, NEW count \in Nat \ {0}
    PROVE  /\ \A g \in 0..count : Bound(g, size, count) \in 0..size
           /\ \A g, h \in 1..count :
                 Bound(g, size, count) - Bound(g - 1, size, count)
                    <= Bound(h, size, count) - Bound(h - 1, size, count) + 1
  <1> DEFINE B(g) == Bound(g, size, count)
  <1>1. ASSUME NEW g \in 0..count
        PROVE  B(g) \in Int /\ count * B(g) <= size * g /\ size * g < count * B(g) + count
    <2>1. g * size \in Int /\ g * size = size * g
      OBVIOUS
    <2> QED
      BY <2>1, Division DEF Bound
  <1> HIDE DEF B
  <1>2. ASSUME NEW g \in 0..count PROVE B(g) \in 0..size
    <2>1. B(g) \in Int /\ count * B(g) \in Int /\ count * size \in Int /\ count * 0 = 0
      BY <1>1
    <2>2. size * g >= 0 /\ size * g <= count * size /\ size * g \in Int
      <3>1. \A k \in Nat : k <= count => size * k <= count * size
        OBVIOUS
      <3>2. \A k \in Nat : size * k >= 0 /\ size * k \in Int
        OBVIOUS
      <3> QED
        BY <3>1, <3>2
    <2>3. 0 < count * B(g) + count
      <3> DEFINE u == size * g
                 v == count * B(g)
      <3>1. u \in Int /\ u >= 0 /\ v \in Int /\ u < v + count
        BY <1>1, <2>1, <2>2
      <3> HIDE DEF u, v
      <3>2. 0 < v + count
        BY <3>1
      <3> QED
        BY <3>2 DEF v
    <2>4. count * 0 < count * B(g) + count
      BY <2>1, <2>3
    <2>5. count * B(g) < count * size + count
      BY <1>1, <2>1, <2>2
    <2> QED
      BY <2>1, <2>5, <2>4, Cancel
  <1>3. ASSUME NEW g \in 1..count, NEW h \in 1..count PROVE B(g) - B(g - 1) <= B(h) - B(h - 1) + 1
    <2>1. g \in 0..count /\ g - 1 \in 0..count /\ h \in 0..count /\ h - 1 \in 0..count
      OBVIOUS
    <2> DEFINE a == B(g) - B(g - 1)
               b == B(h) - B(h - 1)
    <2>2. B(g) \in Int /\ B(g - 1) \in Int /\ B(h) \in Int /\ B(h - 1) \in Int
      BY <1>1, <2>1
    <2>3. count * a = count * B(g) - count * B(g - 1) /\ count * b = count * B(h) - count * B(h - 1)
      BY <2>2
    <2>4. size * (g - 1) = size * g - size /\ size * (h - 1) = size * h - size
      OBVIOUS
    <2>5. /\ count * B(g) <= size * g /\ size * (g - 1) < count * B(g - 1) + count
          /\ count * B(h - 1) <= size * (h - 1) /\ size * h < count * B(h) + count
      BY <1>1, <2>1
    <2>6. /\ count * B(g) \in Int /\ count * B(g - 1) \in Int /\ count * B(h) \in Int
          /\ count * B(h - 1) \in Int /\ size * g \in Int /\ size * h \in Int
      BY <2>2
    <2>7. a \in Int /\ b \in Int /\ b + 1 \in Int /\ count * (b + 1) = count * b + count
      BY <2>2
    <2>8. count * a < count * (b + 1) + count
      BY <2>3, <2>4, <2>5, <2>6, <2>7
    <2> HIDE DEF a, b
    <2>9. a <= b + 1
      BY <2>7, <2>8, Cancel
    <2> QED
      BY <2>9 DEF a, b
  <1> QED
    BY <1>2, <1>3 DEF B

\* What is computed for each instrument of a cross-section.
LEMMA QuantileGroupsAre ==
    ASSUME NEW values, IsSection(values), NEW count \in Nat \ {0}, NEW i \in DOMAIN values
    PROVE  LET size == Cardinality(DOMAIN values)
               group == QuantileGroups(values, count)[i]
           IN  /\ group \in 1..count
               /\ \A g \in 1..count :
                     group = g <=> /\ Bound(g - 1, size, count) < Place(values, i)
                                   /\ Place(values, i) <= Bound(g, size, count)
  <1> DEFINE size == Cardinality(DOMAIN values)
             place == Place(values, i)
             q == (place * count + size - 1) \div size
  <1>1. size \in Nat \ {0} /\ place \in 1..size
    BY PlacesAreTaken
  <1>2. QuantileGroups(values, count)[i] = Max({1, Min({count, q})})
    BY DEF QuantileGroups
  <1> HIDE DEF size, place
  <1>3. q \in 1..count
    BY <1>1, GroupIsBetweenBounds
  <1> HIDE DEF q
  <1>4. Max({1, Min({count, q})}) = q
    <2>1. Min({count, q}) = q
      BY <1>3 DEF Min
    <2>2. Max({1, q}) = q
      BY <1>3 DEF Max
    <2> QED
      BY <2>1, <2>2
  <1>5. \A g \in 1..count :
           q = g <=> Bound(g - 1, size, count) < place /\ place <= Bound(g, size, count)
    <2>1. q = (place * count + size - 1) \div size
      BY DEF q
    <2>2. \A group : group = (place * count + size - 1) \div size =>
             \A g \in 1..count :
                group = g <=> Bound(g - 1, size, count) < place /\ place <= Bound(g, size, count)
      BY <1>1, GroupIsBetweenBounds, Zenon
    <2> QED
      BY <2>1, <2>2, Zenon
  <1> QED
    BY <1>2, <1>3, <1>4, <1>5 DEF size, place

LEMMA GroupsAscend ==
    ASSUME NEW values, IsSection(values), NEW count \in Nat \ {0},
           NEW i \in DOMAIN values, NEW j \in DOMAIN values, values[i] < values[j]
    PROVE  QuantileGroups(values, count)[i] <= QuantileGroups(values, count)[j]
  <1> DEFINE size == Cardinality(DOMAIN values)
             g == QuantileGroups(values, count)[i]
             h == QuantileGroups(values, count)[j]
             p == Place(values, i)
             q == Place(values, j)
  <1>1. ComesBefore(values, i, j)
    BY DEF ComesBefore
  <1>2. size \in Nat \ {0} /\ p \in 1..size /\ q \in 1..size /\ p < q
    BY <1>1, PlacesAreTaken
  <1>3. /\ g \in 1..count /\ h \in 1..count
        /\ Bound(g - 1, size, count) < p /\ q <= Bound(h, size, count)
    BY QuantileGroupsAre
  <1> HIDE DEF size, g, h, p, q
  <1>4. ASSUME h <= g - 1 PROVE Bound(h, size, count) <= Bound(g - 1, size, count)
    <2> DEFINE a == Bound(h, size, count)
               b == Bound(g - 1, size, count)
    <2>1. h * size \in Int /\ (g - 1) * size \in Int
      BY <1>2, <1>3
    <2>2. a \in Int /\ b \in Int /\ count * a <= h * size /\ (g - 1) * size < count * b + count
      BY <2>1, Division DEF Bound
    <2>3. h * size <= (g - 1) * size
      <3>1. \A x, y \in Int : x <= y => x * size <= y * size
        <4>1. \A x, y \in Int : x <= y => y * size = x * size + (y - x) * size
          BY <1>2
        <4>2. \A x \in Nat : x * size >= 0
          BY <1>2
        <4>3. \A x, y \in Int : x <= y => y - x \in Nat
          OBVIOUS
        <4>4. \A x, y \in Int : x * size \in Int /\ (y - x) * size \in Int
          BY <1>2
        <4> SUFFICES ASSUME NEW x \in Int, NEW y \in Int, x <= y PROVE x * size <= y * size
          OBVIOUS
        <4>5. (y - x) * size >= 0
          BY <4>2, <4>3
        <4> DEFINE more == (y - x) * size
                   less == x * size
        <4>6. y * size = less + more /\ more >= 0 /\ more \in Int /\ less \in Int
          BY <4>1, <4>4, <4>5
        <4> HIDE DEF more, less
        <4>7. y * size >= less
          BY <4>6
        <4> QED
          BY <4>6, <4>7 DEF less
      <3> QED
        BY <1>3, <1>4, <3>1
    <2> HIDE DEF a, b
    <2>4. count * a \in Int /\ count * b \in Int
      BY <2>2
    <2>5. count * a < count * b + count
      BY <2>1, <2>2, <2>3, <2>4
    <2> QED
      BY <2>2, <2>5, Cancel DEF a, b
  <1>5. Bound(h, size, count) \in Int /\ Bound(g - 1, size, count) \in Int
    <2>1. h \in 0..count /\ g - 1 \in 0..count
      BY <1>3
    <2>2. \A k \in 0..count : Bound(k, size, count) \in 0..size
      BY <1>2, BoundsAreEven
    <2> QED
      BY <1>2, <2>1, <2>2
  <1>6. g <= h
    BY <1>2, <1>3, <1>4, <1>5
  <1> QED
    BY <1>6 DEF g, h

\* Groups are by the order of the values only.
LEMMA SameOrderSameGroups ==
    ASSUME NEW one, NEW other, DOMAIN one = DOMAIN other, NEW count,
           \A i, j \in DOMAIN one : ComesBefore(one, i, j) <=> ComesBefore(other, i, j)
    PROVE  QuantileGroups(one, count) = QuantileGroups(other, count)
  <1>1. ASSUME NEW i \in DOMAIN one PROVE Place(one, i) = Place(other, i)
    <2>1. {j \in DOMAIN one : ComesBefore(one, j, i)} = {j \in DOMAIN other : ComesBefore(other, j, i)}
      OBVIOUS
    <2> QED
      BY <2>1 DEF Place
  <1> QED
    BY <1>1 DEF QuantileGroups

-----------------------------------------------------------------------------
(* The evaluation of observations                                          *)

\* Numbers, one observation of each instrument and day.
AreObservations(rows) ==
    /\ IsFiniteSet(rows)
    /\ \A r \in rows : r.inst \in Int /\ r.value \in Int /\ r.return \in Int
    /\ \A r, s \in rows : r.inst = s.inst /\ r.day = s.day => r = s

AllPairs(rows) == {r \in rows : Missing \notin {r.value, r.return}}

PlaceOf(rows, r) == Place(PairedValues(rows, r.day), r.inst)

SizeOf(rows, day) == Cardinality(DOMAIN PairedValues(rows, day))

GroupOf(rows, count, r) == QuantileGroups(PairedValues(rows, r.day), count)[r.inst]

BucketOf(rows, count, g) == {r \in AllPairs(rows) : GroupOf(rows, count, r) = g}

LEMMA PairedValuesAre ==
    ASSUME NEW rows, AreObservations(rows), NEW day
    PROVE  /\ IsSection(PairedValues(rows, day))
           /\ DOMAIN PairedValues(rows, day) = {r.inst : r \in Pairs(rows, day)}
           /\ \A r \in Pairs(rows, day) : PairedValues(rows, day)[r.inst] = r.value
  <1> DEFINE pairs == Pairs(rows, day)
             D == {r.inst : r \in pairs}
             Row(i) == CHOOSE r \in pairs : r.inst = i
             values == PairedValues(rows, day)
  <1>1. pairs \in SUBSET rows /\ \A r, s \in pairs : r.inst = s.inst => r = s
    BY DEF Pairs, AreObservations
  <1>2. values = [i \in D |-> Row(i).value]
    BY DEF PairedValues
  <1>3. \A r \in pairs : r.inst \in Int /\ r.value \in Int
    BY <1>1 DEF AreObservations
  <1>4. IsFiniteSet(D)
    <2> HIDE DEF pairs
    <2>1. IsFiniteSet(pairs)
      BY <1>1, FS_Subset DEF AreObservations
    <2>2. [r \in pairs |-> r.inst] \in Surjection(pairs, D)
      BY DEF Surjection
    <2> HIDE DEF D
    <2> QED
      BY <2>1, <2>2, FS_Surjection
  <1> HIDE DEF pairs, values
  <1>5. \A r \in pairs : Row(r.inst) = r
    BY <1>1
  <1>6. \A r \in pairs : values[r.inst] = r.value
    <2> HIDE DEF Row
    <2> QED
      BY <1>2, <1>5
  <1>7. DOMAIN values = D
    BY <1>2
  <1>8. IsSection(values)
    BY <1>3, <1>4, <1>6, <1>7 DEF IsSection
  <1> QED
    BY <1>6, <1>7, <1>8 DEF values, pairs

\* Each place of a day is that of one pair; a pair is in the group between
\* whose bounds its place is.
LEMMA PairsAreGrouped ==
    ASSUME NEW rows, AreObservations(rows), NEW count \in Nat \ {0}
    PROVE  /\ \A d : SizeOf(rows, d) \in Nat
           /\ \A r \in AllPairs(rows) :
                 /\ PlaceOf(rows, r) \in 1..SizeOf(rows, r.day)
                 /\ GroupOf(rows, count, r) \in 1..count
                 /\ \A g \in 1..count :
                       GroupOf(rows, count, r) = g <=>
                          /\ Bound(g - 1, SizeOf(rows, r.day), count) < PlaceOf(rows, r)
                          /\ PlaceOf(rows, r) <= Bound(g, SizeOf(rows, r.day), count)
           /\ \A r, s \in AllPairs(rows) :
                 r.day = s.day /\ PlaceOf(rows, r) = PlaceOf(rows, s) => r = s
           /\ \A d : \A k \in 1..SizeOf(rows, d) :
                 \E r \in AllPairs(rows) : r.day = d /\ PlaceOf(rows, r) = k
  <1> DEFINE V(d) == PairedValues(rows, d)
  <1>1. ASSUME NEW d PROVE IsSection(V(d)) /\ DOMAIN V(d) = {r.inst : r \in Pairs(rows, d)}
    BY PairedValuesAre
  <1>2. \A d : Pairs(rows, d) = {r \in AllPairs(rows) : r.day = d}
    BY DEF Pairs, AllPairs
  <1> HIDE DEF V
  <1>3. ASSUME NEW r \in AllPairs(rows) PROVE r.inst \in DOMAIN V(r.day)
    <2>1. r \in Pairs(rows, r.day)
      BY <1>2
    <2>2. r.inst \in {s.inst : s \in Pairs(rows, r.day)}
      BY ONLY <2>1
    <2> QED
      BY <1>1, <2>2
  <1>4. ASSUME NEW d PROVE SizeOf(rows, d) \in Nat
    BY <1>1, PlacesAreTaken DEF V, SizeOf
  <1>5. ASSUME NEW r \in AllPairs(rows)
        PROVE  /\ PlaceOf(rows, r) \in 1..SizeOf(rows, r.day)
               /\ GroupOf(rows, count, r) \in 1..count
               /\ \A g \in 1..count :
                     GroupOf(rows, count, r) = g <=>
                        /\ Bound(g - 1, SizeOf(rows, r.day), count) < PlaceOf(rows, r)
                        /\ PlaceOf(rows, r) <= Bound(g, SizeOf(rows, r.day), count)
    <2> DEFINE v == V(r.day)
               i == r.inst
    <2>1. IsSection(v) /\ i \in DOMAIN v
      BY <1>1, <1>3
    <2> HIDE DEF v, i
    <2>2. Place(v, i) \in 1..Cardinality(DOMAIN v)
      BY <2>1, PlacesAreTaken
    <2>3. /\ QuantileGroups(v, count)[i] \in 1..count
          /\ \A g \in 1..count :
                QuantileGroups(v, count)[i] = g <=>
                   /\ Bound(g - 1, Cardinality(DOMAIN v), count) < Place(v, i)
                   /\ Place(v, i) <= Bound(g, Cardinality(DOMAIN v), count)
      BY <2>1, QuantileGroupsAre
    <2> QED
      BY <2>2, <2>3 DEF v, i, V, PlaceOf, SizeOf, GroupOf
  <1>6. ASSUME NEW r \in AllPairs(rows), NEW s \in AllPairs(rows), r.day = s.day,
               PlaceOf(rows, r) = PlaceOf(rows, s)
        PROVE  r = s
    <2>1. r.inst \in DOMAIN V(r.day) /\ s.inst \in DOMAIN V(r.day) /\ IsSection(V(r.day))
      BY <1>1, <1>3, <1>6
    <2>2. Place(V(r.day), r.inst) = Place(V(r.day), s.inst)
      BY <1>6 DEF PlaceOf, V
    <2>3. r.inst = s.inst
      BY <2>1, <2>2, PlacesAreTaken
    <2> QED
      BY <1>6, <2>3 DEF AllPairs, AreObservations
  <1>7. ASSUME NEW d, NEW k \in 1..SizeOf(rows, d)
        PROVE  \E r \in AllPairs(rows) : r.day = d /\ PlaceOf(rows, r) = k
    <2>1. PICK i \in DOMAIN V(d) : Place(V(d), i) = k
      BY <1>1, PlacesAreTaken DEF V, SizeOf
    <2>2. i \in {r.inst : r \in Pairs(rows, d)}
      BY <1>1
    <2>3. PICK r \in Pairs(rows, d) : r.inst = i
      BY <2>2
    <2>4. r \in AllPairs(rows) /\ r.day = d
      BY <1>2
    <2> QED
      BY <2>1, <2>3, <2>4 DEF V, PlaceOf
  <1> QED
    BY <1>4, <1>5, <1>6, <1>7

\* No group grows ahead of another by more than one pair a day: the pairs of a
\* group that have a counterpart in the other are no more than those there, and
\* there is at most one other a day.
LEMMA GroupsAreEven ==
    ASSUME NEW rows, AreObservations(rows), NEW count \in Nat \ {0}, NEW days, IsFiniteSet(days),
           \A r \in AllPairs(rows) : r.day \in days,
           NEW g \in 1..count, NEW h \in 1..count
    PROVE  Cardinality(BucketOf(rows, count, g)) <= Cardinality(BucketOf(rows, count, h)) + Cardinality(days)
  <1> DEFINE Low(k, d) == Bound(k - 1, SizeOf(rows, d), count)
             High(k, d) == Bound(k, SizeOf(rows, d), count)
             Target(r) == PlaceOf(rows, r) - Low(g, r.day) + Low(h, r.day)
             Mate(r) == CHOOSE s \in AllPairs(rows) : s.day = r.day /\ PlaceOf(rows, s) = Target(r)
             from == BucketOf(rows, count, g)
             into == BucketOf(rows, count, h)
             mated == {r \in from : Target(r) <= High(h, r.day)}
             single == {r \in from : ~(Target(r) <= High(h, r.day))}
  <1>1. \A k \in 1..count : \A d : /\ Low(k, d) \in 0..SizeOf(rows, d) /\ High(k, d) \in 0..SizeOf(rows, d)
    <2> SUFFICES ASSUME NEW k \in 1..count, NEW d
                 PROVE  Low(k, d) \in 0..SizeOf(rows, d) /\ High(k, d) \in 0..SizeOf(rows, d)
      OBVIOUS
    <2>1. k \in 0..count /\ k - 1 \in 0..count
      OBVIOUS
    <2>2. SizeOf(rows, d) \in Nat
      BY PairsAreGrouped
    <2> QED
      BY <2>1, <2>2, BoundsAreEven
  <1>2. ASSUME NEW d PROVE High(g, d) - Low(g, d) <= High(h, d) - Low(h, d) + 1
    <2>1. SizeOf(rows, d) \in Nat
      BY PairsAreGrouped
    <2> QED
      BY <2>1, BoundsAreEven
  <1>3. \A k \in 1..count : \A r \in AllPairs(rows) :
           r \in BucketOf(rows, count, k) <=> Low(k, r.day) < PlaceOf(rows, r) /\ PlaceOf(rows, r) <= High(k, r.day)
    BY PairsAreGrouped DEF BucketOf
  <1>4. \A r \in AllPairs(rows) : PlaceOf(rows, r) \in 1..SizeOf(rows, r.day)
    BY PairsAreGrouped
  <1>5. \A r, s \in AllPairs(rows) : r.day = s.day /\ PlaceOf(rows, r) = PlaceOf(rows, s) => r = s
    BY PairsAreGrouped
  <1>6. \A d : \A k \in 1..SizeOf(rows, d) : \E r \in AllPairs(rows) : r.day = d /\ PlaceOf(rows, r) = k
    BY PairsAreGrouped
  <1>7. from \in SUBSET AllPairs(rows) /\ into \in SUBSET AllPairs(rows)
    BY DEF BucketOf
  <1>8. IsFiniteSet(AllPairs(rows))
    <2>1. AllPairs(rows) \in SUBSET rows
      BY DEF AllPairs
    <2> QED
      BY <2>1, FS_Subset DEF AreObservations
  <1>9. IsFiniteSet(from) /\ IsFiniteSet(into)
    <2> HIDE DEF from, into
    <2> QED
      BY <1>7, <1>8, FS_Subset
  <1> HIDE DEF Low, High
  <1>10. \A d : SizeOf(rows, d) \in Nat
    BY PairsAreGrouped
  <1>11. ASSUME NEW r \in from
         PROVE  /\ Target(r) \in Int /\ Low(h, r.day) < Target(r) /\ Target(r) <= High(h, r.day) + 1
                /\ PlaceOf(rows, r) = Target(r) + Low(g, r.day) - Low(h, r.day)
    <2> DEFINE p == PlaceOf(rows, r)
               lg == Low(g, r.day)
               lh == Low(h, r.day)
               hg == High(g, r.day)
               hh == High(h, r.day)
    <2>1. p \in Int /\ lg \in Int /\ lh \in Int /\ hg \in Int /\ hh \in Int
      BY <1>1, <1>4, <1>7, <1>10
    <2>2. lg < p /\ p <= hg
      BY <1>3, <1>7
    <2>3. hg - lg <= hh - lh + 1
      BY <1>2
    <2> HIDE DEF p, lg, lh, hg, hh
    <2>4. p - lg + lh \in Int /\ lh < p - lg + lh /\ p - lg + lh <= hh + 1 /\ p = p - lg + lh + lg - lh
      BY <2>1, <2>2, <2>3
    <2> QED
      BY <2>4 DEF p, lg, lh, hh
  <1>12. ASSUME NEW r \in mated
         PROVE  /\ Mate(r) \in into /\ Mate(r).day = r.day /\ PlaceOf(rows, Mate(r)) = Target(r)
    <2>1. Target(r) \in 1..SizeOf(rows, r.day)
      <3>1. Low(h, r.day) \in 0..SizeOf(rows, r.day) /\ High(h, r.day) \in 0..SizeOf(rows, r.day)
        BY <1>1
      <3>2. Target(r) \in Int /\ Low(h, r.day) < Target(r) /\ Target(r) <= High(h, r.day)
        BY <1>11
      <3> HIDE DEF Target
      <3> QED
        BY <1>10, <3>1, <3>2
    <2>2. Low(h, r.day) < Target(r) /\ Target(r) <= High(h, r.day)
      BY <1>11
    <2> HIDE DEF Target
    <2>3. \E s \in AllPairs(rows) : s.day = r.day /\ PlaceOf(rows, s) = Target(r)
      BY <1>6, <2>1
    <2>4. Mate(r) \in AllPairs(rows) /\ Mate(r).day = r.day /\ PlaceOf(rows, Mate(r)) = Target(r)
      BY <2>3
    <2> HIDE DEF Mate
    <2> QED
      BY <1>3, <2>2, <2>4
  <1>13. Cardinality(mated) <= Cardinality(into)
    <2> DEFINE mate == [r \in mated |-> Mate(r)]
    <2>1. ASSUME NEW r \in mated, NEW s \in mated, mate[r] = mate[s] PROVE r = s
      <3>1. Mate(r) = Mate(s)
        BY <2>1
      <3>2. r.day = s.day /\ Target(r) = Target(s)
        BY <1>12, <3>1
      <3>3. r \in from /\ s \in from
        OBVIOUS
      <3>4. PlaceOf(rows, r) = PlaceOf(rows, s)
        <4>1. PlaceOf(rows, r) = Target(r) + Low(g, r.day) - Low(h, r.day)
          BY <1>11, <3>3
        <4>2. PlaceOf(rows, s) = Target(s) + Low(g, s.day) - Low(h, s.day)
          BY <1>11, <3>3
        <4> HIDE DEF Target
        <4> QED
          BY <3>2, <4>1, <4>2
      <3> QED
        BY <1>5, <1>7, <3>2, <3>3, <3>4
    <2> HIDE DEF mated, into, Mate
    <2>2. mate \in Injection(mated, into)
      BY <1>12, <2>1 DEF Injection, IsInjective
    <2> HIDE DEF mate
    <2> QED
      BY <1>9, <2>2, FS_Injection
  <1>14. Cardinality(single) <= Cardinality(days)
    <2> DEFINE day == [r \in single |-> r.day]
    <2>1. ASSUME NEW r \in single, NEW s \in single, day[r] = day[s] PROVE r = s
      <3>1. r.day = s.day /\ r \in from /\ s \in from
        BY <2>1
      <3>2. \A x \in single : PlaceOf(rows, x) = High(h, x.day) + 1 + Low(g, x.day) - Low(h, x.day)
        <4> SUFFICES ASSUME NEW x \in single
                     PROVE  PlaceOf(rows, x) = High(h, x.day) + 1 + Low(g, x.day) - Low(h, x.day)
          OBVIOUS
        <4>1. /\ Target(x) \in Int /\ Target(x) <= High(h, x.day) + 1 /\ ~(Target(x) <= High(h, x.day))
              /\ PlaceOf(rows, x) = Target(x) + Low(g, x.day) - Low(h, x.day)
          BY <1>11
        <4>2. High(h, x.day) \in Int
          BY <1>1, <1>10
        <4> HIDE DEF Target
        <4>3. Target(x) = High(h, x.day) + 1
          BY <4>1, <4>2
        <4> QED
          BY <4>1, <4>3
      <3> HIDE DEF Target
      <3>3. PlaceOf(rows, r) = PlaceOf(rows, s)
        BY <3>1, <3>2
      <3> QED
        BY <1>5, <1>7, <3>1, <3>3
    <2>2. \A r \in single : r.day \in days
      BY <1>7
    <2> HIDE DEF single
    <2>3. day \in Injection(single, days)
      BY <2>1, <2>2 DEF Injection, IsInjective
    <2> HIDE DEF day
    <2> QED
      BY <2>3, FS_Injection
  <1>15. Cardinality(from) = Cardinality(mated) + Cardinality(single)
    <2>1. mated \in SUBSET from /\ single = from \ mated /\ from \cap mated = mated
      OBVIOUS
    <2> HIDE DEF mated, single, from
    <2>2. Cardinality(single) = Cardinality(from) - Cardinality(mated)
      BY <1>9, <2>1, FS_Difference
    <2>3. Cardinality(from) \in Nat /\ Cardinality(mated) \in Nat
      BY <1>9, <2>1, FS_Subset, FS_CardinalityType
    <2> QED
      BY <2>2, <2>3
  <1>16. /\ Cardinality(mated) \in Nat /\ Cardinality(single) \in Nat
         /\ Cardinality(into) \in Nat /\ Cardinality(days) \in Nat
    <2>1. mated \in SUBSET from /\ single \in SUBSET from
      OBVIOUS
    <2> HIDE DEF mated, single, from, into
    <2> QED
      BY <1>9, <2>1, FS_Subset, FS_CardinalityType
  <1> HIDE DEF mated, single, from, into
  <1>17. Cardinality(from) <= Cardinality(into) + Cardinality(days)
    BY <1>13, <1>14, <1>15, <1>16
  <1> QED
    BY <1>17 DEF from, into

\* An evaluation of observations is balanced: the body of the property, of any
\* observations.
IsBalanced(rows, days, count) ==
    LET pairs == UNION {Pairs(rows, d) : d \in days}
        buckets == GroupBuckets(rows, count)
        values == [d \in days |-> PairedValues(rows, d)]
        groups == [d \in days |-> QuantileGroups(values[d], count)]
    IN  /\ Cardinality(pairs) = Coverage(rows).overlap
        /\ SumFunction([g \in 1..count |-> buckets[g].count]) = Cardinality(pairs)
        /\ SumFunction([g \in 1..count |-> buckets[g].sum])
              = SumFunction([r \in pairs |-> r.return])
        /\ \A g, h \in 1..count :
              buckets[g].count <= buckets[h].count + Cardinality(days)
        /\ \A d \in days : \A i, j \in DOMAIN values[d] :
              values[d][i] < values[d][j] => groups[d][i] <= groups[d][j]
        /\ \A d, e \in days, direction \in {"higher_is_better", "lower_is_better"} :
              (/\ DOMAIN values[d] = DOMAIN values[e]
               /\ \A i, j \in DOMAIN values[d] :
                     ComesBefore(values[d], i, j) <=> ComesBefore(values[e], i, j))
              => Retained(rows, d, e, direction, count)
                    = Cardinality(Selected(rows, d, direction, count))

LEMMA BucketsAre ==
    ASSUME NEW rows, NEW count \in Nat, NEW g \in 1..count
    PROVE  /\ GroupBuckets(rows, count)[g].count = Cardinality(BucketOf(rows, count, g))
           /\ GroupBuckets(rows, count)[g].sum = SumFunction([r \in BucketOf(rows, count, g) |-> r.return])
  <1> DEFINE bucket == {r \in rows : r \in Pairs(rows, r.day)
                             /\ QuantileGroups(PairedValues(rows, r.day), count)[r.inst] = g}
  <1>1. bucket = BucketOf(rows, count, g)
    BY DEF BucketOf, AllPairs, GroupOf, Pairs
  <1>2. GroupBuckets(rows, count)[g] =
           [count |-> Cardinality(bucket), sum |-> SumFunction([r \in bucket |-> r.return])]
    BY DEF GroupBuckets
  <1> HIDE DEF bucket
  <1> QED
    BY <1>1, <1>2

LEMMA AllArePaired ==
    ASSUME NEW rows, NEW days, \A d : d \in days <=> Pairs(rows, d) # {}
    PROVE  /\ UNION {Pairs(rows, d) : d \in days} = AllPairs(rows)
           /\ \A r \in AllPairs(rows) : r.day \in days
  <1>1. \A d : Pairs(rows, d) = {r \in AllPairs(rows) : r.day = d}
    BY DEF Pairs, AllPairs
  <1>2. \A r \in AllPairs(rows) : r.day \in days
    BY <1>1
  <1>3. \A d \in days : Pairs(rows, d) \subseteq AllPairs(rows)
    BY <1>1
  <1>4. \A r \in AllPairs(rows) : \E d \in days : r \in Pairs(rows, d)
    BY <1>1, <1>2
  <1> QED
    BY <1>2, <1>3, <1>4

\* The groups of all pairs add up: their numbers to that of the pairs, their
\* returns to those of the pairs.
LEMMA BucketsAddUp ==
    ASSUME NEW rows, AreObservations(rows), NEW count \in Nat \ {0}
    PROVE  /\ SumFunction([g \in 1..count |-> Cardinality(BucketOf(rows, count, g))])
                 = Cardinality(AllPairs(rows))
           /\ SumFunction([g \in 1..count |-> SumFunction([r \in BucketOf(rows, count, g) |-> r.return])])
                 = SumFunction([r \in AllPairs(rows) |-> r.return])
  <1> DEFINE A == AllPairs(rows)
             group == [r \in A |-> GroupOf(rows, count, r)]
             Group(g) == {r \in A : group[r] = g}
  <1>1. IsFiniteSet(A)
    <2>1. A \in SUBSET rows
      BY DEF AllPairs
    <2> QED
      BY <2>1, FS_Subset DEF AreObservations
  <1>2. \A r \in A : group[r] \in 1..count
    BY PairsAreGrouped
  <1>3. \A g \in 1..count : BucketOf(rows, count, g) = Group(g) /\ Group(g) \in SUBSET A
    BY DEF BucketOf
  <1>4. \A r \in A : r.return \in Int
    BY DEF AllPairs, AreObservations
  <1> HIDE DEF A, group
  <1>5. ASSUME NEW F, IsAdditive(F, A) PROVE SumFunction([g \in 1..count |-> F[Group(g)]]) = F[A]
    <2>1. SumOfGroups(A, count, group, F) = F[A]
      BY <1>2, <1>5, GroupsAddUp
    <2> QED
      BY ONLY <2>1 DEF SumOfGroups
  <1>6. SumFunction([g \in 1..count |-> Cardinality(BucketOf(rows, count, g))]) = Cardinality(A)
    <2> DEFINE F == [s \in SUBSET A |-> Cardinality(s)]
    <2>1. \A s \in SUBSET A : IsFiniteSet(s) /\ Cardinality(s) \in Nat
      BY <1>1, FS_Subset, FS_CardinalityType
    <2>2. ASSUME NEW s \in SUBSET A, NEW t \in SUBSET A, s \cap t = {} PROVE F[s \cup t] = F[s] + F[t]
      <3>1. IsFiniteSet(s) /\ IsFiniteSet(t) /\ Cardinality(s) \in Nat /\ Cardinality(t) \in Nat
        BY <2>1
      <3>2. Cardinality(s \cup t) = Cardinality(s) + Cardinality(t) - Cardinality(s \cap t)
        BY <3>1, FS_Union
      <3>3. Cardinality(s \cap t) = 0
        BY <2>2, FS_EmptySet
      <3>4. s \cup t \in SUBSET A
        OBVIOUS
      <3>5. Cardinality(s \cup t) = Cardinality(s) + Cardinality(t)
        BY <3>1, <3>2, <3>3
      <3> QED
        BY <3>4, <3>5
    <2>3. IsAdditive(F, A)
      <3>1. F[{}] = 0
        BY FS_EmptySet
      <3>2. \A s \in SUBSET A : F[s] \in Int
        BY <2>1
      <3> HIDE DEF F
      <3> QED
        BY <2>2, <3>1, <3>2 DEF IsAdditive
    <2>4. \A g \in 1..count : Cardinality(BucketOf(rows, count, g)) = F[Group(g)]
      BY <1>3
    <2>5. F[A] = Cardinality(A)
      OBVIOUS
    <2> HIDE DEF F, Group
    <2>6. [g \in 1..count |-> Cardinality(BucketOf(rows, count, g))] = [g \in 1..count |-> F[Group(g)]]
      BY <2>4
    <2>7. SumFunction([g \in 1..count |-> F[Group(g)]]) = F[A]
      BY <1>5, <2>3
    <2> QED
      BY <2>5, <2>6, <2>7
  <1>7. SumFunction([g \in 1..count |-> SumFunction([r \in BucketOf(rows, count, g) |-> r.return])])
           = SumFunction([r \in A |-> r.return])
    <2> DEFINE e == [r \in A |-> r.return]
    <2>1. DOMAIN e = A /\ \A r \in A : e[r] = r.return
      OBVIOUS
    <2>2. \A B \in SUBSET A : [r \in B |-> r.return] = [r \in B |-> e[r]]
      OBVIOUS
    <2> HIDE DEF e
    <2>3. PICK f : IsSum(f, e)
      BY <1>1, <2>1, SumExists
    <2>4. IsAdditive(f, A)
      <3>1. IsAdditive(f, DOMAIN e)
        BY <1>1, <1>4, <2>1, <2>3, PartialSumsAdd
      <3> QED
        BY <2>1, <3>1
    <2>5. ASSUME NEW B \in SUBSET A PROVE SumFunction([r \in B |-> r.return]) = f[B]
      <3>1. SumFunction([r \in B |-> e[r]]) = f[B]
        BY <1>1, <2>1, <2>3, SumOfPart
      <3> QED
        BY <2>2, <3>1
    <2>6. \A g \in 1..count : SumFunction([r \in BucketOf(rows, count, g) |-> r.return]) = f[Group(g)]
      <3> SUFFICES ASSUME NEW g \in 1..count
                   PROVE  SumFunction([r \in BucketOf(rows, count, g) |-> r.return]) = f[Group(g)]
        OBVIOUS
      <3>1. BucketOf(rows, count, g) = Group(g) /\ Group(g) \in SUBSET A
        BY <1>3
      <3> HIDE DEF Group
      <3> QED
        BY <2>5, <3>1
    <2> HIDE DEF Group
    <2>7. [g \in 1..count |-> SumFunction([r \in BucketOf(rows, count, g) |-> r.return])]
             = [g \in 1..count |-> f[Group(g)]]
      BY <2>6
    <2>8. SumFunction([g \in 1..count |-> f[Group(g)]]) = f[A]
      BY <1>5, <2>4
    <2>9. SumFunction([r \in A |-> r.return]) = f[A]
      BY <2>5
    <2> QED
      BY <2>7, <2>8, <2>9
  <1> QED
    BY <1>6, <1>7 DEF A

LEMMA ObservationsAreBalanced ==
    ASSUME NEW rows, AreObservations(rows), NEW count \in Nat \ {0}, NEW days, IsFiniteSet(days),
           \A d : d \in days <=> Pairs(rows, d) # {}
    PROVE  IsBalanced(rows, days, count)
  <1> DEFINE pairs == UNION {Pairs(rows, d) : d \in days}
             buckets == GroupBuckets(rows, count)
             values == [d \in days |-> PairedValues(rows, d)]
             groups == [d \in days |-> QuantileGroups(values[d], count)]
  <1>1. pairs = AllPairs(rows) /\ \A r \in AllPairs(rows) : r.day \in days
    BY AllArePaired
  <1>2. \A g \in 1..count :
           /\ buckets[g].count = Cardinality(BucketOf(rows, count, g))
           /\ buckets[g].sum = SumFunction([r \in BucketOf(rows, count, g) |-> r.return])
    BY BucketsAre
  <1>3. \A d \in days : values[d] = PairedValues(rows, d) /\ groups[d] = QuantileGroups(values[d], count)
    OBVIOUS
  <1> HIDE DEF pairs, buckets, values, groups
  <1>4. Cardinality(pairs) = Coverage(rows).overlap
    BY <1>1 DEF Coverage, AllPairs
  <1>5. SumFunction([g \in 1..count |-> buckets[g].count]) = Cardinality(pairs)
    <2>1. [g \in 1..count |-> buckets[g].count] = [g \in 1..count |-> Cardinality(BucketOf(rows, count, g))]
      BY <1>2
    <2> QED
      BY <1>1, <2>1, BucketsAddUp
  <1>6. SumFunction([g \in 1..count |-> buckets[g].sum]) = SumFunction([r \in pairs |-> r.return])
    <2>1. [g \in 1..count |-> buckets[g].sum]
             = [g \in 1..count |-> SumFunction([r \in BucketOf(rows, count, g) |-> r.return])]
      BY <1>2
    <2> QED
      BY <1>1, <2>1, BucketsAddUp
  <1>7. \A g, h \in 1..count : buckets[g].count <= buckets[h].count + Cardinality(days)
    <2> SUFFICES ASSUME NEW g \in 1..count, NEW h \in 1..count
                 PROVE  buckets[g].count <= buckets[h].count + Cardinality(days)
      OBVIOUS
    <2>1. Cardinality(BucketOf(rows, count, g)) <= Cardinality(BucketOf(rows, count, h)) + Cardinality(days)
      BY <1>1, GroupsAreEven
    <2> QED
      BY <1>2, <2>1
  <1>8. ASSUME NEW d \in days, NEW i \in DOMAIN values[d], NEW j \in DOMAIN values[d],
               values[d][i] < values[d][j]
        PROVE  groups[d][i] <= groups[d][j]
    <2>1. IsSection(PairedValues(rows, d))
      BY PairedValuesAre
    <2>2. values[d] = PairedValues(rows, d) /\ groups[d] = QuantileGroups(values[d], count)
      BY <1>3
    <2>3. IsSection(values[d])
      BY <2>1, <2>2
    <2>4. QuantileGroups(values[d], count)[i] <= QuantileGroups(values[d], count)[j]
      BY <1>8, <2>3, GroupsAscend
    <2> QED
      BY <2>2, <2>4
  <1>9. ASSUME NEW d \in days, NEW e \in days, NEW direction \in {"higher_is_better", "lower_is_better"},
               DOMAIN values[d] = DOMAIN values[e],
               \A i, j \in DOMAIN values[d] :
                  ComesBefore(values[d], i, j) <=> ComesBefore(values[e], i, j)
        PROVE  Retained(rows, d, e, direction, count) = Cardinality(Selected(rows, d, direction, count))
    <2>1. QuantileGroups(values[d], count) = QuantileGroups(values[e], count)
      BY <1>9, SameOrderSameGroups
    <2>2. Selected(rows, d, direction, count) = Selected(rows, e, direction, count)
      BY <1>3, <1>9, <2>1 DEF Selected
    <2>3. Selected(rows, d, direction, count) \cap Selected(rows, e, direction, count)
             = Selected(rows, d, direction, count)
      BY <2>2
    <2> QED
      BY <2>3 DEF Retained
  <1> QED
    BY <1>4, <1>5, <1>6, <1>7, <1>8, <1>9 DEF IsBalanced, pairs, buckets, values, groups

-----------------------------------------------------------------------------
(* What the cache holds are numbers                                        *)

LEMMA MinIsOneOf ==
    ASSUME NEW S, S \subseteq Int, IsFiniteSet(S), S # {}
    PROVE  Min(S) \in S
  <1> DEFINE Before == {p \in S \X S : p[1] < p[2]}
  <1>1. \A x, y \in S : <<x, y>> \in Before <=> x < y
    OBVIOUS
  <1> HIDE DEF Before
  <1>2. /\ \A x \in S : <<x, x>> \notin Before
        /\ \A x, y, z \in S : <<x, y>> \in Before /\ <<y, z>> \in Before => <<x, z>> \in Before
    BY <1>1
  <1>3. PICK x \in S : \A y \in S : <<y, x>> \notin Before
    BY <1>2, MinimumExists
  <1>4. ASSUME NEW y \in S PROVE x <= y
    <2>1. ~(y < x) /\ x \in Int /\ y \in Int
      BY <1>1, <1>3
    <2> QED
      BY <2>1
  <1> QED
    BY <1>4 DEF Min

LEMMA SumIsNumber ==
    ASSUME NEW e, IsFiniteSet(DOMAIN e), e = [x \in DOMAIN e |-> e[x]], \A x \in DOMAIN e : e[x] \in Int
    PROVE  SumFunction(e) \in Int
  <1> DEFINE A == DOMAIN e
  <1>1. PICK f : IsSum(f, e)
    BY SumExists
  <1>2. A \in SUBSET A
    OBVIOUS
  <1>3. f[A] \in Int
    <2>1. AddsUp(f, e)
      BY <1>1, SumInAnyOrder
    <2> QED
      BY <1>2, <2>1 DEF AddsUp
  <1>4. SumFunction([x \in A |-> e[x]]) = f[A]
    BY <1>1, <1>2, SumOfPart
  <1> QED
    BY <1>3, <1>4

\* Values by instrument and day that are numbers.
Numbers(instruments, days) == [instruments -> [days -> Int]]

HasOperands(e, operands) ==
    /\ e.op \in WindowOps => e.n \in Nat \ {0}
    /\ e.op \in NumericUnary \cup Arithmetic => 1 \in DOMAIN operands
    /\ e.op \in Arithmetic => 2 \in DOMAIN operands
    /\ e.op = "constant" => e.n \in Int

LEMMA FoldIsNumber ==
    ASSUME NEW op, NEW n \in Nat \ {0}, NEW values \in [1..n -> Int]
    PROVE  Fold(op, values) \in Int
  <1>1. IsFiniteSet(1..n)
    BY FS_Interval
  <1>2. Range(values) \subseteq Int /\ Range(values) # {} /\ IsFiniteSet(Range(values))
    <2>1. Range(values) = {values[m] : m \in 1..n}
      BY DEF Range
    <2>2. \A m \in 1..n : values[m] \in Int
      OBVIOUS
    <2>3. values[1] \in Range(values)
      BY <2>1
    <2>4. values \in Surjection(1..n, Range(values))
      BY <2>1 DEF Surjection
    <2>5. IsFiniteSet(Range(values))
      BY <1>1, <2>4, FS_Surjection
    <2> QED
      BY <2>1, <2>2, <2>3, <2>5
  <1>3. Min(Range(values)) \in Int /\ Max(Range(values)) \in Int
    BY <1>2, MinIsOneOf, MaxIsGreatest
  <1>4. SumFunction(values) \in Int
    <2>1. DOMAIN values = 1..n /\ values = [x \in 1..n |-> values[x]] /\ \A x \in 1..n : values[x] \in Int
      OBVIOUS
    <2> QED
      BY <1>1, <2>1, SumIsNumber
  <1> QED
    BY <1>3, <1>4 DEF Fold

LEMMA NodeIsNumber ==
    ASSUME NEW e, NEW operands, NEW instruments, IsFiniteSet(instruments), NEW days, NEW given,
           NEW inst \in instruments, NEW day \in days,
           e.op \in Computed, HasOperands(e, operands),
           e.op = "input" => given[<<e.name, inst, day>>] \in Int,
           \A a \in DOMAIN operands : operands[a] \in Numbers(instruments, days)
    PROVE  NodeValue(e, operands, inst, day, days, given) \in Int
  <1> DEFINE ValueBack(n) == LET back == Back(days, day, n)
                 IN  IF back = {} THEN Missing
                     ELSE operands[1][inst][CHOOSE d \in back : TRUE]
             window == [m \in 1..e.n |-> ValueBack(e.n - m)]
  <1>1. Missing \in Int
    BY DEF Missing
  <1>2. \A a \in DOMAIN operands : DOMAIN operands[a] = instruments
    BY DEF Numbers
  <1>3. \A a \in DOMAIN operands : \A i \in instruments : \A d \in days : operands[a][i][d] \in Int
    BY DEF Numbers
  <1>4. ASSUME 1 \in DOMAIN operands, NEW n PROVE ValueBack(n) \in Int
    <2>1. CASE Back(days, day, n) = {}
      BY <1>1, <2>1
    <2>2. CASE Back(days, day, n) # {}
      <3> DEFINE b == CHOOSE d \in Back(days, day, n) : TRUE
      <3>1. b \in Back(days, day, n)
        BY <2>2
      <3>2. ValueBack(n) = operands[1][inst][b]
        BY <2>2
      <3> HIDE DEF b
      <3>3. b \in days
        BY <3>1 DEF Back
      <3> QED
        BY <1>3, <1>4, <3>2, <3>3
    <2> QED
      BY <2>1, <2>2
  <1>5. CASE e.op \in {"input", "constant"}
    BY <1>5 DEF NodeValue, HasOperands
  <1>6. CASE e.op = "delay"
    <2>1. 1 \in DOMAIN operands
      BY <1>6 DEF HasOperands, NumericUnary, WindowOps
    <2>2. ValueBack(e.n) \in Int
      BY <1>4, <2>1
    <2> QED
      BY <1>6, <2>2 DEF NodeValue
  <1>7. CASE e.op \in RollingOps
    <2>1. 1 \in DOMAIN operands /\ e.n \in Nat \ {0}
      BY <1>7 DEF HasOperands, NumericUnary, WindowOps
    <2>2. window \in [1..e.n -> Int]
      <3> HIDE DEF ValueBack
      <3> QED
        BY <1>4, <2>1
    <2>3. Fold(e.op, window) \in Int
      <3> HIDE DEF window
      <3> QED
        BY <2>1, <2>2, FoldIsNumber
    <2>4. e.op \notin {"input", "constant", "delay"}
      BY <1>7 DEF RollingOps
    <2>5. NodeValue(e, operands, inst, day, days, given) = IF Known(window) THEN Fold(e.op, window) ELSE Missing
      BY <1>7, <2>4 DEF NodeValue
    <2> QED
      BY <1>1, <2>3, <2>5
  <1>8. CASE e.op = "rank"
    <2> DEFINE own == operands[1][inst][day]
               lower == {i \in DOMAIN operands[1] :
                            operands[1][i][day] # Missing /\ operands[1][i][day] < own}
    <2>1. 1 \in DOMAIN operands
      BY <1>8 DEF HasOperands, NumericUnary
    <2>2. lower \in SUBSET instruments
      BY <1>2, <2>1
    <2>3. Cardinality(lower) \in Nat
      <3> HIDE DEF lower
      <3> QED
        BY <2>2, FS_Subset, FS_CardinalityType
    <2>4. e.op \notin {"input", "constant", "delay"} \cup RollingOps
      BY <1>8 DEF RollingOps
    <2>5. NodeValue(e, operands, inst, day, days, given) = IF own = Missing THEN Missing ELSE Cardinality(lower)
      BY <1>8, <2>4 DEF NodeValue
    <2> QED
      BY <1>1, <2>3, <2>5
  <1>9. CASE e.op \in {"add", "sub", "mul", "neg", "pos"}
    <2> DEFINE current == [a \in DOMAIN operands |-> operands[a][inst][day]]
    <2>1. /\ 1 \in DOMAIN operands
          /\ e.op \in {"add", "sub", "mul"} => 2 \in DOMAIN operands
      BY <1>9 DEF HasOperands, NumericUnary, Arithmetic
    <2>2. \A a \in DOMAIN operands : current[a] \in Int
      BY <1>3
    <2>3. e.op \notin {"input", "constant", "delay", "rank"} \cup RollingOps
      BY <1>9 DEF RollingOps
    <2>4. NodeValue(e, operands, inst, day, days, given)
             = IF Known(current) THEN OfOperands(e.op, current) ELSE Missing
      BY <2>3 DEF NodeValue
    <2> HIDE DEF current
    <2>5. OfOperands(e.op, current) \in Int
      BY <1>9, <2>1, <2>2 DEF OfOperands
    <2> QED
      BY <1>1, <2>4, <2>5
  <1> QED
    BY <1>5, <1>6, <1>7, <1>8, <1>9 DEF Computed, RollingOps

\* The values of a formula are numbers if its nodes compute them and its inputs
\* are numbers.
IsComputed(f) ==
    /\ IsFormula(f)
    /\ \A k \in DOMAIN f : f[k].op \in Computed /\ HasOperands(f[k], f[k].args)

LEMMA ValuesAreNumbers ==
    ASSUME NEW f, IsComputed(f), NEW instruments, IsFiniteSet(instruments), NEW days, NEW given,
           \A name \in RequiredInputs(f), i \in instruments, d \in days : given[<<name, i, d>>] \in Int
    PROVE  ValueOf(f, instruments, days, given) \in Numbers(instruments, days)
  <1> DEFINE n == Len(f)
             V == NodeValues(f, instruments, days, given)
             T == {m \in 0..n : \A k \in 1..m : V[k] \in Numbers(instruments, days)}
  <1>1. /\ n \in Nat \ {0} /\ DOMAIN f = 1..n
        /\ \A k \in 1..n : \A a \in DOMAIN f[k].args : f[k].args[a] \in 1..(k - 1)
    BY FormulaShape DEF IsComputed
  <1>2. \A k \in 1..n : V[k] = NodeOf(f, instruments, days, given, V, k)
    BY NodeValuesAre DEF IsComputed
  <1>3. V[n] = ValueOf(f, instruments, days, given)
    BY DEF ValueOf
  <1> HIDE DEF V
  <1>4. ASSUME NEW k \in 1..n, \A j \in 1..(k - 1) : V[j] \in Numbers(instruments, days)
        PROVE  V[k] \in Numbers(instruments, days)
    <2> DEFINE e == f[k]
               operands == [a \in DOMAIN e.args |-> V[e.args[a]]]
    <2>1. DOMAIN operands = DOMAIN e.args /\ \A a \in DOMAIN operands : operands[a] \in Numbers(instruments, days)
      BY <1>1, <1>4
    <2>2. e.op \in Computed /\ HasOperands(e, e.args)
      BY <1>1 DEF IsComputed
    <2>3. e.op = "input" => e.name \in RequiredInputs(f)
      BY <1>1 DEF RequiredInputs
    <2>4. V[k] = [i \in instruments |-> [day \in days |-> NodeValue(e, operands, i, day, days, given)]]
      BY <1>2 DEF NodeOf
    <2> HIDE DEF e, operands
    <2>5. HasOperands(e, operands)
      BY <2>1, <2>2 DEF HasOperands
    <2>6. \A i \in instruments, day \in days : NodeValue(e, operands, i, day, days, given) \in Int
      BY <2>1, <2>2, <2>3, <2>5, NodeIsNumber
    <2> QED
      BY <2>4, <2>6 DEF Numbers
  <1>5. 0 \in T
    BY <1>1
  <1>6. ASSUME NEW m \in 1..n, m - 1 \in T PROVE m \in T
    <2>1. V[m] \in Numbers(instruments, days)
      BY <1>4, <1>6
    <2>2. \A k \in 1..m : k = m \/ k \in 1..(m - 1)
      BY <1>1
    <2> QED
      BY <1>1, <1>6, <2>1, <2>2
  <1>7. n \in T
    <2> HIDE DEF T
    <2>1. 0..n \subseteq T
      BY <1>1, <1>5, <1>6, Climb
    <2> QED
      BY <1>1, <2>1
  <1>8. n \in 1..n
    BY <1>1
  <1> QED
    BY <1>3, <1>7, <1>8

LEMMA PublishedIsComputed ==
    ASSUME NEW s \in Published, Compiles(s)
    PROVE  IsComputed(s.formula)
  <1> DEFINE f == s.formula
  <1>1. IsFormula(f) /\ s.windows \subseteq Nat
    BY PlanningConstants
  <1>2. ASSUME NEW k \in DOMAIN f PROVE f[k].op \in Computed /\ HasOperands(f[k], f[k].args)
    <2>1. WellTyped(f, k)
      BY DEF Compiles
    <2>2. DOMAIN OperandTypes(f, k) = DOMAIN f[k].args
      BY DEF OperandTypes
    <2>3. f[k].op \in NumericUnary => 1 \in DOMAIN f[k].args
      <3>1. f[k].op \in NumericUnary => OperandTypes(f, k) = <<"numeric">>
        BY <2>1 DEF WellTyped, NumericUnary, WindowOps, RollingOps, Arithmetic, Comparisons
      <3> QED
        BY <2>2, <3>1
    <2>4. f[k].op \in Arithmetic => 1 \in DOMAIN f[k].args /\ 2 \in DOMAIN f[k].args
      <3>1. f[k].op \in Arithmetic => OperandTypes(f, k) = <<"numeric", "numeric">>
        BY <2>1 DEF WellTyped, NumericUnary, WindowOps, RollingOps, Arithmetic, Comparisons
      <3> QED
        BY <2>2, <3>1
    <2>5. f[k].op \in WindowOps => f[k].n \in Nat \ {0}
      BY <1>1, <1>2 DEF Compiles
    <2>6. f[k].op \in Computed /\ (f[k].op = "constant" => f[k].n \in Int)
      BY EvaluatedConstants
    <2> QED
      BY <2>3, <2>4, <2>5, <2>6 DEF HasOperands
  <1> QED
    BY <1>1, <1>2 DEF IsComputed

-----------------------------------------------------------------------------
(* What is evaluated                                                       *)

HeldBy(p) == IF p.inst = Missing THEN Instruments ELSE {p.inst}

\* Data and cached values are numbers, and a factor in the cache has a value
\* there of each instrument on each planned day.
NumbersInv ==
    /\ \A q \in DOMAIN Data : data[q] \in Int
    /\ \A p \in DOMAIN cache : cache[p] \in [HeldBy(p) -> Int]
    /\ \A p \in DOMAIN cache, i \in Instruments, k \in DOMAIN PlannedDays :
          \E q \in DOMAIN cache : q.spec = p.spec /\ q.day = PlannedDays[k] /\ i \in HeldBy(q)

LEMMA PartitionIsNumbers ==
    ASSUME ScreeningTypeOK, \A q \in DOMAIN Data : data[q] \in Int,
           NEW p, p.spec \in Published, Compiles(p.spec), p.inst \in Instruments \cup {Missing},
           p.day \in TradingDays
    PROVE  ValuesOf(p) \in [HeldBy(p) -> Int]
  <1> DEFINE f == p.spec.formula
             values == ValueOf(f, Instruments, TradingDays, data)
  <1>1. IsComputed(f)
    BY PublishedIsComputed
  <1>2. \A name \in RequiredInputs(f), i \in Instruments, d \in TradingDays : data[<<name, i, d>>] \in Int
    <2> SUFFICES ASSUME NEW name \in RequiredInputs(f), NEW i \in Instruments, NEW d \in TradingDays
                 PROVE  data[<<name, i, d>>] \in Int
      OBVIOUS
    <2>1. <<name, i, d>> \in RequiredInputs(f) \X Instruments \X TradingDays
      OBVIOUS
    <2> QED
      BY <2>1, PlanningConstants
  <1>3. values \in Numbers(Instruments, TradingDays)
    <2> HIDE DEF f
    <2> QED
      BY <1>1, <1>2, EvaluatedConstants, ValuesAreNumbers
  <1> HIDE DEF values
  <1>4. \A i \in Instruments : values[i][p.day] \in Int
    BY <1>3 DEF Numbers
  <1>5. HeldBy(p) \subseteq Instruments
    BY DEF HeldBy
  <1>6. ValuesOf(p) = [i \in HeldBy(p) |-> values[i][p.day]]
    BY DEF ValuesOf, HeldBy, values
  <1> QED
    BY <1>4, <1>5, <1>6

LEMMA PlanHasNumbers ==
    ASSUME ScreeningInv, NumbersInv, NEW specs \in SUBSET Published, PlanCache(specs)
    PROVE  NumbersInv'
  <1> DEFINE partitions == Partitions(specs, Instruments, PlannedDays)
  <1>1. cache' = [p \in partitions |-> ValuesOf(p)] /\ data' = data /\ BuildsDag(specs)
    BY DEF PlanCache
  <1>2. CacheIsPlanned'
    BY PlanIsPlanned
  <1>3. DOMAIN cache' = partitions
    BY <1>1
  <1>4. ASSUME NEW p \in partitions PROVE ValuesOf(p) \in [HeldBy(p) -> Int]
    <2>1. /\ p.spec \in Published /\ Compiles(p.spec) /\ p.inst \in Instruments \cup {Missing}
          /\ \E k \in DOMAIN PlannedDays : p.day = PlannedDays[k]
      BY <1>2, <1>3 DEF CacheIsPlanned
    <2>2. p.day \in TradingDays
      BY <2>1, PlannedDaysAre
    <2> QED
      BY <2>1, <2>2, PartitionIsNumbers DEF ScreeningInv, NumbersInv
  <1>5. ASSUME NEW p \in partitions, NEW i \in Instruments, NEW k \in DOMAIN PlannedDays
        PROVE  \E q \in partitions : q.spec = p.spec /\ q.day = PlannedDays[k] /\ i \in HeldBy(q)
    <2>1. PICK s \in specs : p \in PartitionsOf(s, Instruments, PlannedDays)
      BY DEF Partitions
    <2> DEFINE start(j) == PlannedDays[Max({1, j - LookbackPeriods(s.formula)})]
               planned == (IF NeedsTimeSeries(s) THEN Instruments ELSE {})
                              \cup (IF NeedsCrossSection(s) THEN {Missing} ELSE {})
    <2>2. PartitionsOf(s, Instruments, PlannedDays)
             = {[spec |-> s, inst |-> j, day |-> PlannedDays[m], start |-> start(m)] :
                   j \in planned, m \in DOMAIN PlannedDays}
      BY ONLY DEF PartitionsOf
    <2>3. \E j \in planned : j = i \/ j = Missing
      BY DEF NeedsCrossSection
    <2> HIDE DEF start, planned
    <2>4. p.spec = s
      BY <2>1, <2>2
    <2>5. PICK j \in planned : j = i \/ j = Missing
      BY <2>3
    <2> DEFINE q == [spec |-> s, inst |-> j, day |-> PlannedDays[k], start |-> start(k)]
    <2>6. q \in PartitionsOf(s, Instruments, PlannedDays)
      BY <2>2
    <2>7. q \in partitions
      BY <2>6 DEF Partitions
    <2>8. q.spec = s /\ q.day = PlannedDays[k] /\ q.inst = j
      OBVIOUS
    <2> HIDE DEF q
    <2>9. i \in HeldBy(q)
      BY <2>5, <2>8 DEF HeldBy
    <2> HIDE DEF partitions
    <2> QED
      BY <2>4, <2>7, <2>8, <2>9
  <1> HIDE DEF partitions
  <1>6. \A p \in DOMAIN cache' : cache'[p] \in [HeldBy(p) -> Int]
    BY <1>1, <1>3, <1>4
  <1>7. \A q \in DOMAIN Data : data'[q] \in Int
    BY <1>1 DEF NumbersInv
  <1> QED
    BY <1>3, <1>5, <1>6, <1>7 DEF NumbersInv

LEMMA NumbersStay ==
    ASSUME ScreeningInv, NumbersInv, [ScreeningNext]_screeningVars
    PROVE  NumbersInv'
  <1>1. ASSUME NEW specs \in SUBSET Published, PlanCache(specs) PROVE NumbersInv'
    BY <1>1, PlanHasNumbers
  <1>2. ASSUME NEW r \in Restatements, NEW byDay \in BOOLEAN, Restate(r, byDay) PROVE NumbersInv'
    <2>1. cache' = cache /\ data' = [data EXCEPT ![r.key] = r.value]
      BY <1>2 DEF Restate
    <2>2. r.value \in Int
      BY EvaluatedConstants
    <2>3. \A q \in DOMAIN Data : data'[q] \in Int
      BY <2>1, <2>2 DEF NumbersInv, ScreeningInv, ScreeningTypeOK
    <2> QED
      BY <2>1, <2>3 DEF NumbersInv
  <1>3. ASSUME Recompute PROVE NumbersInv'
    <2>1. /\ cache' = [p \in DOMAIN cache |->
                          IF p \in RecomputePlan(DOMAIN cache, pending) THEN ValuesOf(p) ELSE cache[p]]
          /\ data' = data
      BY <1>3 DEF Recompute
    <2>2. DOMAIN cache' = DOMAIN cache
      BY <2>1
    <2>3. ASSUME NEW p \in DOMAIN cache PROVE cache'[p] \in [HeldBy(p) -> Int]
      <3>1. /\ p.spec \in Published /\ Compiles(p.spec) /\ p.inst \in Instruments \cup {Missing}
            /\ \E k \in DOMAIN PlannedDays : p.day = PlannedDays[k]
        BY DEF ScreeningInv, CacheIsPlanned
      <3>2. p.day \in TradingDays
        BY <3>1, PlannedDaysAre
      <3>3. ValuesOf(p) \in [HeldBy(p) -> Int]
        BY <3>1, <3>2, PartitionIsNumbers DEF ScreeningInv, NumbersInv
      <3> QED
        BY <2>1, <3>3 DEF NumbersInv
    <2> QED
      BY <2>1, <2>2, <2>3 DEF NumbersInv
  <1>4. ASSUME UNCHANGED <<data, cache>> PROVE NumbersInv'
    BY <1>4 DEF NumbersInv
  <1> QED
    BY <1>1, <1>2, <1>3, <1>4 DEF ScreeningNext, screeningVars, RunScreen

LEMMA CachedIsNumber ==
    ASSUME NumbersInv, NEW p \in DOMAIN cache, NEW i \in Instruments, NEW day \in Range(PlannedDays)
    PROVE  CachedValues(p.spec, day)[i] \in Int
  <1> DEFINE of == {q \in DOMAIN cache : q.spec = p.spec /\ q.day = day}
             Holder == CHOOSE q \in of : i \in DOMAIN cache[q]
  <1>1. PICK k \in DOMAIN PlannedDays : day = PlannedDays[k]
    BY DEF Range
  <1>2. PICK q \in of : i \in HeldBy(q)
    BY <1>1 DEF NumbersInv
  <1>3. \A h \in of : DOMAIN cache[h] = HeldBy(h) /\ \A j \in HeldBy(h) : cache[h][j] \in Int
    BY DEF NumbersInv
  <1>4. CachedValues(p.spec, day)[i] = cache[Holder][i]
    BY DEF CachedValues
  <1> HIDE DEF of
  <1>5. Holder \in of /\ i \in DOMAIN cache[Holder]
    BY <1>2, <1>3
  <1> HIDE DEF Holder
  <1> QED
    BY <1>3, <1>4, <1>5

LEMMA CacheIsObserved ==
    ASSUME ScreeningInv, NumbersInv, NEW p \in DOMAIN cache
    PROVE  /\ AreObservations(ObservationsOf(p.spec))
           /\ \A r \in ObservationsOf(p.spec) : r.day \in Range(PlannedDays)
  <1> DEFINE days == Range(PlannedDays)
             Close(i, day) == data[<<"close", i, day>>]
             Gain(i, day) ==
                IF NextDay(day) = 0 THEN Missing
                ELSE IF Missing \in {Close(i, day), Close(i, NextDay(day))} THEN Missing
                ELSE Close(i, NextDay(day)) - Close(i, day)
             Row(i, day) == [inst |-> i, day |-> day, value |-> CachedValues(p.spec, day)[i],
                             return |-> Gain(i, day)]
             rows == {Row(i, day) : i \in Instruments, day \in days}
  <1>1. ObservationsOf(p.spec) = rows
    BY DEF ObservationsOf
  <1>2. days \subseteq TradingDays /\ IsFiniteSet(days)
    <2>1. days \in SUBSET TradingDays
      BY PlannedDaysAre DEF Range
    <2> HIDE DEF days
    <2> QED
      BY <2>1, PlannedDaysAre, FS_Subset
  <1>3. \A i \in Instruments : \A day \in TradingDays : Close(i, day) \in Int
    <2> SUFFICES ASSUME NEW i \in Instruments, NEW day \in TradingDays PROVE Close(i, day) \in Int
      OBVIOUS
    <2>1. <<"close", i, day>> \in {"close"} \X Instruments \X TradingDays
      OBVIOUS
    <2> QED
      BY <2>1, EvaluatedConstants DEF NumbersInv
  <1>4. \A day \in TradingDays : NextDay(day) # 0 => NextDay(day) \in TradingDays
    <2> SUFFICES ASSUME NEW day \in TradingDays, NextDay(day) # 0 PROVE NextDay(day) \in TradingDays
      OBVIOUS
    <2> DEFINE later == {d \in TradingDays : d > day}
    <2>1. later # {} /\ NextDay(day) = Min(later)
      BY DEF NextDay
    <2>2. later \in SUBSET TradingDays /\ later \subseteq Int
      BY PlannedDaysAre
    <2> HIDE DEF later
    <2>3. Min(later) \in later
      BY <2>1, <2>2, PlannedDaysAre, FS_Subset, MinIsOneOf
    <2> QED
      BY <2>1, <2>2, <2>3
  <1>5. \A i \in Instruments : \A day \in days : Gain(i, day) \in Int
    <2> HIDE DEF days, Close
    <2> QED
      BY <1>2, <1>3, <1>4 DEF Missing
  <1>6. \A i \in Instruments : \A day \in days : CachedValues(p.spec, day)[i] \in Int
    BY CachedIsNumber
  <1>7. \A i \in Instruments : i \in Int
    BY EvaluatedConstants
  <1>8. IsFiniteSet(rows)
    <2> DEFINE all == Instruments \X days
               row == [c \in all |-> Row(c[1], c[2])]
    <2> HIDE DEF days, Row
    <2>1. IsFiniteSet(all)
      BY <1>2, EvaluatedConstants, FS_Product
    <2>2. \A i \in Instruments, day \in days : <<i, day>> \in all /\ row[<<i, day>>] = Row(i, day)
      OBVIOUS
    <2>3. \A c \in all : c[1] \in Instruments /\ c[2] \in days /\ row[c] = Row(c[1], c[2])
      OBVIOUS
    <2> HIDE DEF all
    <2>4. row \in Surjection(all, rows)
      <3>1. \A c \in all : row[c] \in rows
        BY <2>3
      <3>2. ASSUME NEW r \in rows PROVE \E c \in all : row[c] = r
        <4>1. PICK i \in Instruments, day \in days : r = Row(i, day)
          OBVIOUS
        <4>2. <<i, day>> \in all /\ row[<<i, day>>] = r
          BY <2>2, <4>1
        <4> QED
          BY <4>2
      <3>3. row = [c \in all |-> row[c]]
        OBVIOUS
      <3> HIDE DEF row, rows
      <3> QED
        BY <3>1, <3>2, <3>3 DEF Surjection
    <2> HIDE DEF row, rows
    <2> QED
      BY <2>1, <2>4, FS_Surjection
  <1> HIDE DEF days, Gain
  <1>9. \A r \in rows : r.inst \in Int /\ r.value \in Int /\ r.return \in Int
    BY <1>5, <1>6, <1>7
  <1>10. \A r, s \in rows : r.inst = s.inst /\ r.day = s.day => r = s
    OBVIOUS
  <1>11. \A r \in rows : r.day \in days
    OBVIOUS
  <1> HIDE DEF rows
  <1> QED
    BY <1>1, <1>8, <1>9, <1>10, <1>11 DEF AreObservations, days

LEMMA CacheIsBalanced ==
    ASSUME ScreeningInv, NumbersInv
    PROVE  EvaluationsAreBalanced
  <1> SUFFICES ASSUME NEW spec \in {p.spec : p \in DOMAIN cache}, NEW count \in 2..Cardinality(Instruments)
               PROVE  IsBalanced(ObservationsOf(spec),
                                 {d \in Range(PlannedDays) : Pairs(ObservationsOf(spec), d) # {}}, count)
    BY Zenon DEF EvaluationsAreBalanced, IsBalanced
  <1>1. PICK p \in DOMAIN cache : spec = p.spec
    OBVIOUS
  <1> DEFINE rows == ObservationsOf(spec)
             days == {d \in Range(PlannedDays) : Pairs(rows, d) # {}}
  <1>2. AreObservations(rows)
    BY <1>1, CacheIsObserved
  <1>3. \A r \in rows : r.day \in Range(PlannedDays)
    BY <1>1, CacheIsObserved
  <1> HIDE DEF rows
  <1>4. \A d : d \in days <=> Pairs(rows, d) # {}
    BY <1>3 DEF Pairs
  <1>5. IsFiniteSet(days)
    <2>1. days \in SUBSET TradingDays
      BY PlannedDaysAre DEF Range
    <2> HIDE DEF days
    <2> QED
      BY <2>1, PlannedDaysAre, FS_Subset
  <1>6. count \in Nat \ {0}
    <2>1. Cardinality(Instruments) \in Nat
      BY EvaluatedConstants, FS_CardinalityType
    <2> QED
      BY <2>1
  <1> HIDE DEF days
  <1>7. IsBalanced(rows, days, count)
    BY <1>2, <1>4, <1>5, <1>6, ObservationsAreBalanced
  <1> QED
    BY <1>7 DEF days, rows

\* Whatever formulas are published and however data are restated, an evaluation
\* of a cached factor puts every pair it counts into one group of its day, the
\* returns of the groups add up to those of the pairs, no group grows ahead of
\* another by more than one pair a day, and groups ascend with the values: what
\* evaluate_factor reports of its groups is a partition of what it covers.
THEOREM EvaluationsAlwaysBalance == ScreeningSpec => []EvaluationsAreBalanced
  <1>1. ScreeningInit => ScreeningInv /\ NumbersInv
    <2>1. ScreeningInit => ScreeningInv
      BY DEF ScreeningInit, ScreeningInv, ScreeningTypeOK, CacheIsPlanned, StaleIsSelected, NoChange
    <2>2. ScreeningInit => NumbersInv
      BY EvaluatedConstants DEF ScreeningInit, NumbersInv
    <2> QED
      BY <2>1, <2>2
  <1>2. ScreeningInv /\ NumbersInv /\ [ScreeningNext]_screeningVars => ScreeningInv' /\ NumbersInv'
    BY ScreeningNextKeeps, NumbersStay
  <1>3. ScreeningInv /\ NumbersInv => EvaluationsAreBalanced
    BY CacheIsBalanced
  <1> QED
    BY <1>1, <1>2, <1>3, PTL DEF ScreeningSpec
=============================================================================
