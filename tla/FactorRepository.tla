--------------------------- MODULE FactorRepository ---------------------------
(* LocalFactorDefinitionRepository (quant/factors/definitions.py): drafts,   *)
(* immutable versions, the index from semantic versions to them, retirements *)
(* and the audit log, each a file of its own that is replaced atomically.    *)
(* No lock is held across files: clients interleave between them and may     *)
(* crash there.  A version id is the hash of what is published, so a version *)
(* is named by its content, here an element of Specs.                        *)
EXTENDS Naturals, FiniteSets

CONSTANTS
    Clients,
    Specs,          \* what a draft may say, its semantic version included
    Semantics,      \* a definition id with a semantic version
    SemanticOf,     \* that of each of the Specs
    Stamps,         \* who published and when; the same for a retirement
    Nothing,
    MaxCrashes      \* bound on the crashes

ASSUME RepositoryConstants ==
    /\ SemanticOf \in [Specs -> Semantics]
    /\ Nothing \notin Specs \cup Stamps
    /\ MaxCrashes \in Nat

VARIABLES
    drafts,         \* drafts/: semantic version -> spec
    recorded,       \* versions/: spec -> the stamp it was published with
    index,          \* semantic-index/: semantic version -> spec
    retired,        \* retirements/: spec -> stamp
    audit,          \* audit/events.jsonl, as a set of events
    client,         \* where in its call each client is, and what it has read
    lost,           \* history: the events whose client died before logging them
    crashes

repositoryVars ==
    <<drafts, recorded, index, retired, audit, client, lost, crashes>>

\* seen is the version the index named when it was read.
AtRest == [at |-> "idle", spec |-> Nothing, stamp |-> Nothing, seen |-> Nothing]

Places == {"idle", "draft_saved", "draft_read", "index_read",
           "version_absent", "version_written", "index_written", "retiring",
           "retired", "refused"}

RepositoryTypeOK ==
    /\ drafts \in [Semantics -> Specs \cup {Nothing}]
    /\ recorded \in [Specs -> Stamps \cup {Nothing}]
    /\ index \in [Semantics -> Specs \cup {Nothing}]
    /\ retired \in [Specs -> Stamps \cup {Nothing}]
    /\ audit \subseteq [action : {"draft_saved", "published", "retired"},
                        spec : Specs]
    /\ client \in [Clients -> [at : Places, spec : Specs \cup {Nothing},
                               stamp : Stamps \cup {Nothing},
                               seen : Specs \cup {Nothing}]]
    /\ lost \subseteq [action : {"published", "retired"}, spec : Specs]
    /\ crashes \in 0..MaxCrashes

RepositoryInit ==
    /\ drafts = [s \in Semantics |-> Nothing]
    /\ recorded = [v \in Specs |-> Nothing]
    /\ index = [s \in Semantics |-> Nothing]
    /\ retired = [v \in Specs |-> Nothing]
    /\ audit = {}
    /\ client = [c \in Clients |-> AtRest]
    /\ lost = {}
    /\ crashes = 0

Stands(c, place) == client[c].at = place

Go(c, place, spec, stamp, seen) ==
    client' = [client EXCEPT ![c] = [at |-> place, spec |-> spec,
                                     stamp |-> stamp, seen |-> seen]]

Move(c, place) ==
    Go(c, place, client[c].spec, client[c].stamp, client[c].seen)

Return(c) == client' = [client EXCEPT ![c] = AtRest]

Log(action, spec) == audit' = audit \cup {[action |-> action, spec |-> spec]}

-----------------------------------------------------------------------------
\* save_draft: the draft's file, then its event.
SaveDraft(c, spec) ==
    /\ Stands(c, "idle")
    /\ drafts' = [drafts EXCEPT ![SemanticOf[spec]] = spec]
    /\ Go(c, "draft_saved", spec, Nothing, Nothing)
    /\ UNCHANGED <<recorded, index, retired, audit, lost, crashes>>

LogDraft(c) ==
    /\ Stands(c, "draft_saved")
    /\ Log("draft_saved", client[c].spec)
    /\ Return(c)
    /\ UNCHANGED <<drafts, recorded, index, retired, lost, crashes>>

\* publish_draft reads the draft, then the index: an index that names another
\* version refuses; one that names this version is not written again.
ReadDraft(c, semantic, stamp) ==
    /\ Stands(c, "idle") /\ drafts[semantic] # Nothing
    /\ Go(c, "draft_read", drafts[semantic], stamp, Nothing)
    /\ UNCHANGED <<drafts, recorded, index, retired, audit, lost, crashes>>

ReadIndex(c) ==
    LET named == index[SemanticOf[client[c].spec]]
    IN  /\ Stands(c, "draft_read")
        /\ Go(c, IF named \in {Nothing, client[c].spec}
                 THEN "index_read" ELSE "refused",
              client[c].spec, client[c].stamp, named)
        /\ UNCHANGED <<drafts, recorded, index, retired, audit, lost, crashes>>

\* Mutant: the index is written again whatever was seen.
RecordIsThereAnyway(c) == Move(c, "version_written")

\* The index is written only by who has seen none.
RecordIsThere(c) ==
    IF client[c].seen = Nothing THEN Move(c, "version_written") ELSE Return(c)

\* Mutant: the record is looked for under the semantic version.
FindVersionOfSemantic(c) ==
    LET found == {recorded[v] : v \in {w \in Specs :
                      SemanticOf[w] = SemanticOf[client[c].spec]}} \ {Nothing}
    IN  /\ Stands(c, "index_read")
        /\ \/ found = {} /\ Move(c, "version_absent")
           \/ client[c].stamp \in found /\ RecordIsThere(c)
           \/ found # {} /\ client[c].stamp \notin found /\ Move(c, "refused")
        /\ UNCHANGED <<drafts, recorded, index, retired, audit, lost, crashes>>

\* _publish_version_record: a record with another stamp is another content.
FindVersion(c) ==
    LET found == recorded[client[c].spec]
    IN  /\ Stands(c, "index_read")
        /\ \/ found = Nothing /\ Move(c, "version_absent")
           \/ found = client[c].stamp /\ RecordIsThere(c)
           \/ found \notin {Nothing, client[c].stamp} /\ Move(c, "refused")
        /\ UNCHANGED <<drafts, recorded, index, retired, audit, lost, crashes>>

WriteVersion(c) ==
    /\ Stands(c, "version_absent")
    /\ recorded' = [recorded EXCEPT ![client[c].spec] = client[c].stamp]
    /\ RecordIsThere(c)
    /\ UNCHANGED <<drafts, index, retired, audit, lost, crashes>>

\* Mutant: publishing ends with the index.
WriteIndexSilently(c) ==
    /\ Stands(c, "version_written")
    /\ index' = [index EXCEPT ![SemanticOf[client[c].spec]] = client[c].spec]
    /\ Return(c)
    /\ UNCHANGED <<drafts, recorded, retired, audit, lost, crashes>>

WriteIndex(c) ==
    /\ Stands(c, "version_written")
    /\ index' = [index EXCEPT ![SemanticOf[client[c].spec]] = client[c].spec]
    /\ Move(c, "index_written")
    /\ UNCHANGED <<drafts, recorded, retired, audit, lost, crashes>>

LogPublished(c) ==
    /\ Stands(c, "index_written")
    /\ Log("published", client[c].spec)
    /\ Return(c)
    /\ UNCHANGED <<drafts, recorded, index, retired, lost, crashes>>

\* retire_version: of a version there is, once, and again with the same stamp.
Retire(c, spec, stamp) ==
    /\ Stands(c, "idle") /\ recorded[spec] # Nothing
    /\ \/ retired[spec] = Nothing /\ Go(c, "retiring", spec, stamp, Nothing)
       \/ retired[spec] \notin {Nothing, stamp} /\ Go(c, "refused", spec, stamp, Nothing)
    /\ UNCHANGED <<drafts, recorded, index, retired, audit, lost, crashes>>

WriteRetirement(c) ==
    /\ Stands(c, "retiring")
    /\ retired' = [retired EXCEPT ![client[c].spec] = client[c].stamp]
    /\ Move(c, "retired")
    /\ UNCHANGED <<drafts, recorded, index, audit, lost, crashes>>

LogRetired(c) ==
    /\ Stands(c, "retired")
    /\ Log("retired", client[c].spec)
    /\ Return(c)
    /\ UNCHANGED <<drafts, recorded, index, retired, lost, crashes>>

\* The caller gets the error.
Raise(c) ==
    /\ Stands(c, "refused")
    /\ Return(c)
    /\ UNCHANGED <<drafts, recorded, index, retired, audit, lost, crashes>>

\* What a client has written and not yet logged: a retry finds it written and
\* returns without logging it.
Unlogged(c) ==
    IF Stands(c, "index_written")
    THEN {[action |-> "published", spec |-> client[c].spec]}
    ELSE IF Stands(c, "retired")
    THEN {[action |-> "retired", spec |-> client[c].spec]}
    ELSE {}

Die(c) ==
    /\ ~Stands(c, "idle") /\ crashes < MaxCrashes
    /\ Return(c)
    /\ lost' = lost \cup Unlogged(c)
    /\ crashes' = crashes + 1
    /\ UNCHANGED <<drafts, recorded, index, retired, audit>>

RepositoryNext ==
    \E c \in Clients :
        \/ \E v \in Specs : SaveDraft(c, v)
        \/ LogDraft(c)
        \/ \E s \in Semantics, t \in Stamps : ReadDraft(c, s, t)
        \/ ReadIndex(c)
        \/ FindVersion(c)
        \/ WriteVersion(c)
        \/ WriteIndex(c)
        \/ LogPublished(c)
        \/ \E v \in Specs, t \in Stamps : Retire(c, v, t)
        \/ WriteRetirement(c)
        \/ LogRetired(c)
        \/ Raise(c)
        \/ Die(c)

RepositorySpec == RepositoryInit /\ [][RepositoryNext]_repositoryVars

-----------------------------------------------------------------------------
(* Whatever crashes and overlaps, the index names versions that are there,   *)
(* and so does every retirement and every event but a saved draft's.         *)
RecordsAreBacked ==
    /\ \A s \in Semantics : index[s] # Nothing =>
          recorded[index[s]] # Nothing /\ SemanticOf[index[s]] = s
    /\ \A v \in Specs : retired[v] # Nothing => recorded[v] # Nothing
    /\ \A e \in audit : e.action # "draft_saved" => recorded[e.spec] # Nothing

(* Whatever the index names and whatever is retired is in the audit log, or  *)
(* its client is on the way to logging it, or died on that way: publish_draft *)
(* and retire_version lose an event in no other way.                         *)
AuditIsComplete ==
    LET Accounted(action, spec) ==
            LET event == [action |-> action, spec |-> spec]
            IN  event \in audit \cup lost \/ \E c \in Clients : event \in Unlogged(c)
    IN  /\ \A s \in Semantics : index[s] # Nothing => Accounted("published", index[s])
        /\ \A v \in Specs : retired[v] # Nothing => Accounted("retired", v)

\* The publishers under way that have found no index entry.
OpenPublishers(semantic) ==
    {c \in Clients :
        /\ client[c].at \in {"index_read", "version_absent", "version_written"}
        /\ client[c].seen = Nothing
        /\ SemanticOf[client[c].spec] = semantic}

Settled(semantic) == index[semantic] # Nothing /\ OpenPublishers(semantic) = {}

(* Publishers that overlap may move an index entry from one content to       *)
(* another; once none is under way that had found no entry, it stands for    *)
(* good (publish_draft reads the index once, before it writes the version).  *)
SettledIndexStands ==
    [][\A s \in Semantics :
          Settled(s) => index'[s] = index[s] /\ OpenPublishers(s)' = {}]_repositoryVars
=============================================================================
