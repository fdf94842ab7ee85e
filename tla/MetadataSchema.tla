--------------------------- MODULE MetadataSchema ---------------------------
(***************************************************************************)
(* The tables Metadata owns, and the projection snapshots a source owner   *)
(* hands to Sync.                                                          *)
(*                                                                         *)
(* A table is a function from the natural key of its rows to the row, or   *)
(* to Absent.  Three of the four primary keys are computed from natural    *)
(* keys (resourceType:key, localized:sha256(...), "current"), so each      *)
(* natural key has at most one row, which is what the UNIQUE constraints   *)
(* of the schema also say.  The id of a version joins the resource key and *)
(* the schema version with a colon, which either may contain: two versions *)
(* of two resources can have one id.  Timestamps, names, payload bytes and *)
(* the default locale are left out: no decision of the code reads them.    *)
(***************************************************************************)
EXTENDS Naturals, Sequences, FiniteSets

CONSTANTS
  Resources,       \* identities of definitions: (resource_type, resource_key)
  Versions,        \* schema versions
  Hashes,          \* schema hashes
  Sources,         \* (source_kind, source_id) pairs; the code compares both
  WorkspaceOrder,  \* the workspaces, in the order sort.Strings puts them
  TextKeys,        \* (entity_type, entity_key, property, locale)
  Texts,           \* display texts
  IdOf,            \* IdOf[<<r, v>>]: the primary key of r's version v
  Snapshots,       \* the projection snapshots that may be handed to Sync
  Absent           \* no row

Workspaces == {WorkspaceOrder[i] : i \in DOMAIN WorkspaceOrder}

VersionIds == Resources \X Versions
TextIds    == Workspaces \X TextKeys
Current    == "current"

\* The versions that share the id of v.
SameId(v) == {u \in VersionIds : IdOf[u] = IdOf[v]}

(***************************************************************************)
(* The rows.                                                               *)
(***************************************************************************)
DefinitionRow == [version : Versions, hash : Hashes, source : Sources,
                  disabled : BOOLEAN]
TextRow       == [text : Texts, source : Sources]
ProjectionRow == [version : Versions, source : Sources]

Database ==
  [defs : [Resources  -> DefinitionRow \cup {Absent}],
   vers : [VersionIds -> Hashes \cup {Absent}],
   txts : [TextIds    -> TextRow \cup {Absent}],
   proj : [{Current}  -> ProjectionRow \cup {Absent}]]

\* The tables as the migration creates them.
EmptyDatabase ==
  [defs |-> [r \in Resources |-> Absent],
   vers |-> [v \in VersionIds |-> Absent],
   txts |-> [i \in TextIds |-> Absent],
   proj |-> [c \in {Current} |-> Absent]]

(***************************************************************************)
(* A snapshot.  "identified" says that its schema version, source kind and *)
(* source id are all non-blank; "valid" stands for the checks on one       *)
(* definition (supported type, key, JSON payload) or one localized text.   *)
(* texts groups the snapshot's localized texts by workspace, in the order  *)
(* they were given.                                                        *)
(***************************************************************************)
SnapshotDefinition == [res : Resources, hash : Hashes, valid : BOOLEAN]
SnapshotText       == [key : TextKeys, text : Texts, valid : BOOLEAN]
ProjectionSnapshot ==
  [identified : BOOLEAN, version : Versions, source : Sources,
   defs : Seq(SnapshotDefinition),
   texts : [Workspaces -> Seq(SnapshotText)]]

TextsValid(s) ==
  \A w \in Workspaces : \A i \in DOMAIN s.texts[w] : s.texts[w][i].valid

\* Mutant: a definition without a schema hash keeps none.
PublishedRowUnhashed(s, d) ==
  [version |-> s.version, hash |-> Absent, source |-> s.source,
   disabled |-> FALSE]

\* What a snapshot makes of one of its definitions.
PublishedRow(s, d) ==
  [version |-> s.version, hash |-> d.hash, source |-> s.source,
   disabled |-> FALSE]

(***************************************************************************)
(* Assumptions on the constants.                                           *)
(***************************************************************************)
ASSUME WorkspaceOrderIsSequence == WorkspaceOrder \in Seq(Workspaces)

\* The id ends in the version: what is left is the resource.
ASSUME IdAndVersionGiveResource ==
  \A u, v \in VersionIds : IdOf[u] = IdOf[v] /\ u[2] = v[2] => u = v

ASSUME SnapshotsTyped == Snapshots \subseteq ProjectionSnapshot

ASSUME AbsentIsNoRow ==
  /\ Absent \notin DefinitionRow
  /\ Absent \notin TextRow
  /\ Absent \notin ProjectionRow
  /\ Absent \notin Hashes

=============================================================================
