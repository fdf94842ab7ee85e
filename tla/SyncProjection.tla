--------------------------- MODULE SyncProjection ---------------------------
(***************************************************************************)
(* DefinitionStore.SyncProjection, one SQL statement per step, run by      *)
(* several publishers at once, each call inside a transaction of its own   *)
(* or of the embedding host.                                               *)
(*                                                                         *)
(* A publisher's transaction is an overlay on the committed tables: the    *)
(* cells it wrote, which are also the row locks it holds.  Two engines are *)
(* modelled:                                                               *)
(*   "serial"          one write transaction at a time (SQLite);           *)
(*   "read_committed"  row locks and statement snapshots (PostgreSQL's     *)
(*                     default level, which BeginTx(ctx, nil) asks for).   *)
(* Under read_committed an UPDATE or DELETE picks its rows when it starts, *)
(* waits for those another transaction locks, and then writes the ones     *)
(* that still satisfy its WHERE clause; a row inserted meanwhile is not    *)
(* among them.                                                             *)
(***************************************************************************)
EXTENDS MetadataSchema

CONSTANTS
  Publishers,      \* goroutines or processes that call Sync
  Offers,          \* Offers[p]: the snapshots publisher p may hand to Sync
  Isolation,       \* "serial" or "read_committed"
  Clean,           \* a cell the transaction has not written
  NoCall,          \* the publisher is not in Sync
  NoStatement      \* the publisher waits for no row lock

ASSUME OffersAreSnapshots == Offers \in [Publishers -> SUBSET Snapshots]

ASSUME IsolationIsModelled == Isolation \in {"serial", "read_committed"}

ASSUME CleanIsNoCell ==
  Clean \notin DefinitionRow \cup TextRow \cup ProjectionRow \cup Hashes \cup {Absent}

ASSUME NoCallIsNoSnapshot == NoCall \notin Snapshots

VARIABLES
  db,              \* the committed tables
  tx,              \* tx[p]: the cells p's transaction wrote
  born,            \* born[p]: the rows p's transaction inserted
  target,          \* target[p]: the rows a waiting UPDATE or DELETE picked
  pc,              \* pc[p]: the statement p executes next
  call,            \* call[p]: the snapshot p publishes
  at,              \* at[p]: position in its definitions, or in its texts
  ws,              \* ws[p]: position in the workspaces
  found            \* found[p]: the definition or text looked up exists

vars == <<db, tx, born, target, pc, call, at, ws, found>>

-----------------------------------------------------------------------------
(***************************************************************************)
(* The engine.                                                             *)
(***************************************************************************)
RowIds == UNION {{"defs"} \X Resources, {"vers"} \X VersionIds,
                 {"txts"} \X TextIds,   {"proj"} \X {Current}}

Overlay ==
  [defs : [Resources  -> DefinitionRow \cup {Absent, Clean}],
   vers : [VersionIds -> Hashes \cup {Absent, Clean}],
   txts : [TextIds    -> TextRow \cup {Absent, Clean}],
   proj : [{Current}  -> ProjectionRow \cup {Absent, Clean}]]

CleanOverlay ==
  [defs |-> [k \in Resources |-> Clean], vers |-> [k \in VersionIds |-> Clean],
   txts |-> [k \in TextIds |-> Clean],   proj |-> [k \in {Current} |-> Clean]]

Over(cell, row) == IF cell = Clean THEN row ELSE cell

\* What p's transaction reads: its own writes over the committed rows.
Defs(p, r) == Over(tx[p].defs[r], db.defs[r])
Vers(p, v) == Over(tx[p].vers[v], db.vers[v])
Txts(p, i) == Over(tx[p].txts[i], db.txts[i])
Proj(p)    == Over(tx[p].proj[Current], db.proj[Current])

\* The tables once p's transaction is committed.
Committed(p) ==
  [defs |-> [r \in Resources |-> Defs(p, r)],
   vers |-> [v \in VersionIds |-> Vers(p, v)],
   txts |-> [i \in TextIds |-> Txts(p, i)],
   proj |-> [c \in {Current} |-> Proj(p)]]

Writing(p) == pc[p] \notin {"idle", "refused", "disable"}

\* An engine with one writer hands out the write lock with the first
\* statement that writes, which in Sync is the first statement.
MayWrite(p) ==
  Isolation = "serial" => \A q \in Publishers \ {p} : ~Writing(q)

-----------------------------------------------------------------------------
(***************************************************************************)
(* What a publisher looks at.                                              *)
(***************************************************************************)
Definition(p) == call[p].defs[at[p]]
Res(p)        == Definition(p).res
VersionId(p)  == <<Res(p), call[p].version>>
Source(p)     == call[p].source
Workspace(p)  == WorkspaceOrder[ws[p]]
Text(p)       == call[p].texts[Workspace(p)][at[p]]
TextId(p)     == <<Workspace(p), Text(p).key>>

Owns(p, row)    == row # Absent /\ row.source = Source(p)
\* Mutant: the source of the current row is not compared.
ForeignNever(p, row) == FALSE

Foreign(p, row) == row # Absent /\ row.source # Source(p)

\* Mutant: what the source published earlier is not disabled.
OwnEnabledNone(p)  == {}

\* Mutant: what was disabled is not purged.
OwnDisabledNone(p) == {}

\* Mutant: texts are only added and changed.
OwnTextsNone(p)    == {}

\* The rows an UPDATE or DELETE would pick now, by its WHERE clause.
OwnEnabled(p)  == {r \in Resources : Owns(p, Defs(p, r)) /\ ~Defs(p, r).disabled}
OwnDisabled(p) == {r \in Resources : Owns(p, Defs(p, r)) /\ Defs(p, r).disabled}
OwnTexts(p)    == {i \in TextIds : i[1] = Workspace(p) /\ Owns(p, Txts(p, i))}

Picked(p) ==
  CASE pc[p] = "disable"    -> OwnEnabled(p)
    [] pc[p] = "update"     -> {r \in {Res(p)} : Defs(p, r) # Absent}
    [] pc[p] = "purge"      -> OwnDisabled(p)
    [] pc[p] = "textdelete" -> OwnTexts(p)
    [] pc[p] = "textupdate" -> {i \in {TextId(p)} : Txts(p, i) # Absent}
    [] pc[p] = "projdelete" -> {c \in {Current} : Proj(p) # Absent}
    [] OTHER                -> {}

\* The one row an INSERT would add; of a version, every row with its id.
Added(p) ==
  CASE pc[p] = "record"     -> SameId(VersionId(p))
    [] pc[p] = "insert"     -> {Res(p)}
    [] pc[p] = "textinsert" -> {TextId(p)}
    [] pc[p] = "projinsert" -> {Current}
    [] OTHER                -> {}

Table(p) ==
  CASE pc[p] \in {"disable", "update", "insert", "purge"}        -> "defs"
    [] pc[p] = "record"                                          -> "vers"
    [] pc[p] \in {"textdelete", "textupdate", "textinsert"}      -> "txts"
    [] OTHER                                                     -> "proj"

\* The rows p's statement must lock, and the ones it writes.
Needs(p) ==
  (IF target[p] = NoStatement THEN Picked(p) ELSE target[p]) \cup Added(p)
Rows(p) ==
  IF target[p] = NoStatement THEN Picked(p) ELSE Picked(p) \cap target[p]

Locked(q, t, k) ==
  \/ t = "defs" /\ tx[q].defs[k] # Clean
  \/ t = "vers" /\ tx[q].vers[k] # Clean
  \/ t = "txts" /\ tx[q].txts[k] # Clean
  \/ t = "proj" /\ tx[q].proj[k] # Clean

Waits(p, q) == q # p /\ \E k \in Needs(p) : Locked(q, Table(p), k)
Unlocked(p) == \A q \in Publishers : ~Waits(p, q)

-----------------------------------------------------------------------------
Statements ==
  {"idle", "refused", "disable", "get", "hashes", "record", "recheck",
   "update", "insert", "purge", "texts", "textdelete", "textlookup",
   "textupdate", "textinsert", "projdelete", "projinsert", "synced",
   "conflict", "failed"}

TypeOK ==
  /\ db \in Database
  /\ tx \in [Publishers -> Overlay]
  /\ born \in [Publishers -> SUBSET RowIds]
  /\ target \in [Publishers -> {NoStatement} \cup (SUBSET Resources) \cup
                   (SUBSET TextIds) \cup (SUBSET {Current})]
  /\ pc \in [Publishers -> Statements]
  /\ call \in [Publishers -> Snapshots \cup {NoCall}]
  /\ at \in [Publishers -> Nat]
  /\ ws \in [Publishers -> Nat]
  /\ found \in [Publishers -> BOOLEAN]

Init ==
  /\ db = EmptyDatabase
  /\ tx = [p \in Publishers |-> CleanOverlay]
  /\ born = [p \in Publishers |-> {}]
  /\ target = [p \in Publishers |-> NoStatement]
  /\ pc = [p \in Publishers |-> "idle"]
  /\ call = [p \in Publishers |-> NoCall]
  /\ at = [p \in Publishers |-> 1]
  /\ ws = [p \in Publishers |-> 0]
  /\ found = [p \in Publishers |-> FALSE]

-----------------------------------------------------------------------------
(***************************************************************************)
(* Building blocks of the actions.                                         *)
(***************************************************************************)
Goto(p, step) == pc' = [pc EXCEPT ![p] = step]

\* p's statement leaves the new rows in one of the tables.
Put(cells, new) ==
  [k \in DOMAIN cells |-> IF k \in DOMAIN new THEN new[k] ELSE cells[k]]

WriteDefs(p, new) == tx' = [tx EXCEPT ![p].defs = Put(@, new)]
WriteVers(p, new) == tx' = [tx EXCEPT ![p].vers = Put(@, new)]
WriteTxts(p, new) == tx' = [tx EXCEPT ![p].txts = Put(@, new)]
WriteProj(p, new) == tx' = [tx EXCEPT ![p].proj = Put(@, new)]

Done(p)    == target' = [target EXCEPT ![p] = NoStatement]
Bear(p, k) == born' = [born EXCEPT ![p] = @ \cup {<<Table(p), k>>}]

\* The loop over the definitions continues, or ends with the purge.
NextDefinition(p) ==
  /\ at' = [at EXCEPT ![p] = @ + 1]
  /\ found' = [found EXCEPT ![p] = FALSE]
  /\ Goto(p, IF at[p] < Len(call[p].defs) THEN "get" ELSE "purge")

\* The loop over the workspaces: those the snapshot has texts for.
LaterWorkspaces(p) ==
  {i \in DOMAIN WorkspaceOrder :
     i > ws[p] /\ call[p].texts[WorkspaceOrder[i]] # <<>>}

NextWorkspace(p) ==
  /\ at' = [at EXCEPT ![p] = 1]
  /\ IF LaterWorkspaces(p) = {}
     THEN ws' = ws /\ Goto(p, "projdelete")
     ELSE /\ ws' = [ws EXCEPT ![p] = CHOOSE i \in LaterWorkspaces(p) :
                                       \A j \in LaterWorkspaces(p) : i <= j]
          /\ Goto(p, "textdelete")

NextText(p) ==
  IF at[p] < Len(call[p].texts[Workspace(p)])
  THEN at' = [at EXCEPT ![p] = @ + 1] /\ ws' = ws /\ Goto(p, "textlookup")
  ELSE NextWorkspace(p)

\* The call returns and its transaction is gone.
End(p) ==
  /\ tx' = [tx EXCEPT ![p] = CleanOverlay]
  /\ born' = [born EXCEPT ![p] = {}]
  /\ pc' = [pc EXCEPT ![p] = "idle"]
  /\ call' = [call EXCEPT ![p] = NoCall]
  /\ at' = [at EXCEPT ![p] = 1]
  /\ ws' = [ws EXCEPT ![p] = 0]
  /\ found' = [found EXCEPT ![p] = FALSE]

-----------------------------------------------------------------------------
(***************************************************************************)
(* The call, the transaction and the definitions.                          *)
(***************************************************************************)
\* A call with a blank identity returns before any transaction begins.
Begin(p) ==
  /\ pc[p] = "idle"
  /\ \E s \in Offers[p] :
       /\ call' = [call EXCEPT ![p] = s]
       /\ Goto(p, IF s.identified THEN "disable" ELSE "refused")
  /\ UNCHANGED <<db, tx, born, target, at, ws, found>>

\* A statement that must wait has picked its rows.
Wait(p) ==
  /\ MayWrite(p)
  /\ target[p] = NoStatement
  /\ Picked(p) # {}
  /\ ~Unlocked(p)
  /\ target' = [target EXCEPT ![p] = Picked(p)]
  /\ UNCHANGED <<db, tx, born, pc, call, at, ws, found>>

Disable(p) ==
  /\ pc[p] = "disable"
  /\ MayWrite(p)
  /\ Unlocked(p)
  /\ WriteDefs(p, [r \in Rows(p) |-> [Defs(p, r) EXCEPT !.disabled = TRUE]])
  /\ Done(p)
  /\ Goto(p, IF call[p].defs = <<>> THEN "purge" ELSE "get")
  /\ UNCHANGED <<db, born, call, at, ws, found>>

\* The schema version is taken: the resource has it with other content.
VersionReused(p, row) ==
  row # Absent /\ row.version = call[p].version /\ row.hash # Definition(p).hash

\* Mutant: only a new resource gets a version.
NeedsVersionIfNew(p, row) == row = Absent

NeedsVersion(p, row) == row = Absent \/ row.hash # Definition(p).hash

\* Mutant: an invalid definition is passed over.
RejectDefinitionSoftly(p) ==
  /\ pc[p] = "get"
  /\ ~Definition(p).valid
  /\ NextDefinition(p)
  /\ UNCHANGED <<db, tx, born, target, call, ws>>

RejectDefinition(p) ==
  /\ pc[p] = "get"
  /\ ~Definition(p).valid
  /\ Goto(p, "failed")
  /\ UNCHANGED <<db, tx, born, target, call, at, ws, found>>

SkipForeign(p) ==
  /\ pc[p] = "get"
  /\ Definition(p).valid
  /\ Foreign(p, Defs(p, Res(p)))
  /\ NextDefinition(p)
  /\ UNCHANGED <<db, tx, born, target, call, ws>>

RejectVersion(p) ==
  /\ pc[p] = "get"
  /\ Definition(p).valid
  /\ ~Foreign(p, Defs(p, Res(p)))
  /\ VersionReused(p, Defs(p, Res(p)))
  /\ Goto(p, "conflict")
  /\ UNCHANGED <<db, tx, born, target, call, at, ws, found>>

GetDefinition(p) ==
  LET row == Defs(p, Res(p)) IN
  /\ pc[p] = "get"
  /\ Definition(p).valid
  /\ ~Foreign(p, row)
  /\ ~VersionReused(p, row)
  /\ found' = [found EXCEPT ![p] = row # Absent]
  /\ Goto(p, IF NeedsVersion(p, row) THEN "hashes" ELSE "update")
  /\ UNCHANGED <<db, tx, born, target, call, at, ws>>

(***************************************************************************)
(* The version history.                                                    *)
(***************************************************************************)
\* The recorded hash decides; a version with none is recorded, unless the
\* INSERT has just been tried.
CheckHistory(p, whenMissing) ==
  LET hash == Vers(p, VersionId(p)) IN
  Goto(p, IF hash = Absent THEN whenMissing
          ELSE IF hash # Definition(p).hash THEN "conflict"
          ELSE IF found[p] THEN "update" ELSE "insert")

ReadHistory(p) ==
  /\ pc[p] = "hashes"
  /\ CheckHistory(p, "record")
  /\ UNCHANGED <<db, tx, born, target, call, at, ws, found>>

IdFree(p) == \A v \in SameId(VersionId(p)) : Vers(p, v) = Absent

\* Mutant: ON CONFLICT DO UPDATE.
RecordVersionAnyway(p) ==
  /\ pc[p] = "record"
  /\ Unlocked(p)
  /\ WriteVers(p, [v \in {VersionId(p)} |-> Definition(p).hash])
  /\ Bear(p, VersionId(p))
  /\ Goto(p, IF found[p] THEN "update" ELSE "insert")
  /\ UNCHANGED <<db, target, call, at, ws, found>>

RecordVersion(p) ==
  /\ pc[p] = "record"
  /\ Unlocked(p)
  /\ IdFree(p)
  /\ WriteVers(p, [v \in {VersionId(p)} |-> Definition(p).hash])
  /\ Bear(p, VersionId(p))
  /\ Goto(p, IF found[p] THEN "update" ELSE "insert")
  /\ UNCHANGED <<db, target, call, at, ws, found>>

\* ON CONFLICT DO NOTHING: another transaction has recorded the version, or
\* another resource has a version with the same id.
VersionNotInserted(p) ==
  /\ pc[p] = "record"
  /\ Unlocked(p)
  /\ ~IdFree(p)
  /\ Goto(p, "recheck")
  /\ UNCHANGED <<db, tx, born, target, call, at, ws, found>>

\* Mutant: a lost race is a conflict, whatever was recorded.
RecheckNothing(p) ==
  /\ pc[p] = "recheck"
  /\ Goto(p, "conflict")
  /\ UNCHANGED <<db, tx, born, target, call, at, ws, found>>

RecheckHistory(p) ==
  /\ pc[p] = "recheck"
  /\ CheckHistory(p, "conflict")
  /\ UNCHANGED <<db, tx, born, target, call, at, ws, found>>

(***************************************************************************)
(* The definition rows.                                                    *)
(***************************************************************************)
\* The WHERE clause names the resource only, and how many rows were updated
\* is not looked at.
UpdateDefinition(p) ==
  /\ pc[p] = "update"
  /\ Unlocked(p)
  /\ WriteDefs(p, [r \in Rows(p) |-> PublishedRow(call[p], Definition(p))])
  /\ Done(p)
  /\ NextDefinition(p)
  /\ UNCHANGED <<db, born, call, ws>>

InsertDefinition(p) ==
  /\ pc[p] = "insert"
  /\ Unlocked(p)
  /\ Defs(p, Res(p)) = Absent
  /\ WriteDefs(p, [r \in {Res(p)} |-> PublishedRow(call[p], Definition(p))])
  /\ Bear(p, Res(p))
  /\ NextDefinition(p)
  /\ UNCHANGED <<db, target, call, ws>>

Purge(p) ==
  /\ pc[p] = "purge"
  /\ Unlocked(p)
  /\ WriteDefs(p, [r \in Rows(p) |-> Absent])
  /\ Done(p)
  /\ Goto(p, "texts")
  /\ UNCHANGED <<db, born, call, at, ws, found>>

-----------------------------------------------------------------------------
(***************************************************************************)
(* The localized texts.                                                    *)
(***************************************************************************)
CheckTexts(p) ==
  /\ pc[p] = "texts"
  /\ IF TextsValid(call[p])
     THEN NextWorkspace(p)
     ELSE Goto(p, "failed") /\ UNCHANGED <<at, ws>>
  /\ UNCHANGED <<db, tx, born, target, call, found>>

DeleteTexts(p) ==
  /\ pc[p] = "textdelete"
  /\ Unlocked(p)
  /\ WriteTxts(p, [i \in Rows(p) |-> Absent])
  /\ Done(p)
  /\ Goto(p, "textlookup")
  /\ UNCHANGED <<db, born, call, at, ws, found>>

SkipForeignText(p) ==
  /\ pc[p] = "textlookup"
  /\ Foreign(p, Txts(p, TextId(p)))
  /\ NextText(p)
  /\ UNCHANGED <<db, tx, born, target, call, found>>

LookUpText(p) ==
  LET row == Txts(p, TextId(p)) IN
  /\ pc[p] = "textlookup"
  /\ ~Foreign(p, row)
  /\ Goto(p, IF row = Absent THEN "textinsert" ELSE "textupdate")
  /\ UNCHANGED <<db, tx, born, target, call, at, ws, found>>

NewText(p) == [text |-> Text(p).text, source |-> Source(p)]

UpdateText(p) ==
  /\ pc[p] = "textupdate"
  /\ Unlocked(p)
  /\ WriteTxts(p, [i \in Rows(p) |-> NewText(p)])
  /\ Done(p)
  /\ NextText(p)
  /\ UNCHANGED <<db, born, call, found>>

InsertText(p) ==
  /\ pc[p] = "textinsert"
  /\ Unlocked(p)
  /\ Txts(p, TextId(p)) = Absent
  /\ WriteTxts(p, [i \in {TextId(p)} |-> NewText(p)])
  /\ Bear(p, TextId(p))
  /\ NextText(p)
  /\ UNCHANGED <<db, target, call, found>>

(***************************************************************************)
(* The identity of the current projection: one row for all sources.        *)
(***************************************************************************)
DeleteProjection(p) ==
  /\ pc[p] = "projdelete"
  /\ Unlocked(p)
  /\ WriteProj(p, [c \in Rows(p) |-> Absent])
  /\ Done(p)
  /\ Goto(p, "projinsert")
  /\ UNCHANGED <<db, born, call, at, ws, found>>

InsertProjection(p) ==
  /\ pc[p] = "projinsert"
  /\ Unlocked(p)
  /\ Proj(p) = Absent
  /\ WriteProj(p, [c \in {Current} |->
                     [version |-> call[p].version, source |-> Source(p)]])
  /\ Bear(p, Current)
  /\ Goto(p, "synced")
  /\ UNCHANGED <<db, target, call, at, ws, found>>

-----------------------------------------------------------------------------
(***************************************************************************)
(* How a call ends.                                                        *)
(***************************************************************************)
UniqueViolation(p) ==
  /\ \/ pc[p] = "insert" /\ Defs(p, Res(p)) # Absent
     \/ pc[p] = "textinsert" /\ Txts(p, TextId(p)) # Absent
     \/ pc[p] = "projinsert" /\ Proj(p) # Absent
  /\ Unlocked(p)
  /\ Goto(p, "failed")
  /\ UNCHANGED <<db, tx, born, target, call, at, ws, found>>

\* Whether the caller learns of the commit makes no difference to the
\* tables: a caller that does not calls again, and that is another Begin.
Commit(p) ==
  /\ pc[p] = "synced"
  /\ db' = Committed(p)
  /\ target' = [q \in Publishers |->
       IF target[q] = NoStatement THEN NoStatement
       ELSE {k \in target[q] : <<Table(q), k>> \notin born[p]}]
  /\ End(p)

\* Mutant: a failed statement leaves the transaction open.
RollbackUnlessFailed(p) ==
  /\ pc[p] \in {"refused", "conflict"}
  /\ target' = target
  /\ End(p)
  /\ db' = db

\* The store rolls its own transaction back; a host does so with its own
\* when Sync returns an error.
Rollback(p) ==
  /\ pc[p] \in {"refused", "conflict", "failed"}
  /\ target' = target
  /\ End(p)
  /\ db' = db

\* Any statement, the commit, or the process may fail; after Sync has
\* returned, the host may roll back.
Fail(p) ==
  /\ pc[p] \notin {"idle", "refused", "conflict", "failed"}
  /\ Done(p)
  /\ Goto(p, "failed")
  /\ UNCHANGED <<db, tx, born, call, at, ws, found>>

Step(p) ==
  \/ Wait(p) \/ Disable(p)
  \/ RejectDefinition(p) \/ SkipForeign(p) \/ RejectVersion(p)
  \/ GetDefinition(p)
  \/ ReadHistory(p) \/ RecordVersion(p) \/ VersionNotInserted(p)
  \/ RecheckHistory(p)
  \/ UpdateDefinition(p) \/ InsertDefinition(p) \/ Purge(p)
  \/ CheckTexts(p) \/ DeleteTexts(p) \/ SkipForeignText(p) \/ LookUpText(p)
  \/ UpdateText(p) \/ InsertText(p)
  \/ DeleteProjection(p) \/ InsertProjection(p)
  \/ UniqueViolation(p) \/ Commit(p) \/ Rollback(p)

Next == \E p \in Publishers : Begin(p) \/ Step(p) \/ Fail(p)

Spec == Init /\ [][Next]_vars

\* PostgreSQL queues the waiters of a row lock, so one that waits again and
\* again gets its turn, and it breaks every cycle of waiting transactions.
\* Nothing makes a publisher begin, and nothing fails by fairness.
Deadlocked(p) ==
  \E S \in SUBSET Publishers :
    p \in S /\ \A q \in S : \E r \in S : Waits(q, r)

FairSpec ==
  /\ Spec
  /\ \A p \in Publishers : /\ SF_vars(Step(p))
                           /\ WF_vars(Deadlocked(p) /\ Fail(p))

-----------------------------------------------------------------------------
(***************************************************************************)
(* Properties.                                                             *)
(***************************************************************************)
Commits(p) == pc[p] = "synced" /\ pc'[p] = "idle"

\* Every published definition's hash is in its history, whatever syncs ran
\* side by side: insertDefinitionVersionIfMissing is skipped only when the
\* hash is the row's own.
CatalogHashRecorded ==
  \A r \in Resources : db.defs[r] # Absent =>
    \E v \in Versions : db.vers[<<r, v>>] = db.defs[r].hash

\* A recorded version is never changed and never removed, also when two
\* publishers try to record it at once (ON CONFLICT DO NOTHING and recheck).
HistoryImmutable ==
  [][\A v \in VersionIds : db.vers[v] # Absent => db'.vers[v] = db.vers[v]]_vars

\* Readers never find a definition missing because a Sync in progress has
\* disabled it: no disabled row is ever committed.
NoDisabledRows ==
  \A r \in Resources : db.defs[r] # Absent => ~db.defs[r].disabled

\* definition_version_conflict is returned only to a publisher whose content
\* differs from what the resource has or had under the same version, or whose
\* version's id is that of another resource's version; losing the race to
\* record the same content is no conflict.
ConflictMeansOtherContent ==
  [][\A p \in Publishers :
       pc[p] # "conflict" /\ pc'[p] = "conflict" =>
         \/ VersionReused(p, Defs(p, Res(p)))
         \/ Vers(p, VersionId(p)) \notin {Absent, Definition(p).hash}
         \/ \E v \in SameId(VersionId(p)) \ {VersionId(p)} :
              Vers(p, v) # Absent]_vars

\* A published row changes or goes only when its own source commits a Sync:
\* no source takes over, overwrites or removes a row of another.
OnlyByOwner(old, new) ==
  old # Absent /\ new # old =>
    \E p \in Publishers : Commits(p) /\ Source(p) = old.source

OwnershipStable ==
  [][/\ \A r \in Resources : OnlyByOwner(db.defs[r], db'.defs[r])
     /\ \A i \in TextIds : OnlyByOwner(db.txts[i], db'.txts[i])]_vars

\* Once a Sync is committed, the source has no definitions but those of that
\* snapshot, at its version, and no texts but its texts in the workspaces it
\* names: nothing of an earlier snapshot is left over.  (That all of the
\* snapshot is there, as far as other sources leave room, is ImplementsCatalog.)
Published(s, r, row) ==
  \E i \in DOMAIN s.defs :
    s.defs[i].res = r /\ row = PublishedRow(s, s.defs[i])

Translated(s, id, row) ==
  \E i \in DOMAIN s.texts[id[1]] :
    s.texts[id[1]][i].key = id[2] /\ s.texts[id[1]][i].text = row.text

CommitShowsSnapshot ==
  [][\A p \in Publishers : Commits(p) =>
       /\ \A r \in Resources :
            Owns(p, db'.defs[r]) => Published(call[p], r, db'.defs[r])
       /\ \A id \in TextIds :
            Owns(p, db'.txts[id]) /\ call[p].texts[id[1]] # <<>> =>
              Translated(call[p], id, db'.txts[id])]_vars

\* On an engine with one writer, every interleaving of Sync calls, with
\* whatever fails, is a sequence of whole publications: SyncProjection
\* implements ProjectionCatalog.
Catalog == INSTANCE ProjectionCatalog WITH db <- db
ImplementsCatalog == Catalog!Spec

\* What the schema version of a published definition says agrees with the
\* history: the content published under a version is the one recorded for
\* it ("a published schema version is immutable", README.md).
CatalogAgreesWithHistory ==
  \A r \in Resources : db.defs[r] # Absent =>
    db.vers[<<r, db.defs[r].version>>] \in {Absent, db.defs[r].hash}

\* Every Sync returns, also when publishers lock rows in opposite orders.
SyncReturns == \A p \in Publishers : pc[p] # "idle" ~> pc[p] = "idle"

=============================================================================
