------------------------- MODULE SyncOwnershipProofs -------------------------
(***************************************************************************)
(* Proofs about whose rows a Sync changes and what it leaves, when no two  *)
(* publishers publish for one source, or on an engine with one writer: no  *)
(* source takes over or removes a row of another, and a commit leaves of   *)
(* its source nothing but what its snapshot says.  And, on any engine,     *)
(* when the catalog agrees with the version history.                       *)
(***************************************************************************)
EXTENDS SyncLockProofs

\* Every source is published by one publisher only.
SourcesApart ==
  \A p, q \in Publishers : p # q =>
    \A s \in Offers[p], t \in Offers[q] : s.source # t.source

(***************************************************************************)
(* Two publishers that are past their first statement, or wait in it, are  *)
(* of different sources, until one of them gives up.                       *)
(***************************************************************************)
Active(p) == pc[p] \notin {"idle", "refused", "disable", "conflict", "failed"}

Busy(p) == Active(p) \/ target[p] # NoStatement

CallsOffered == \A p \in Publishers : pc[p] # "idle" => call[p] \in Offers[p]

OneWriter ==
  Isolation = "serial" =>
    /\ \A p \in Publishers : target[p] = NoStatement
    /\ \A p, q \in Publishers : Active(p) /\ Active(q) => p = q

Undisturbed ==
  \A p, q \in Publishers : Busy(p) /\ Busy(q) /\ p # q => Source(p) # Source(q)

(***************************************************************************)
(* What a transaction wrote is its source's, and so is what it wrote over; *)
(* a row found to be the source's own still is when the UPDATE comes.      *)
(***************************************************************************)
Writes(p, cell) == cell # Absent => cell.source = Source(p)

OwnRows ==
  \A p \in Publishers :
    /\ \A r \in Resources : tx[p].defs[r] # Clean =>
         Writes(p, tx[p].defs[r]) /\ Writes(p, db.defs[r])
    /\ \A i \in TextIds : tx[p].txts[i] # Clean =>
         Writes(p, tx[p].txts[i]) /\ Writes(p, db.txts[i])

FoundOwn ==
  \A p \in Publishers :
    /\ \/ pc[p] = "update"
       \/ pc[p] \in {"hashes", "record", "recheck"} /\ found[p]
       => Owns(p, Defs(p, Res(p)))
    /\ pc[p] = "textupdate" => Owns(p, Txts(p, TextId(p)))

OwnInv == LockInv /\ CallsOffered /\ OneWriter /\ OwnRows /\ FoundOwn

(***************************************************************************)
(* What is visible of a publisher's source, statement by statement: after  *)
(* the first one every row is disabled or of the snapshot, after the purge *)
(* of the snapshot, and of the texts those of the workspaces dealt with.   *)
(***************************************************************************)
OwnPicked ==
  \A p \in Publishers : target[p] # NoStatement =>
    /\ pc[p] = "disable" => OwnEnabled(p) \subseteq target[p]
    /\ pc[p] = "purge" => OwnDisabled(p) \subseteq target[p]
    /\ pc[p] = "textdelete" => OwnTexts(p) \subseteq target[p]

DefsShown ==
  \A p \in Publishers : \A r \in Resources :
    /\ pc[p] \in DefinitionSteps \cup {"purge"} /\ Owns(p, Defs(p, r)) =>
         Defs(p, r).disabled \/ Published(call[p], r, Defs(p, r))
    /\ pc[p] \in PurgedSteps /\ Owns(p, Defs(p, r)) =>
         Published(call[p], r, Defs(p, r))

BeforeTexts == {"idle", "disable", "purge", "texts"} \cup DefinitionSteps

NoWorkspaceYet == \A p \in Publishers : pc[p] \in BeforeTexts => ws[p] = 0

Shown(p, id) ==
  Owns(p, Txts(p, id)) /\ call[p].texts[id[1]] # <<>> =>
    Translated(call[p], id, Txts(p, id))

\* The workspaces at these positions are done.
DoneWith(p) ==
  {j \in DOMAIN WorkspaceOrder :
     \/ pc[p] = "textdelete" /\ j < ws[p]
     \/ pc[p] \in TextSteps /\ j <= ws[p]
     \/ pc[p] \in {"projdelete", "projinsert", "synced"}}

TextsShown ==
  \A p \in Publishers : \A j \in DoneWith(p) : \A id \in TextIds :
    id[1] = WorkspaceOrder[j] => Shown(p, id)

ShownInv == OwnInv /\ OwnPicked /\ DefsShown /\ NoWorkspaceYet /\ TextsShown

\* What the theorems below assume of the deployment.
Separated == SourcesApart \/ Isolation = "serial"

-----------------------------------------------------------------------------
(***************************************************************************)
(* What each writing statement leaves in the cells of its transaction.     *)
(***************************************************************************)
LEMMA WrittenDefs ==
  ASSUME TypeOK, NEW p \in Publishers, NEW r \in Resources
  PROVE  /\ Disable(p) => tx'[p].defs[r] =
              IF r \in Rows(p) THEN [Defs(p, r) EXCEPT !.disabled = TRUE]
              ELSE tx[p].defs[r]
         /\ UpdateDefinition(p) => tx'[p].defs[r] =
              IF r \in Rows(p) THEN PublishedRow(call[p], Definition(p))
              ELSE tx[p].defs[r]
         /\ InsertDefinition(p) => tx'[p].defs[r] =
              IF r = Res(p) THEN PublishedRow(call[p], Definition(p))
              ELSE tx[p].defs[r]
         /\ Purge(p) => tx'[p].defs[r] =
              IF r \in Rows(p) THEN Absent ELSE tx[p].defs[r]
<1>1. ASSUME Disable(p)
      PROVE  tx'[p].defs[r] = IF r \in Rows(p)
                              THEN [Defs(p, r) EXCEPT !.disabled = TRUE]
                              ELSE tx[p].defs[r]
  <2> DEFINE new == [k \in Rows(p) |-> [Defs(p, k) EXCEPT !.disabled = TRUE]]
  <2>1. WriteDefs(p, new)
    BY <1>1 DEF Disable
  <2>2. DOMAIN new = Rows(p)
        /\ (r \in Rows(p) => new[r] = [Defs(p, r) EXCEPT !.disabled = TRUE])
    OBVIOUS
  <2> HIDE DEF new
  <2> QED
    BY <2>1, <2>2, DefsWritten
<1>2. ASSUME UpdateDefinition(p)
      PROVE  tx'[p].defs[r] = IF r \in Rows(p)
                              THEN PublishedRow(call[p], Definition(p))
                              ELSE tx[p].defs[r]
  <2> DEFINE new == [k \in Rows(p) |-> PublishedRow(call[p], Definition(p))]
  <2>1. WriteDefs(p, new)
    BY <1>2 DEF UpdateDefinition
  <2>2. DOMAIN new = Rows(p)
        /\ (r \in Rows(p) => new[r] = PublishedRow(call[p], Definition(p)))
    OBVIOUS
  <2> HIDE DEF new
  <2> QED
    BY <2>1, <2>2, DefsWritten
<1>3. ASSUME InsertDefinition(p)
      PROVE  tx'[p].defs[r] = IF r = Res(p)
                              THEN PublishedRow(call[p], Definition(p))
                              ELSE tx[p].defs[r]
  <2> DEFINE new == [k \in {Res(p)} |-> PublishedRow(call[p], Definition(p))]
  <2>1. WriteDefs(p, new)
    BY <1>3 DEF InsertDefinition
  <2>2. DOMAIN new = {Res(p)}
        /\ (r = Res(p) => new[r] = PublishedRow(call[p], Definition(p)))
    OBVIOUS
  <2> HIDE DEF new
  <2> QED
    BY <2>1, <2>2, DefsWritten
<1>4. ASSUME Purge(p)
      PROVE  tx'[p].defs[r] = IF r \in Rows(p) THEN Absent ELSE tx[p].defs[r]
  <2> DEFINE new == [k \in Rows(p) |-> Absent]
  <2>1. WriteDefs(p, new)
    BY <1>4 DEF Purge
  <2>2. DOMAIN new = Rows(p) /\ (r \in Rows(p) => new[r] = Absent)
    OBVIOUS
  <2> HIDE DEF new
  <2> QED
    BY <2>1, <2>2, DefsWritten
<1> QED
  BY <1>1, <1>2, <1>3, <1>4

LEMMA WrittenTxts ==
  ASSUME TypeOK, NEW p \in Publishers, NEW i \in TextIds
  PROVE  /\ DeleteTexts(p) => tx'[p].txts[i] =
              IF i \in Rows(p) THEN Absent ELSE tx[p].txts[i]
         /\ UpdateText(p) => tx'[p].txts[i] =
              IF i \in Rows(p) THEN NewText(p) ELSE tx[p].txts[i]
         /\ InsertText(p) => tx'[p].txts[i] =
              IF i = TextId(p) THEN NewText(p) ELSE tx[p].txts[i]
<1>1. ASSUME DeleteTexts(p)
      PROVE  tx'[p].txts[i] = IF i \in Rows(p) THEN Absent ELSE tx[p].txts[i]
  <2> DEFINE new == [k \in Rows(p) |-> Absent]
  <2>1. WriteTxts(p, new)
    BY <1>1 DEF DeleteTexts
  <2>2. DOMAIN new = Rows(p) /\ (i \in Rows(p) => new[i] = Absent)
    OBVIOUS
  <2> HIDE DEF new
  <2> QED
    BY <2>1, <2>2, TxtsWritten
<1>2. ASSUME UpdateText(p)
      PROVE  tx'[p].txts[i] = IF i \in Rows(p) THEN NewText(p) ELSE tx[p].txts[i]
  <2> DEFINE new == [k \in Rows(p) |-> NewText(p)]
  <2>1. WriteTxts(p, new)
    BY <1>2 DEF UpdateText
  <2>2. DOMAIN new = Rows(p) /\ (i \in Rows(p) => new[i] = NewText(p))
    OBVIOUS
  <2> HIDE DEF new
  <2> QED
    BY <2>1, <2>2, TxtsWritten
<1>3. ASSUME InsertText(p)
      PROVE  tx'[p].txts[i] = IF i = TextId(p) THEN NewText(p) ELSE tx[p].txts[i]
  <2> DEFINE new == [k \in {TextId(p)} |-> NewText(p)]
  <2>1. WriteTxts(p, new)
    BY <1>3 DEF InsertText
  <2>2. DOMAIN new = {TextId(p)} /\ (i = TextId(p) => new[i] = NewText(p))
    OBVIOUS
  <2> HIDE DEF new
  <2> QED
    BY <2>1, <2>2, TxtsWritten
<1> QED
  BY <1>1, <1>2, <1>3

\* A step of one publisher leaves the workspace and the flag of the others.
LEMMA OthersStand ==
  ASSUME TypeOK, NEW p \in Publishers, Begin(p) \/ Step(p) \/ Fail(p),
         NEW q \in Publishers \ {p}
  PROVE  ws'[q] = ws[q] /\ found'[q] = found[q]
<1> USE DEF TypeOK, Goto
<1>1. CASE \/ Begin(p) \/ Fail(p) \/ Wait(p) \/ Disable(p) \/ RejectDefinition(p)
           \/ RejectVersion(p) \/ GetDefinition(p) \/ ReadHistory(p)
           \/ RecordVersion(p) \/ VersionNotInserted(p) \/ RecheckHistory(p)
  BY <1>1 DEF Begin, Fail, Wait, Disable, RejectDefinition, RejectVersion,
              GetDefinition, ReadHistory, RecordVersion, VersionNotInserted,
              RecheckHistory
<1>2. CASE SkipForeign(p) \/ UpdateDefinition(p) \/ InsertDefinition(p) \/ Purge(p)
  BY <1>2 DEF SkipForeign, UpdateDefinition, InsertDefinition, Purge, NextDefinition
<1>3. NextWorkspace(p) => ws'[q] = ws[q]
  BY DEF NextWorkspace
<1>4. CASE CheckTexts(p) \/ SkipForeignText(p) \/ UpdateText(p) \/ InsertText(p)
  BY <1>3, <1>4 DEF CheckTexts, SkipForeignText, UpdateText, InsertText, NextText
<1>5. CASE \/ DeleteTexts(p) \/ LookUpText(p) \/ DeleteProjection(p)
           \/ InsertProjection(p) \/ UniqueViolation(p) \/ Commit(p) \/ Rollback(p)
  BY <1>5 DEF DeleteTexts, LookUpText, DeleteProjection, InsertProjection,
              UniqueViolation, Commit, Rollback, End
<1> QED
  BY <1>1, <1>2, <1>4, <1>5 DEF Step

-----------------------------------------------------------------------------
(***************************************************************************)
(* The publishers at work are of different sources.                        *)
(***************************************************************************)
\* With one writer nobody waits: the writer's locks are the only ones.
LEMMA NobodyWaits ==
  ASSUME LockInv, Isolation = "serial", NEW p \in Publishers
  PROVE  ~Wait(p)
<1>0. SUFFICES ASSUME Wait(p) PROVE FALSE
  OBVIOUS
<1> USE DEF LockInv
<1>1. /\ pc[p] \in PickingSteps /\ target[p] = NoStatement
      /\ \A q \in Publishers \ {p} : ~Writing(q)
      /\ ~Unlocked(p)
  BY <1>0, Moves DEF Wait, MayWrite, TypeInv
<1>2. PICK q \in Publishers \ {p}, k \in Needs(p) : Locked(q, Table(p), k)
  BY <1>1 DEF Unlocked, Waits
<1>3. k \in Picked(p)
  BY <1>1 DEF Needs, Added, PickingSteps
<1>4. tx[q] = CleanOverlay
  BY <1>1, <1>2 DEF CleanBefore
<1>5. CASE pc[p] \in {"disable", "update", "purge"}
  <2>1. Table(p) = "defs" /\ k \in Resources
    BY <1>3, <1>5, CurrentDefinition
       DEF Table, Picked, OwnEnabled, OwnDisabled, DefinitionSteps
  <2> QED
    BY <1>2, <1>4, <2>1, CleanCells DEF Locked
<1>6. CASE pc[p] \in {"textdelete", "textupdate"}
  <2>1. Table(p) = "txts" /\ k \in TextIds
    BY <1>3, <1>6, CurrentText DEF Table, Picked, OwnTexts, TextSteps
  <2> QED
    BY <1>2, <1>4, <2>1, CleanCells DEF Locked
<1>7. CASE pc[p] = "projdelete"
  <2>1. Table(p) = "proj" /\ k \in {Current}
    BY <1>3, <1>7 DEF Table, Picked
  <2> QED
    BY <1>2, <1>4, <2>1 DEF Locked, CleanOverlay
<1> QED
  BY <1>1, <1>5, <1>6, <1>7 DEF PickingSteps

\* Only the first statement puts a publisher to work.
LEMMA Activated ==
  ASSUME TypeOK, NEW p \in Publishers, Begin(p) \/ Step(p) \/ Fail(p),
         Active(p)'
  PROVE  Active(p) \/ Disable(p)
BY Moves DEF Active, Step, PickingSteps

LEMMA OneWriterStep ==
  ASSUME LockInv, OneWriter, NEW p \in Publishers, Begin(p) \/ Step(p) \/ Fail(p)
  PROVE  OneWriter'
<1> USE DEF LockInv
<1> SUFFICES ASSUME Isolation = "serial"
             PROVE  /\ \A q \in Publishers : target'[q] = NoStatement
                    /\ \A q, o \in Publishers : Active(q)' /\ Active(o)' => q = o
  BY DEF OneWriter
<1>1. \A q \in Publishers : target'[q] = NoStatement
  BY WaitersMove, NobodyWaits DEF OneWriter
<1>2. \A q \in Publishers \ {p} : Active(q)' = Active(q)
  BY OthersKeep DEF Active
<1>3. Disable(p) => \A q \in Publishers \ {p} : ~Active(q)
  BY DEF Disable, MayWrite, Active, Writing
<1>4. Active(p)' => Active(p) \/ Disable(p)
  BY Activated DEF TypeInv
<1> QED
  BY <1>1, <1>2, <1>3, <1>4 DEF OneWriter

LEMMA OffersStep ==
  ASSUME LockInv, CallsOffered, NEW p \in Publishers,
         Begin(p) \/ Step(p) \/ Fail(p)
  PROVE  CallsOffered'
<1> USE DEF LockInv, TypeInv
<1> SUFFICES ASSUME NEW q \in Publishers, pc'[q] # "idle"
             PROVE  call'[q] \in Offers[q]
  BY DEF CallsOffered
<1>1. CASE q # p
  BY <1>1, OthersKeep DEF CallsOffered
<1>2. CASE q = p /\ Begin(p)
  BY <1>2 DEF Begin, TypeOK
<1>3. CASE q = p /\ ~Begin(p)
  <2>1. ~Ending(p)
    BY <1>3, EndFrees
  <2>2. call' = call
    BY <1>3, <2>1, CallStays
  <2>3. pc[p] # "idle"
    BY <1>3, Moves DEF Step, PickingSteps
  <2> QED
    BY <1>3, <2>2, <2>3 DEF CallsOffered
<1> QED
  BY <1>1, <1>2, <1>3

LEMMA SourcesUndisturbed ==
  ASSUME Separated, LockInv, CallsOffered, OneWriter
  PROVE  Undisturbed
<1> SUFFICES ASSUME NEW p \in Publishers, NEW q \in Publishers,
                    Busy(p), Busy(q), p # q
             PROVE  Source(p) # Source(q)
  BY DEF Undisturbed
<1>1. CASE SourcesApart
  <2>1. pc[p] # "idle" /\ pc[q] # "idle"
    BY DEF Busy, Active, LockInv, OnlyPickersWait, PickingSteps
  <2> QED
    BY <1>1, <2>1 DEF CallsOffered, SourcesApart, Source
<1>2. CASE Isolation = "serial"
  BY <1>2 DEF OneWriter, Busy
<1> QED
  BY <1>1, <1>2 DEF Separated

\* What a publisher at work sees of its source, no other publisher changes.
LEMMA OthersView ==
  ASSUME OwnInv, Undisturbed, NEW p \in Publishers,
         Begin(p) \/ Step(p) \/ Fail(p), NEW q \in Publishers \ {p}, Busy(q)
  PROVE  /\ \A r \in Resources :
              \/ Defs(q, r)' = Defs(q, r)
              \/ ~Owns(q, Defs(q, r)) /\ ~Owns(q, Defs(q, r))'
         /\ \A i \in TextIds :
              \/ Txts(q, i)' = Txts(q, i)
              \/ ~Owns(q, Txts(q, i)) /\ ~Owns(q, Txts(q, i))'
<1> USE DEF OwnInv, LockInv
<1>1. tx'[q] = tx[q] /\ Source(q)' = Source(q)
  BY OthersKeep DEF Source
<1>2. CASE ~Commit(p)
  <2>1. db' = db
    BY <1>2, OnlyCommitPublishes
  <2> QED
    BY <1>1, <2>1 DEF Defs, Txts, Over
<1>3. CASE Commit(p)
  <2>1. pc[p] = "synced" /\ Source(p) # Source(q)
    BY <1>3 DEF Undisturbed, Busy, Active, Commit
  <2>2. ASSUME NEW r \in Resources
        PROVE  \/ Defs(q, r)' = Defs(q, r)
               \/ ~Owns(q, Defs(q, r)) /\ ~Owns(q, Defs(q, r))'
    <3>1. db'.defs[r] = Over(tx[p].defs[r], db.defs[r])
      BY <1>3, EndFrees DEF TypeInv, Ending, Defs
    <3>2. CASE tx[p].defs[r] = Clean \/ tx[q].defs[r] # Clean
      BY <1>1, <3>1, <3>2 DEF Defs, Over
    <3>3. CASE tx[p].defs[r] # Clean /\ tx[q].defs[r] = Clean
      <4>1. Writes(p, tx[p].defs[r]) /\ Writes(p, db.defs[r])
        BY <3>3 DEF OwnRows
      <4>2. Defs(q, r) = db.defs[r] /\ Defs(q, r)' = tx[p].defs[r]
        BY <1>1, <3>1, <3>3 DEF Defs, Over
      <4> QED
        BY <1>1, <2>1, <4>1, <4>2 DEF Writes, Owns
    <3> QED
      BY <3>2, <3>3
  <2>3. ASSUME NEW i \in TextIds
        PROVE  \/ Txts(q, i)' = Txts(q, i)
               \/ ~Owns(q, Txts(q, i)) /\ ~Owns(q, Txts(q, i))'
    <3>1. db'.txts[i] = Over(tx[p].txts[i], db.txts[i])
      BY <1>3, EndFrees DEF TypeInv, Ending, Txts
    <3>2. CASE tx[p].txts[i] = Clean \/ tx[q].txts[i] # Clean
      BY <1>1, <3>1, <3>2 DEF Txts, Over
    <3>3. CASE tx[p].txts[i] # Clean /\ tx[q].txts[i] = Clean
      <4>1. Writes(p, tx[p].txts[i]) /\ Writes(p, db.txts[i])
        BY <3>3 DEF OwnRows
      <4>2. Txts(q, i) = db.txts[i] /\ Txts(q, i)' = tx[p].txts[i]
        BY <1>1, <3>1, <3>3 DEF Txts, Over
      <4> QED
        BY <1>1, <2>1, <4>1, <4>2 DEF Writes, Owns
    <3> QED
      BY <3>2, <3>3
  <2> QED
    BY <2>2, <2>3
<1> QED
  BY <1>2, <1>3

-----------------------------------------------------------------------------
(***************************************************************************)
(* A statement writes over rows of its own source only.                    *)
(***************************************************************************)
LEMMA BelowOwn ==
  ASSUME OwnRows, NEW p \in Publishers
  PROVE  /\ \A r \in Resources : Writes(p, Defs(p, r)) => Writes(p, db.defs[r])
         /\ \A i \in TextIds : Writes(p, Txts(p, i)) => Writes(p, db.txts[i])
BY DEF OwnRows, Defs, Txts, Over

LEMMA DefsWriteOwn ==
  ASSUME OwnInv, NEW p \in Publishers, DefsWriter(p), NEW r \in Resources
  PROVE  \/ tx'[p].defs[r] = tx[p].defs[r]
         \/ Writes(p, tx'[p].defs[r]) /\ Writes(p, db.defs[r])
<1> USE DEF OwnInv, LockInv, TypeInv
<1>1. CASE Disable(p)
  <2>1. CASE r \in Rows(p)
    <3>1. Defs(p, r) \in DefinitionRow /\ r \in Picked(p) /\ pc[p] = "disable"
      BY <1>1, <2>1, RowsTyped DEF Disable
    <3>2. Owns(p, Defs(p, r))
      BY <3>1 DEF Picked, OwnEnabled
    <3>3. tx'[p].defs[r] = [Defs(p, r) EXCEPT !.disabled = TRUE]
      BY <1>1, <2>1, WrittenDefs
    <3> QED
      BY <3>1, <3>2, <3>3, BelowOwn DEF Writes, Owns, DefinitionRow
  <2> QED
    BY <1>1, <2>1, WrittenDefs
<1>2. CASE UpdateDefinition(p)
  <2>1. CASE r \in Rows(p)
    <3>1. r \in Picked(p) /\ pc[p] = "update"
      BY <1>2, <2>1, RowsTyped DEF UpdateDefinition
    <3>2. r = Res(p)
      BY <3>1 DEF Picked
    <3>3. Owns(p, Defs(p, r))
      BY <3>1, <3>2 DEF FoundOwn
    <3>4. tx'[p].defs[r] = PublishedRow(call[p], Definition(p))
      BY <1>2, <2>1, WrittenDefs
    <3> QED
      BY <3>3, <3>4, BelowOwn DEF Writes, Owns, PublishedRow, Source
  <2> QED
    BY <1>2, <2>1, WrittenDefs
<1>3. CASE InsertDefinition(p)
  <2>1. CASE r = Res(p)
    <3>1. Defs(p, r) = Absent
      BY <1>3, <2>1 DEF InsertDefinition
    <3>2. tx'[p].defs[r] = PublishedRow(call[p], Definition(p))
      BY <1>3, <2>1, WrittenDefs
    <3> QED
      BY <3>1, <3>2, BelowOwn DEF Writes, PublishedRow, Source
  <2> QED
    BY <1>3, <2>1, WrittenDefs
<1>4. CASE Purge(p)
  <2>1. CASE r \in Rows(p)
    <3>1. r \in Picked(p) /\ pc[p] = "purge"
      BY <1>4, <2>1, RowsTyped DEF Purge
    <3>2. Owns(p, Defs(p, r))
      BY <3>1 DEF Picked, OwnDisabled
    <3>3. tx'[p].defs[r] = Absent
      BY <1>4, <2>1, WrittenDefs
    <3> QED
      BY <3>2, <3>3, BelowOwn DEF Writes, Owns
  <2> QED
    BY <1>4, <2>1, WrittenDefs
<1> QED
  BY <1>1, <1>2, <1>3, <1>4 DEF DefsWriter

LEMMA TxtsWriteOwn ==
  ASSUME OwnInv, NEW p \in Publishers, TxtsWriter(p), NEW i \in TextIds
  PROVE  \/ tx'[p].txts[i] = tx[p].txts[i]
         \/ Writes(p, tx'[p].txts[i]) /\ Writes(p, db.txts[i])
<1> USE DEF OwnInv, LockInv, TypeInv
<1>1. CASE DeleteTexts(p)
  <2>1. CASE i \in Rows(p)
    <3>1. i \in Picked(p) /\ pc[p] = "textdelete"
      BY <1>1, <2>1, RowsTyped DEF DeleteTexts
    <3>2. Owns(p, Txts(p, i))
      BY <3>1 DEF Picked, OwnTexts
    <3>3. tx'[p].txts[i] = Absent
      BY <1>1, <2>1, WrittenTxts
    <3> QED
      BY <3>2, <3>3, BelowOwn DEF Writes, Owns
  <2> QED
    BY <1>1, <2>1, WrittenTxts
<1>2. CASE UpdateText(p)
  <2>1. CASE i \in Rows(p)
    <3>1. i \in Picked(p) /\ pc[p] = "textupdate"
      BY <1>2, <2>1, RowsTyped DEF UpdateText
    <3>2. i = TextId(p)
      BY <3>1 DEF Picked
    <3>3. Owns(p, Txts(p, i))
      BY <3>1, <3>2 DEF FoundOwn
    <3>4. tx'[p].txts[i] = NewText(p)
      BY <1>2, <2>1, WrittenTxts
    <3> QED
      BY <3>3, <3>4, BelowOwn DEF Writes, Owns, NewText
  <2> QED
    BY <1>2, <2>1, WrittenTxts
<1>3. CASE InsertText(p)
  <2>1. CASE i = TextId(p)
    <3>1. Txts(p, i) = Absent
      BY <1>3, <2>1 DEF InsertText
    <3>2. tx'[p].txts[i] = NewText(p)
      BY <1>3, <2>1, WrittenTxts
    <3> QED
      BY <3>1, <3>2, BelowOwn DEF Writes, NewText
  <2> QED
    BY <1>3, <2>1, WrittenTxts
<1> QED
  BY <1>1, <1>2, <1>3 DEF TxtsWriter

LEMMA OwnRowsStep ==
  ASSUME OwnInv, NEW p \in Publishers, Begin(p) \/ Step(p) \/ Fail(p)
  PROVE  OwnRows'
<1> USE DEF OwnInv, LockInv
<1> SUFFICES ASSUME NEW q \in Publishers
             PROVE  /\ \A r \in Resources : tx'[q].defs[r] # Clean =>
                         (Writes(q, tx[q].defs[r]) /\ Writes(q, db.defs[r]))'
                    /\ \A i \in TextIds : tx'[q].txts[i] # Clean =>
                         (Writes(q, tx[q].txts[i]) /\ Writes(q, db.txts[i]))'
  BY DEF OwnRows, Writes, Source
<1>1. CASE q # p
  <2>1. tx'[q] = tx[q] /\ Source(q)' = Source(q)
    BY <1>1, OthersKeep DEF Source
  <2>2. \A r \in Resources : tx[q].defs[r] # Clean => db'.defs[r] = db.defs[r]
    BY <1>1, EndFrees, OnlyCommitPublishes
       DEF TypeInv, Ending, RowLocks, Defs, Over
  <2>3. \A i \in TextIds : tx[q].txts[i] # Clean => db'.txts[i] = db.txts[i]
    BY <1>1, EndFrees, OnlyCommitPublishes
       DEF TypeInv, Ending, RowLocks, Txts, Over
  <2> QED
    BY <2>1, <2>2, <2>3 DEF OwnRows, Writes
<1>2. CASE q = p /\ (Ending(p) \/ Begin(p))
  <2>1. tx'[p] = CleanOverlay
    BY <1>2, EndFrees DEF TypeInv, Begin, CleanBefore, Writing
  <2> QED
    BY <1>2, <2>1, CleanCells
<1>3. CASE q = p /\ ~Ending(p) /\ ~Begin(p)
  <2>1. Source(p)' = Source(p) /\ db' = db
    BY <1>3, CallStays, OnlyCommitPublishes DEF TypeInv, Source, Ending
  <2>2. ASSUME NEW r \in Resources, tx'[p].defs[r] # Clean
        PROVE  Writes(p, tx'[p].defs[r]) /\ Writes(p, db.defs[r])
    <3>1. CASE DefsWriter(p)
      BY <2>2, <3>1, DefsWriteOwn DEF OwnRows
    <3>2. CASE ~DefsWriter(p)
      BY <1>3, <2>2, <3>2, TxtsWriterFrame, OtherFrame DEF OwnRows
    <3> QED
      BY <3>1, <3>2
  <2>3. ASSUME NEW i \in TextIds, tx'[p].txts[i] # Clean
        PROVE  Writes(p, tx'[p].txts[i]) /\ Writes(p, db.txts[i])
    <3>1. CASE TxtsWriter(p)
      BY <2>3, <3>1, TxtsWriteOwn DEF OwnRows
    <3>2. CASE ~TxtsWriter(p)
      BY <1>3, <2>3, <3>2, DefsWriterFrame, OtherFrame DEF OwnRows
    <3> QED
      BY <3>1, <3>2
  <2> QED
    BY <1>3, <2>1, <2>2, <2>3 DEF Writes
<1> QED
  BY <1>1, <1>2, <1>3

-----------------------------------------------------------------------------
(***************************************************************************)
(* A row found to be the source's own stays so until it is written.        *)
(***************************************************************************)
FoundNow(p) ==
  /\ \/ pc[p] = "update"
     \/ pc[p] \in {"hashes", "record", "recheck"} /\ found[p]
     => Owns(p, Defs(p, Res(p)))
  /\ pc[p] = "textupdate" => Owns(p, Txts(p, TextId(p)))

LEMMA OthersFound ==
  ASSUME OwnInv, Undisturbed, NEW p \in Publishers,
         Begin(p) \/ Step(p) \/ Fail(p), NEW q \in Publishers \ {p}
  PROVE  FoundNow(q)'
<1> USE DEF OwnInv, LockInv
<1>1. /\ pc'[q] = pc[q] /\ call'[q] = call[q] /\ at'[q] = at[q]
      /\ ws'[q] = ws[q] /\ found'[q] = found[q]
  BY OthersKeep, OthersStand DEF TypeInv
<1>2. /\ Source(q)' = Source(q) /\ Res(q)' = Res(q) /\ TextId(q)' = TextId(q)
  BY <1>1 DEF Source, Res, Definition, TextId, Workspace, Text
<1>3. FoundNow(q)
  BY DEF FoundOwn, FoundNow
<1>4. ASSUME pc[q] \in DefinitionSteps, Owns(q, Defs(q, Res(q)))
      PROVE  Owns(q, Defs(q, Res(q)))'
  <2>1. Busy(q) /\ Res(q) \in Resources
    BY <1>4, CurrentDefinition DEF Busy, Active, DefinitionSteps
  <2>2. Defs(q, Res(q))' = Defs(q, Res(q))
    BY <1>2, <1>4, <2>1, OthersView DEF Defs
  <2> QED
    BY <1>2, <1>4, <2>2 DEF Owns
<1>5. ASSUME pc[q] = "textupdate", Owns(q, Txts(q, TextId(q)))
      PROVE  Owns(q, Txts(q, TextId(q)))'
  <2>1. Busy(q) /\ TextId(q) \in TextIds
    BY <1>5, CurrentText DEF Busy, Active, TextSteps
  <2>2. Txts(q, TextId(q))' = Txts(q, TextId(q))
    BY <1>2, <1>5, <2>1, OthersView DEF Txts
  <2> QED
    BY <1>2, <1>5, <2>2 DEF Owns
<1> QED
  BY <1>1, <1>3, <1>4, <1>5 DEF FoundNow, DefinitionSteps

\* Only the steps of the look-up lead to an UPDATE, and they write no row of
\* the tables they look at.
LEMMA LookedUp ==
  ASSUME TypeInv, NEW p \in Publishers, Begin(p) \/ Step(p) \/ Fail(p),
         pc'[p] \in {"hashes", "record", "recheck", "update", "textupdate"}
  PROVE  /\ \/ GetDefinition(p) \/ ReadHistory(p) \/ RecordVersion(p)
            \/ VersionNotInserted(p) \/ RecheckHistory(p) \/ LookUpText(p)
            \/ Wait(p)
         /\ db' = db /\ call' = call /\ at' = at /\ ws' = ws
         /\ tx'[p].defs = tx[p].defs /\ tx'[p].txts = tx[p].txts
<1>1. \/ GetDefinition(p) \/ ReadHistory(p) \/ RecordVersion(p)
      \/ VersionNotInserted(p) \/ RecheckHistory(p) \/ LookUpText(p)
      \/ Wait(p)
  BY Moves DEF TypeInv, Step, PickingSteps
<1>2. ~DefsWriter(p) /\ ~TxtsWriter(p) /\ ~Ending(p)
  <2>1. ASSUME Wait(p) PROVE ~DefsWriter(p) /\ ~TxtsWriter(p) /\ ~Ending(p)
    BY <2>1, Moves
       DEF TypeInv, Wait, DefsWriter, TxtsWriter, Ending, Commit, Rollback,
           Disable, UpdateDefinition, InsertDefinition, Purge, DeleteTexts,
           UpdateText, InsertText, Unlocked
  <2> QED
    BY <1>1, <2>1, Moves DEF TypeInv, DefsWriter, TxtsWriter, Ending
<1>3. tx'[p].defs = tx[p].defs /\ tx'[p].txts = tx[p].txts /\ db' = db
  BY <1>2, OtherFrame
<1> QED
  BY <1>1, <1>3
     DEF GetDefinition, ReadHistory, RecordVersion, VersionNotInserted,
         RecheckHistory, LookUpText, Wait

LEMMA FoundStep ==
  ASSUME OwnInv, Undisturbed, NEW p \in Publishers,
         Begin(p) \/ Step(p) \/ Fail(p)
  PROVE  FoundOwn'
<1> USE DEF OwnInv, LockInv, TypeInv, TypeOK, Goto
<1>1. FoundNow(p)'
  <2> SUFFICES ASSUME pc'[p] \in {"hashes", "record", "recheck", "update",
                                  "textupdate"}
               PROVE  FoundNow(p)'
    BY DEF FoundNow
  <2>1. /\ \/ GetDefinition(p) \/ ReadHistory(p) \/ RecordVersion(p)
           \/ VersionNotInserted(p) \/ RecheckHistory(p) \/ LookUpText(p)
           \/ Wait(p)
        /\ db' = db /\ call' = call /\ at' = at /\ ws' = ws
        /\ tx'[p].defs = tx[p].defs /\ tx'[p].txts = tx[p].txts
    BY LookedUp
  <2>2. /\ Owns(p, Defs(p, Res(p)))' = Owns(p, Defs(p, Res(p)))
        /\ Owns(p, Txts(p, TextId(p)))' = Owns(p, Txts(p, TextId(p)))
    BY <2>1 DEF Owns, Defs, Txts, Over, Source, Res, Definition, TextId,
                Workspace, Text
  <2>3. FoundNow(p)
    BY DEF FoundOwn, FoundNow
  <2>4. CASE GetDefinition(p)
    <3>1. /\ pc'[p] \in {"hashes", "update"}
          /\ found'[p] <=> Defs(p, Res(p)) # Absent
          /\ pc'[p] = "update" => Defs(p, Res(p)) # Absent
          /\ ~Foreign(p, Defs(p, Res(p)))
      BY <2>4 DEF GetDefinition, NeedsVersion
    <3> QED
      BY <2>2, <3>1 DEF FoundNow, Owns, Foreign
  <2>5. CASE ReadHistory(p) \/ RecheckHistory(p)
    <3>1. /\ pc[p] \in {"hashes", "recheck"} /\ found' = found
          /\ pc'[p] \in {"record", "conflict", "update", "insert"}
          /\ pc'[p] = "update" => found[p]
      BY <2>5 DEF ReadHistory, RecheckHistory, CheckHistory
    <3> QED
      BY <2>2, <2>3, <3>1 DEF FoundNow
  <2>6. CASE RecordVersion(p) \/ VersionNotInserted(p)
    <3>1. /\ pc[p] = "record" /\ found' = found
          /\ pc'[p] \in {"recheck", "update", "insert"}
          /\ pc'[p] = "update" => found[p]
      BY <2>6 DEF RecordVersion, VersionNotInserted
    <3> QED
      BY <2>2, <2>3, <3>1 DEF FoundNow
  <2>7. CASE LookUpText(p)
    <3>1. /\ pc'[p] \in {"textinsert", "textupdate"}
          /\ pc'[p] = "textupdate" => Txts(p, TextId(p)) # Absent
          /\ ~Foreign(p, Txts(p, TextId(p)))
      BY <2>7 DEF LookUpText
    <3> QED
      BY <2>2, <3>1 DEF FoundNow, Owns, Foreign
  <2>8. CASE Wait(p)
    <3>1. pc' = pc /\ found' = found
      BY <2>8 DEF Wait
    <3> QED
      BY <2>2, <2>3, <3>1 DEF FoundNow
  <2> QED
    BY <2>1, <2>4, <2>5, <2>6, <2>7, <2>8
<1>2. \A q \in Publishers : FoundNow(q)'
  BY <1>1, OthersFound
<1> QED
  BY <1>2 DEF FoundOwn, FoundNow

LEMMA OwnStep ==
  ASSUME Separated, OwnInv, NEW p \in Publishers, Begin(p) \/ Step(p) \/ Fail(p)
  PROVE  OwnInv'
<1>1. Undisturbed
  BY SourcesUndisturbed DEF OwnInv
<1> QED
  BY <1>1, LockStep, OffersStep, OneWriterStep, OwnRowsStep, FoundStep DEF OwnInv

LEMMA InitOwn == Init => OwnInv
<1> SUFFICES ASSUME Init PROVE OwnInv
  OBVIOUS
<1>1. CallsOffered /\ OneWriter /\ FoundOwn
  BY DEF Init, CallsOffered, OneWriter, FoundOwn, Active
<1>2. OwnRows
  BY CleanCells DEF Init, OwnRows
<1> QED
  BY <1>1, <1>2, InitLocks DEF OwnInv

LEMMA StutterOwn == OwnInv /\ UNCHANGED vars => OwnInv'
<1> SUFFICES ASSUME OwnInv, UNCHANGED vars PROVE OwnInv'
  OBVIOUS
<1>1. LockInv'
  BY StutterLocks DEF OwnInv
<1>2. CallsOffered' /\ OneWriter' /\ OwnRows'
  BY DEF OwnInv, CallsOffered, OneWriter, Active, OwnRows, Writes, Source, vars
<1>3. FoundOwn'
  BY DEF OwnInv, FoundOwn, Owns, Defs, Txts, Over, Source, Res, Definition,
         TextId, Workspace, Text, vars
<1> QED
  BY <1>1, <1>2, <1>3 DEF OwnInv

\* A commit changes rows of its own source only.
LEMMA CommitsOwnRows ==
  ASSUME OwnInv, NEW p \in Publishers, Commit(p)
  PROVE  /\ \A r \in Resources : OnlyByOwner(db.defs[r], db'.defs[r])
         /\ \A i \in TextIds : OnlyByOwner(db.txts[i], db'.txts[i])
<1> USE DEF OwnInv, LockInv, TypeInv
<1>1. Commits(p)
  BY EndFrees DEF Ending, Commits
<1>2. ASSUME NEW r \in Resources PROVE OnlyByOwner(db.defs[r], db'.defs[r])
  BY <1>1, EndFrees DEF Ending, OnlyByOwner, Defs, Over, OwnRows, Writes
<1>3. ASSUME NEW i \in TextIds PROVE OnlyByOwner(db.txts[i], db'.txts[i])
  BY <1>1, EndFrees DEF Ending, OnlyByOwner, Txts, Over, OwnRows, Writes
<1> QED
  BY <1>2, <1>3

\* No source takes over, overwrites or removes a definition or text of
\* another: a published row changes only when its own source commits a Sync,
\* whatever else runs, waits, fails or is rolled back.
THEOREM RowsBelongToTheirSource ==
  ASSUME Separated
  PROVE  Spec => OwnershipStable
<1>1. OwnInv /\ [Next]_vars => OwnInv'
  BY OwnStep, StutterOwn DEF Next
<1>2. ASSUME OwnInv, [Next]_vars
      PROVE  /\ \A r \in Resources : OnlyByOwner(db.defs[r], db'.defs[r])
             /\ \A i \in TextIds : OnlyByOwner(db.txts[i], db'.txts[i])
  <2>1. CASE \E p \in Publishers : Commit(p)
    BY <1>2, <2>1, CommitsOwnRows
  <2>2. CASE \A p \in Publishers : ~Commit(p)
    <3>1. db' = db
      BY <1>2, <2>2, OnlyCommitPublishes DEF OwnInv, LockInv, Next, vars
    <3> QED
      BY <3>1 DEF OnlyByOwner
  <2> QED
    BY <2>1, <2>2
<1>3. OwnInv /\ [Next]_vars =>
        [/\ \A r \in Resources : OnlyByOwner(db.defs[r], db'.defs[r])
         /\ \A i \in TextIds : OnlyByOwner(db.txts[i], db'.txts[i])]_vars
  BY <1>2
<1> QED
  BY <1>1, <1>3, InitOwn, PTL DEF Spec, OwnershipStable

-----------------------------------------------------------------------------
(***************************************************************************)
(* What is visible of a source while its publisher works.                  *)
(***************************************************************************)
LEMMA OthersPicked ==
  ASSUME OwnInv, OwnPicked, Undisturbed, NEW p \in Publishers,
         Begin(p) \/ Step(p) \/ Fail(p), NEW q \in Publishers \ {p},
         target'[q] # NoStatement
  PROVE  /\ pc'[q] = "disable" => OwnEnabled(q)' \subseteq target'[q]
         /\ pc'[q] = "purge" => OwnDisabled(q)' \subseteq target'[q]
         /\ pc'[q] = "textdelete" => OwnTexts(q)' \subseteq target'[q]
<1> USE DEF OwnInv, LockInv, TypeInv
<1>1. /\ tx'[q] = tx[q] /\ pc'[q] = pc[q] /\ ws'[q] = ws[q]
      /\ Source(q)' = Source(q) /\ Workspace(q)' = Workspace(q)
  BY OthersKeep, OthersStand DEF Source, Workspace
<1>2. target[q] # NoStatement /\ Busy(q)
  BY WaitersMove DEF Busy
<1>3. ASSUME NEW r \in Resources, Owns(q, Defs(q, r)), r \in target[q],
             Table(q) = "defs"
      PROVE  r \in target'[q]
  <2>1. CASE Commit(p)
    <3>1. <<Table(q), r>> \notin born[p]
      <4>1. SUFFICES ASSUME <<"defs", r>> \in born[p] PROVE FALSE
        BY <1>3
      <4>2. tx[p].defs[r] # Clean /\ tx[q].defs[r] = Clean
        BY <4>1 DEF BornWritten, RowLocks
      <4>3. Writes(p, db.defs[r]) /\ Defs(q, r) = db.defs[r]
        BY <4>2 DEF OwnRows, Defs, Over
      <4>4. Source(p) # Source(q)
        BY <1>2, <2>1 DEF Undisturbed, Busy, Active, Commit
      <4> QED
        BY <1>3, <4>3, <4>4 DEF Owns, Writes
    <3> QED
      BY <1>2, <1>3, <2>1, <3>1, WaitersMove
  <2> QED
    BY <1>3, <2>1, WaitersMove
<1>4. ASSUME NEW i \in TextIds, Owns(q, Txts(q, i)), i \in target[q],
             Table(q) = "txts"
      PROVE  i \in target'[q]
  <2>1. CASE Commit(p)
    <3>1. <<Table(q), i>> \notin born[p]
      <4>1. SUFFICES ASSUME <<"txts", i>> \in born[p] PROVE FALSE
        BY <1>4
      <4>2. tx[p].txts[i] # Clean /\ tx[q].txts[i] = Clean
        BY <4>1 DEF BornWritten, RowLocks
      <4>3. Writes(p, db.txts[i]) /\ Txts(q, i) = db.txts[i]
        BY <4>2 DEF OwnRows, Txts, Over
      <4>4. Source(p) # Source(q)
        BY <1>2, <2>1 DEF Undisturbed, Busy, Active, Commit
      <4> QED
        BY <1>4, <4>3, <4>4 DEF Owns, Writes
    <3> QED
      BY <1>2, <1>4, <2>1, <3>1, WaitersMove
  <2> QED
    BY <1>4, <2>1, WaitersMove
<1>5. /\ OwnEnabled(q)' \subseteq OwnEnabled(q)
      /\ OwnDisabled(q)' \subseteq OwnDisabled(q)
      /\ OwnTexts(q)' \subseteq OwnTexts(q)
  <2>1. ASSUME NEW r \in Resources, Owns(q, Defs(q, r))'
        PROVE  Defs(q, r)' = Defs(q, r) /\ Owns(q, Defs(q, r))
    <3>1. Defs(q, r)' = Defs(q, r)
      BY <1>2, <2>1, OthersView
    <3> QED
      BY <1>1, <2>1, <3>1 DEF Owns
  <2>2. ASSUME NEW i \in TextIds, Owns(q, Txts(q, i))'
        PROVE  Txts(q, i)' = Txts(q, i) /\ Owns(q, Txts(q, i))
    <3>1. Txts(q, i)' = Txts(q, i)
      BY <1>2, <2>2, OthersView
    <3> QED
      BY <1>1, <2>2, <3>1 DEF Owns
  <2> QED
    BY <1>1, <2>1, <2>2 DEF OwnEnabled, OwnDisabled, OwnTexts
<1>6. /\ pc[q] \in {"disable", "purge"} => Table(q) = "defs"
      /\ pc[q] = "textdelete" => Table(q) = "txts"
  BY DEF Table
<1>7. /\ pc[q] = "disable" => OwnEnabled(q) \subseteq target[q]
      /\ pc[q] = "purge" => OwnDisabled(q) \subseteq target[q]
      /\ pc[q] = "textdelete" => OwnTexts(q) \subseteq target[q]
  BY <1>2 DEF OwnPicked
<1>8. \A r \in OwnEnabled(q) \cup OwnDisabled(q) :
        r \in Resources /\ Owns(q, Defs(q, r))
  BY DEF OwnEnabled, OwnDisabled
<1>9. \A i \in OwnTexts(q) : i \in TextIds /\ Owns(q, Txts(q, i))
  BY DEF OwnTexts
<1> QED
  BY <1>1, <1>3, <1>4, <1>5, <1>6, <1>7, <1>8, <1>9

LEMMA OwnPickedStep ==
  ASSUME OwnInv, OwnPicked, Undisturbed, NEW p \in Publishers,
         Begin(p) \/ Step(p) \/ Fail(p)
  PROVE  OwnPicked'
<1> USE DEF OwnInv, LockInv, TypeInv
<1>1. ASSUME target'[p] # NoStatement
      PROVE  /\ pc'[p] = "disable" => OwnEnabled(p)' \subseteq target'[p]
             /\ pc'[p] = "purge" => OwnDisabled(p)' \subseteq target'[p]
             /\ pc'[p] = "textdelete" => OwnTexts(p)' \subseteq target'[p]
  <2>1. Wait(p)
    BY <1>1, WaitersMove
  <2>2. /\ UNCHANGED <<db, tx, pc, call, ws>>
        /\ target'[p] = Picked(p)
    BY <2>1 DEF Wait, TypeOK
  <2>3. /\ OwnEnabled(p)' = OwnEnabled(p) /\ OwnDisabled(p)' = OwnDisabled(p)
        /\ OwnTexts(p)' = OwnTexts(p)
    BY <2>2 DEF OwnEnabled, OwnDisabled, OwnTexts, Owns, Source, Workspace, Defs,
                Txts, Over
  <2> QED
    BY <2>2, <2>3 DEF Picked
<1>2. \A q \in Publishers : target'[q] # NoStatement =>
        /\ pc'[q] = "disable" => OwnEnabled(q)' \subseteq target'[q]
        /\ pc'[q] = "purge" => OwnDisabled(q)' \subseteq target'[q]
        /\ pc'[q] = "textdelete" => OwnTexts(q)' \subseteq target'[q]
  BY <1>1, OthersPicked
<1> QED
  BY <1>2 DEF OwnPicked

\* Every row the statement may pick, it writes, however long it waited.
LEMMA AllPicked ==
  ASSUME OwnPicked, NEW p \in Publishers
  PROVE  /\ pc[p] = "disable" => OwnEnabled(p) \subseteq Rows(p)
         /\ pc[p] = "purge" => OwnDisabled(p) \subseteq Rows(p)
         /\ pc[p] = "textdelete" => OwnTexts(p) \subseteq Rows(p)
<1>1. CASE pc[p] = "disable"
  <2>1. Picked(p) = OwnEnabled(p)
    BY <1>1 DEF Picked
  <2> QED
    BY <1>1, <2>1 DEF Rows, OwnPicked
<1>2. CASE pc[p] = "purge"
  <2>1. Picked(p) = OwnDisabled(p)
    BY <1>2 DEF Picked
  <2> QED
    BY <1>2, <2>1 DEF Rows, OwnPicked
<1>3. CASE pc[p] = "textdelete"
  <2>1. Picked(p) = OwnTexts(p)
    BY <1>3 DEF Picked
  <2> QED
    BY <1>3, <2>1 DEF Rows, OwnPicked
<1> QED
  BY <1>1, <1>2, <1>3

\* Where a publisher is at work on the definitions, or has dealt with them.
AtDefinitions == DefinitionSteps \cup {"purge"}

LEMMA PublishedNow ==
  ASSUME TypeInv, NEW p \in Publishers, pc[p] \in DefinitionSteps
  PROVE  Published(call[p], Res(p), PublishedRow(call[p], Definition(p)))
<1>1. at[p] \in DOMAIN call[p].defs
  BY DEF TypeInv, Position, InPlace
<1> QED
  BY <1>1 DEF Published, Res, Definition

\* The steps that lead to or along the definitions, but do not write them.
LEMMA AlongDefinitions ==
  ASSUME TypeInv, NEW p \in Publishers, Begin(p) \/ Step(p) \/ Fail(p),
         pc'[p] \in AtDefinitions, ~DefsWriter(p)
  PROVE  pc[p] \in AtDefinitions /\ tx'[p].defs = tx[p].defs /\ db' = db
<1>1. pc[p] \in AtDefinitions /\ ~TxtsWriter(p) /\ ~Ending(p)
  BY Moves DEF TypeInv, AtDefinitions, DefinitionSteps, PickingSteps, Step,
               DefsWriter, TxtsWriter, Ending
<1> QED
  BY <1>1, OtherFrame

LEMMA DefsShownStep ==
  ASSUME OwnInv, OwnPicked, DefsShown, Undisturbed, NEW p \in Publishers,
         Begin(p) \/ Step(p) \/ Fail(p)
  PROVE  DefsShown'
<1> USE DEF OwnInv, LockInv
<1> SUFFICES ASSUME NEW q \in Publishers, NEW r \in Resources,
                    Owns(q, Defs(q, r))'
             PROVE  /\ pc'[q] \in AtDefinitions =>
                         (Defs(q, r).disabled \/ Published(call[q], r, Defs(q, r)))'
                    /\ pc'[q] \in PurgedSteps =>
                         Published(call[q], r, Defs(q, r))'
  BY DEF DefsShown, AtDefinitions
<1>1. CASE q # p
  <2> SUFFICES ASSUME pc'[q] \in AtDefinitions \cup PurgedSteps
               PROVE  Defs(q, r)' = Defs(q, r) /\ pc'[q] = pc[q]
                      /\ call'[q] = call[q]
    <3>1. Source(q)' = Source(q)
      BY <1>1, OthersKeep DEF Source
    <3> QED
      BY <3>1 DEF DefsShown, AtDefinitions, Owns, Published
  <2>1. pc'[q] = pc[q] /\ call'[q] = call[q]
    BY <1>1, OthersKeep
  <2>2. Busy(q)
    BY <2>1 DEF Busy, Active, AtDefinitions, DefinitionSteps, PurgedSteps
  <2> QED
    BY <1>1, <2>1, <2>2, OthersView
<1>2. CASE q = p /\ DefsWriter(p)
  <2>1. call' = call /\ db' = db /\ Source(p)' = Source(p)
    <3>1. (Step(p) \/ Fail(p)) /\ ~Ending(p)
      BY <1>2, Moves DEF TypeInv, DefsWriter, Step, Ending
    <3>2. call' = call
      BY <3>1, CallStays DEF TypeInv
    <3> QED
      BY <1>2, <3>2, DefsWriterFrame DEF Source
  <2>2. tx'[p].defs[r] = tx[p].defs[r] => Defs(p, r)' = Defs(p, r)
    BY <2>1 DEF Defs, Over
  <2>3. \A row \in DefinitionRow \cup {Absent} :
          tx'[p].defs[r] = row => Defs(p, r)' = row
    BY RowsAreNotClean DEF Defs, Over
  <2>4. CASE Disable(p)
    <3>1. pc[p] = "disable" /\ pc'[p] \in {"get", "purge"}
      BY <2>4, Moves DEF TypeInv
    <3>2. Defs(p, r)'.disabled
      <4>1. CASE r \in Rows(p)
        <5>1. Defs(p, r) \in DefinitionRow
          BY <3>1, <4>1, RowsTyped
        <5>2. [Defs(p, r) EXCEPT !.disabled = TRUE] \in DefinitionRow
          BY <5>1 DEF DefinitionRow
        <5>3. Defs(p, r)' = [Defs(p, r) EXCEPT !.disabled = TRUE]
          BY <2>3, <2>4, <4>1, <5>2, WrittenDefs DEF TypeInv
        <5> QED
          BY <5>1, <5>3 DEF DefinitionRow
      <4>2. CASE r \notin Rows(p)
        <5>1. Defs(p, r)' = Defs(p, r)
          BY <2>2, <2>4, <4>2, WrittenDefs DEF TypeInv
        <5>2. Owns(p, Defs(p, r)) /\ r \notin OwnEnabled(p)
          BY <1>2, <2>1, <3>1, <4>2, <5>1, AllPicked DEF Owns
        <5> QED
          BY <5>1, <5>2 DEF OwnEnabled
      <4> QED
        BY <4>1, <4>2
    <3> QED
      BY <1>2, <3>1, <3>2 DEF PurgedSteps
  <2>5. CASE UpdateDefinition(p) \/ InsertDefinition(p)
    <3>1. pc[p] \in {"update", "insert"} /\ pc'[p] \in {"get", "purge"}
      BY <2>5, Moves DEF TypeInv
    <3>2. PublishedRow(call[p], Definition(p)) \in DefinitionRow
      BY <3>1, CurrentDefinition DEF DefinitionSteps
    <3>3. \/ Defs(p, r)' = Defs(p, r)
          \/ r = Res(p) /\ Defs(p, r)' = PublishedRow(call[p], Definition(p))
      <4>1. CASE UpdateDefinition(p)
        <5>1. r \in Rows(p) => r = Res(p)
          <6>1. pc[p] = "update"
            BY <4>1 DEF UpdateDefinition
          <6> QED
            BY <6>1 DEF Rows, Picked
        <5> QED
          BY <2>2, <2>3, <3>2, <4>1, <5>1, WrittenDefs DEF TypeInv
      <4>2. CASE InsertDefinition(p)
        BY <2>2, <2>3, <3>2, <4>2, WrittenDefs DEF TypeInv
      <4> QED
        BY <2>5, <4>1, <4>2
    <3>4. CASE Defs(p, r)' = Defs(p, r)
      <4>1. Owns(p, Defs(p, r))
        BY <1>2, <2>1, <3>4 DEF Owns
      <4> QED
        BY <1>2, <2>1, <3>1, <3>4, <4>1
           DEF DefsShown, AtDefinitions, DefinitionSteps, PurgedSteps, Published
    <3>5. CASE r = Res(p) /\ Defs(p, r)' = PublishedRow(call[p], Definition(p))
      <4>1. Published(call[p], r, Defs(p, r)')
        BY <3>1, <3>5, PublishedNow DEF DefinitionSteps
      <4> QED
        BY <1>2, <2>1, <4>1 DEF Published
    <3> QED
      BY <3>3, <3>4, <3>5
  <2>6. CASE Purge(p)
    <3>1. pc[p] = "purge" /\ pc'[p] = "texts"
      BY <2>6, Moves DEF TypeInv
    <3>2. r \notin Rows(p)
      BY <1>2, <2>3, <2>6, WrittenDefs DEF TypeInv, Owns
    <3>3. Defs(p, r)' = Defs(p, r)
      BY <2>2, <2>6, <3>2, WrittenDefs DEF TypeInv
    <3>4. Owns(p, Defs(p, r)) /\ r \notin OwnDisabled(p)
      BY <1>2, <2>1, <3>1, <3>2, <3>3, AllPicked DEF Owns
    <3>5. Published(call[p], r, Defs(p, r))
      BY <3>1, <3>4 DEF DefsShown, OwnDisabled
    <3> QED
      BY <1>2, <2>1, <3>1, <3>3, <3>5
         DEF Published, AtDefinitions, DefinitionSteps
  <2> QED
    BY <1>2, <2>4, <2>5, <2>6 DEF DefsWriter
<1>3. CASE q = p /\ ~DefsWriter(p) /\ pc'[p] \in AtDefinitions \cup PurgedSteps
  <2>1. /\ pc'[p] \in AtDefinitions => pc[p] \in AtDefinitions
        /\ pc'[p] \in PurgedSteps => pc[p] \in PurgedSteps
        /\ tx'[p].defs = tx[p].defs
    BY <1>3, AlongDefinitions, AfterPurge DEF DefsWriter
  <2>2. ~Ending(p) /\ ~Begin(p)
    BY <1>3, Moves, EndFrees
       DEF TypeInv, AtDefinitions, DefinitionSteps, PurgedSteps
  <2>3. call' = call /\ db' = db
    BY <2>2, CallStays, OnlyCommitPublishes DEF TypeInv, Ending
  <2>4. Defs(p, r)' = Defs(p, r) /\ Source(p)' = Source(p)
    BY <2>1, <2>3 DEF Defs, Over, Source
  <2>5. Owns(p, Defs(p, r))
    BY <1>3, <2>4 DEF Owns
  <2> QED
    BY <1>3, <2>1, <2>3, <2>4, <2>5 DEF DefsShown, AtDefinitions, Published
<1> QED
  BY <1>1, <1>2, <1>3

LEMMA NoWorkspaceStep ==
  ASSUME LockInv, NoWorkspaceYet, NEW p \in Publishers,
         Begin(p) \/ Step(p) \/ Fail(p)
  PROVE  NoWorkspaceYet'
<1> USE DEF LockInv, TypeInv, TypeOK
<1> SUFFICES ASSUME NEW q \in Publishers, pc'[q] \in BeforeTexts
             PROVE  ws'[q] = 0
  BY DEF NoWorkspaceYet
<1>1. CASE q # p
  BY <1>1, OthersKeep, OthersStand DEF NoWorkspaceYet
<1>2. CASE q = p /\ Ending(p)
  BY <1>2 DEF Ending, Commit, Rollback, End
<1>3. CASE q = p /\ ~Ending(p)
  <2>1. /\ \/ Begin(p) \/ Wait(p) \/ Disable(p) \/ SkipForeign(p)
           \/ GetDefinition(p) \/ ReadHistory(p) \/ RecordVersion(p)
           \/ VersionNotInserted(p) \/ RecheckHistory(p) \/ UpdateDefinition(p)
           \/ InsertDefinition(p) \/ Purge(p)
        /\ pc[p] \in BeforeTexts
    BY <1>3, Moves DEF Step, Ending, BeforeTexts, DefinitionSteps, PickingSteps
  <2>2. ws' = ws
    BY <2>1 DEF Begin, Wait, Disable, SkipForeign, GetDefinition, ReadHistory,
                RecordVersion, VersionNotInserted, RecheckHistory,
                UpdateDefinition, InsertDefinition, Purge
  <2> QED
    BY <1>3, <2>1, <2>2 DEF NoWorkspaceYet
<1> QED
  BY <1>1, <1>2, <1>3

\* The workspaces passed over have no texts in the snapshot.
LEMMA PassedOver ==
  ASSUME TypeInv, NEW p \in Publishers, NextWorkspace(p),
         NEW j \in DOMAIN WorkspaceOrder, j \in DoneWith(p)', j > ws[p]
  PROVE  call[p].texts[WorkspaceOrder[j]] = <<>>
<1> USE DEF TypeInv, TypeOK
<1>0. j \in Nat /\ ws[p] \in Nat
  BY WorkspaceOrderIsSequence
<1>1. CASE LaterWorkspaces(p) = {}
  BY <1>1 DEF LaterWorkspaces
<1>2. CASE LaterWorkspaces(p) # {}
  <2> DEFINE next == CHOOSE i \in LaterWorkspaces(p) :
                       \A k \in LaterWorkspaces(p) : i <= k
  <2>1. ws'[p] = next /\ pc'[p] = "textdelete"
    BY <1>2 DEF NextWorkspace, Goto
  <2>2. next \in LaterWorkspaces(p) /\ \A k \in LaterWorkspaces(p) : next <= k
    BY <1>2, LaterWorkspaceExists
  <2> HIDE DEF next
  <2>3. next \in Nat /\ j < next
    BY <2>1, <2>2, WorkspaceOrderIsSequence
       DEF LaterWorkspaces, DoneWith, TextSteps
  <2>4. j \notin LaterWorkspaces(p)
    BY <1>0, <2>2, <2>3
  <2> QED
    BY <2>4 DEF LaterWorkspaces
<1> QED
  BY <1>1, <1>2

\* A loop over texts that ends or goes on is done with its workspace.
LEMMA TextLoop ==
  ASSUME TypeInv, NEW p \in Publishers, pc[p] \in TextSteps, NextText(p),
         NEW j \in DoneWith(p)'
  PROVE  j \in DoneWith(p) \/ call[p].texts[WorkspaceOrder[j]] = <<>>
<1> USE DEF TypeInv, TypeOK
<1>1. j \in DOMAIN WorkspaceOrder /\ j \in Nat /\ ws[p] \in Nat
  BY WorkspaceOrderIsSequence DEF DoneWith
<1>2. j <= ws[p] => j \in DoneWith(p)
  BY <1>1 DEF DoneWith
<1>3. CASE at[p] < Len(call[p].texts[Workspace(p)])
  BY <1>1, <1>2, <1>3 DEF NextText, Goto, DoneWith, TextSteps
<1>4. CASE ~(at[p] < Len(call[p].texts[Workspace(p)]))
  <2>1. NextWorkspace(p)
    BY <1>4 DEF NextText
  <2>2. j > ws[p] => call[p].texts[WorkspaceOrder[j]] = <<>>
    BY <1>1, <2>1, PassedOver
  <2> QED
    BY <1>1, <1>2, <2>2
<1> QED
  BY <1>3, <1>4

LEMMA TranslatedNow ==
  ASSUME TypeInv, NEW p \in Publishers, pc[p] \in TextSteps
  PROVE  Translated(call[p], TextId(p), NewText(p))
<1>1. at[p] \in DOMAIN call[p].texts[Workspace(p)]
  BY DEF TypeInv, Position, InPlace
<1> QED
  BY <1>1 DEF Translated, TextId, NewText, Text

\* A text a step of the loop writes is the snapshot's; the DELETE leaves none
\* of its source in its workspace.
LEMMA WrittenTextsShown ==
  ASSUME OwnInv, OwnPicked, NEW p \in Publishers, TxtsWriter(p),
         NEW id \in TextIds
  PROVE  \/ Txts(p, id)' = Absent
         \/ Translated(call[p], id, Txts(p, id)')
         \/ /\ Txts(p, id)' = Txts(p, id)
            /\ DeleteTexts(p) /\ Owns(p, Txts(p, id)) => id[1] # Workspace(p)
<1> USE DEF OwnInv, LockInv
<1>1. db' = db
  BY TxtsWriterFrame
<1>2. tx'[p].txts[id] = tx[p].txts[id] => Txts(p, id)' = Txts(p, id)
  BY <1>1 DEF Txts, Over
<1>3. \A row \in TextRow \cup {Absent} :
        tx'[p].txts[id] = row => Txts(p, id)' = row
  BY RowsAreNotClean DEF Txts, Over
<1>4. CASE DeleteTexts(p)
  <2>1. pc[p] = "textdelete"
    BY <1>4 DEF DeleteTexts
  <2>2. id \notin Rows(p) => id \notin OwnTexts(p)
    BY <2>1, AllPicked
  <2> QED
    BY <1>2, <1>3, <1>4, <2>2, WrittenTxts DEF TypeInv, OwnTexts
<1>5. CASE UpdateText(p) \/ InsertText(p)
  <2>1. pc[p] \in {"textupdate", "textinsert"} /\ ~DeleteTexts(p)
    BY <1>5 DEF UpdateText, InsertText, DeleteTexts
  <2>2. NewText(p) \in TextRow /\ Translated(call[p], TextId(p), NewText(p))
    BY <2>1, CurrentText, TranslatedNow DEF TextSteps
  <2>3. UpdateText(p) /\ id \in Rows(p) => id = TextId(p)
    BY DEF UpdateText, Rows, Picked
  <2> QED
    BY <1>2, <1>3, <1>5, <2>1, <2>2, <2>3, WrittenTxts DEF TypeInv
<1> QED
  BY <1>4, <1>5 DEF TxtsWriter

\* Which workspaces a step gets done with, and what it does to their texts.
LEMMA DoneNow ==
  ASSUME OwnInv, NoWorkspaceYet, NEW p \in Publishers,
         Begin(p) \/ Step(p) \/ Fail(p), NEW j \in DoneWith(p)'
  PROVE  /\ \/ j \in DoneWith(p)
            \/ call[p].texts[WorkspaceOrder[j]] = <<>>
            \/ DeleteTexts(p) /\ WorkspaceOrder[j] = Workspace(p)
         /\ ~DefsWriter(p) /\ ~Ending(p) /\ ~Begin(p)
<1> USE DEF OwnInv, LockInv, TypeInv, TypeOK
<1>1. /\ pc'[p] \in {"textdelete", "projdelete", "projinsert", "synced"}
                      \cup TextSteps
      /\ j \in DOMAIN WorkspaceOrder /\ j \in Nat /\ ws[p] \in Nat
  BY WorkspaceOrderIsSequence DEF DoneWith
<1>2. \/ Wait(p) \/ CheckTexts(p) \/ DeleteTexts(p) \/ SkipForeignText(p)
      \/ LookUpText(p) \/ UpdateText(p) \/ InsertText(p)
      \/ DeleteProjection(p) \/ InsertProjection(p)
  BY <1>1, Moves DEF Step, TextSteps
<1>3. ~DefsWriter(p) /\ ~Ending(p) /\ ~Begin(p)
  BY <1>1, Moves DEF TextSteps, DefsWriter, Ending
<1>4. CASE Wait(p)
  BY <1>3, <1>4 DEF Wait, DoneWith
<1>5. CASE CheckTexts(p)
  <2>1. NextWorkspace(p) /\ pc[p] = "texts"
    BY <1>1, <1>5, Moves DEF CheckTexts, Goto, TextSteps
  <2>2. ws[p] = 0
    BY <2>1 DEF NoWorkspaceYet, BeforeTexts
  <2>3. j > ws[p]
    BY <1>1, <2>2, WorkspaceOrderIsSequence
  <2> QED
    BY <1>1, <1>3, <2>1, <2>3, PassedOver
<1>6. CASE DeleteTexts(p)
  <2>1. pc[p] = "textdelete" /\ pc'[p] = "textlookup" /\ ws' = ws
    BY <1>6 DEF DeleteTexts, Goto
  <2>2. j <= ws[p]
    BY <2>1 DEF DoneWith, TextSteps
  <2> QED
    BY <1>1, <1>3, <1>6, <2>1, <2>2 DEF DoneWith, Workspace
<1>7. CASE SkipForeignText(p) \/ UpdateText(p) \/ InsertText(p)
  <2>1. NextText(p) /\ pc[p] \in TextSteps
    BY <1>7 DEF SkipForeignText, UpdateText, InsertText, TextSteps
  <2> QED
    BY <1>3, <2>1, TextLoop
<1>8. CASE LookUpText(p)
  BY <1>3, <1>8, Moves DEF LookUpText, DoneWith, TextSteps
<1>9. CASE DeleteProjection(p) \/ InsertProjection(p)
  BY <1>3, <1>9, Moves DEF DoneWith, TextSteps
<1> QED
  BY <1>2, <1>3, <1>4, <1>5, <1>6, <1>7, <1>8, <1>9

LEMMA TextsShownStep ==
  ASSUME OwnInv, OwnPicked, NoWorkspaceYet, TextsShown, Undisturbed,
         NEW p \in Publishers, Begin(p) \/ Step(p) \/ Fail(p)
  PROVE  TextsShown'
<1> USE DEF OwnInv, LockInv
<1> SUFFICES ASSUME NEW q \in Publishers, NEW j \in DoneWith(q)',
                    NEW id \in TextIds, id[1] = WorkspaceOrder[j],
                    Owns(q, Txts(q, id))', call'[q].texts[id[1]] # <<>>
             PROVE  Translated(call[q], id, Txts(q, id))'
  BY DEF TextsShown, Shown
<1>1. CASE q # p
  <2>1. /\ pc'[q] = pc[q] /\ call'[q] = call[q] /\ ws'[q] = ws[q]
        /\ Source(q)' = Source(q)
    BY <1>1, OthersKeep, OthersStand DEF TypeInv, Source
  <2>2. j \in DoneWith(q) /\ Busy(q)
    BY <2>1 DEF DoneWith, Busy, Active, TextSteps
  <2>3. Txts(q, id)' = Txts(q, id)
    BY <1>1, <2>2, OthersView
  <2>4. Owns(q, Txts(q, id))
    BY <2>1, <2>3 DEF Owns
  <2> QED
    BY <2>1, <2>2, <2>3, <2>4 DEF TextsShown, Shown, Translated
<1>2. CASE q = p
  <2>1. /\ \/ j \in DoneWith(p)
           \/ call[p].texts[WorkspaceOrder[j]] = <<>>
           \/ DeleteTexts(p) /\ WorkspaceOrder[j] = Workspace(p)
        /\ ~DefsWriter(p) /\ ~Ending(p) /\ ~Begin(p)
    BY <1>2, DoneNow
  <2>2. call' = call /\ db' = db /\ Source(p)' = Source(p)
    BY <2>1, CallStays, OnlyCommitPublishes DEF TypeInv, Ending, Source
  <2>3. \/ Translated(call[p], id, Txts(p, id)')
        \/ /\ Txts(p, id)' = Txts(p, id)
           /\ DeleteTexts(p) /\ Owns(p, Txts(p, id)) => id[1] # Workspace(p)
    <3>1. CASE TxtsWriter(p)
      BY <1>2, <3>1, WrittenTextsShown DEF Owns
    <3>2. CASE ~TxtsWriter(p)
      BY <2>1, <2>2, <3>2, OtherFrame DEF Txts, Over, TxtsWriter
    <3> QED
      BY <3>1, <3>2
  <2>4. CASE Translated(call[p], id, Txts(p, id)')
    BY <1>2, <2>2, <2>4 DEF Translated
  <2>5. CASE /\ Txts(p, id)' = Txts(p, id)
             /\ DeleteTexts(p) /\ Owns(p, Txts(p, id)) => id[1] # Workspace(p)
    <3>1. Owns(p, Txts(p, id)) /\ call[p].texts[id[1]] # <<>>
      BY <1>2, <2>2, <2>5 DEF Owns
    <3>2. j \in DoneWith(p)
      BY <2>1, <2>5, <3>1
    <3>3. Translated(call[p], id, Txts(p, id))
      BY <3>1, <3>2 DEF TextsShown, Shown
    <3> QED
      BY <1>2, <2>2, <2>5, <3>3 DEF Translated
  <2> QED
    BY <2>3, <2>4, <2>5
<1> QED
  BY <1>1, <1>2

LEMMA ShownStep ==
  ASSUME Separated, ShownInv, NEW p \in Publishers,
         Begin(p) \/ Step(p) \/ Fail(p)
  PROVE  ShownInv'
<1> USE DEF ShownInv
<1>1. Undisturbed
  BY SourcesUndisturbed DEF OwnInv
<1>2. NoWorkspaceYet'
  BY NoWorkspaceStep DEF OwnInv
<1> QED
  BY <1>1, <1>2, OwnStep, OwnPickedStep, DefsShownStep, TextsShownStep

LEMMA InitShown == Init => ShownInv
<1> SUFFICES ASSUME Init PROVE ShownInv
  OBVIOUS
<1>1. OwnPicked /\ DefsShown /\ NoWorkspaceYet
  BY DEF Init, OwnPicked, DefsShown, NoWorkspaceYet, DefinitionSteps, PurgedSteps
<1>2. TextsShown
  BY DEF Init, TextsShown, DoneWith, TextSteps
<1> QED
  BY <1>1, <1>2, InitOwn DEF ShownInv

LEMMA StutterShown == ShownInv /\ UNCHANGED vars => ShownInv'
<1> SUFFICES ASSUME ShownInv, UNCHANGED vars PROVE ShownInv'
  OBVIOUS
<1> USE DEF Owns, Source, Workspace, Defs, Txts, Over, vars
<1>1. OwnInv'
  BY StutterOwn DEF ShownInv
<1>2. OwnPicked' /\ NoWorkspaceYet'
  BY DEF ShownInv, OwnPicked, OwnEnabled, OwnDisabled, OwnTexts, NoWorkspaceYet
<1>3. DefsShown'
  BY DEF ShownInv, DefsShown, Published
<1>4. TextsShown'
  BY DEF ShownInv, TextsShown, DoneWith, Shown, Translated
<1> QED
  BY <1>1, <1>2, <1>3, <1>4 DEF ShownInv

\* What a commit leaves of its source is what its snapshot says.
LEMMA CommitsItsSnapshot ==
  ASSUME ShownInv, NEW p \in Publishers, Commit(p)
  PROVE  /\ \A r \in Resources :
              Owns(p, db'.defs[r]) => Published(call[p], r, db'.defs[r])
         /\ \A id \in TextIds :
              Owns(p, db'.txts[id]) /\ call[p].texts[id[1]] # <<>> =>
                Translated(call[p], id, db'.txts[id])
<1> USE DEF ShownInv, OwnInv, LockInv, TypeInv
<1>1. /\ pc[p] = "synced"
      /\ \A r \in Resources : db'.defs[r] = Defs(p, r)
      /\ \A id \in TextIds : db'.txts[id] = Txts(p, id)
  BY EndFrees DEF Ending
<1>2. ASSUME NEW r \in Resources, Owns(p, db'.defs[r])
      PROVE  Published(call[p], r, db'.defs[r])
  BY <1>1, <1>2 DEF DefsShown, PurgedSteps
<1>3. ASSUME NEW id \in TextIds, Owns(p, db'.txts[id]),
             call[p].texts[id[1]] # <<>>
      PROVE  Translated(call[p], id, db'.txts[id])
  <2>1. id[1] \in Workspaces
    BY DEF TextIds
  <2>2. PICK j \in DOMAIN WorkspaceOrder : id[1] = WorkspaceOrder[j]
    BY <2>1 DEF Workspaces
  <2>3. j \in DoneWith(p)
    BY <1>1 DEF DoneWith
  <2> QED
    BY <1>1, <1>3, <2>2, <2>3 DEF TextsShown, Shown
<1> QED
  BY <1>2, <1>3

\* A committed Sync leaves of its source no definitions but those of its
\* snapshot, at its version, and in the workspaces it names no texts but its
\* texts: nothing of an earlier snapshot, also when its statements waited for
\* locks while other sources committed.
THEOREM CommitsShowTheirSnapshot ==
  ASSUME Separated
  PROVE  Spec => CommitShowsSnapshot
<1>1. ShownInv /\ [Next]_vars => ShownInv'
  BY ShownStep, StutterShown DEF Next
<1>2. ASSUME ShownInv, [Next]_vars, NEW p \in Publishers, Commits(p)
      PROVE  /\ \A r \in Resources :
                  Owns(p, db'.defs[r]) => Published(call[p], r, db'.defs[r])
             /\ \A id \in TextIds :
                  Owns(p, db'.txts[id]) /\ call[p].texts[id[1]] # <<>> =>
                    Translated(call[p], id, db'.txts[id])
  <2> USE DEF ShownInv, OwnInv, LockInv, TypeInv
  <2>1. PICK q \in Publishers : Begin(q) \/ Step(q) \/ Fail(q)
    BY <1>2 DEF Next, vars, Commits
  <2>2. q = p
    BY <1>2, <2>1, OthersKeep DEF Commits
  <2>3. Commit(p)
    BY <1>2, <2>1, <2>2, Moves DEF Commits, Step, PickingSteps
  <2> QED
    BY <1>2, <2>3, CommitsItsSnapshot
<1>3. ShownInv /\ [Next]_vars =>
        [\A p \in Publishers : Commits(p) =>
           /\ \A r \in Resources :
                Owns(p, db'.defs[r]) => Published(call[p], r, db'.defs[r])
           /\ \A id \in TextIds :
                Owns(p, db'.txts[id]) /\ call[p].texts[id[1]] # <<>> =>
                  Translated(call[p], id, db'.txts[id])]_vars
  BY <1>2
<1> QED
  BY <1>1, <1>3, InitShown, PTL DEF Spec, CommitShowsSnapshot

-----------------------------------------------------------------------------
(***************************************************************************)
(* When the catalog agrees with the history.  That a published version is  *)
(* immutable holds as long as the publishers keep a version's content: the *)
(* catalog and the history then only hold what was offered under it.       *)
(***************************************************************************)
Offered(r, v, h) ==
  \E p \in Publishers : \E s \in Offers[p] : \E i \in DOMAIN s.defs :
    s.version = v /\ s.defs[i].res = r /\ s.defs[i].hash = h

OfferedRow(r, cell) ==
  cell \notin {Clean, Absent} => Offered(r, cell.version, cell.hash)

OfferedVersion(v, cell) ==
  cell \notin {Clean, Absent} => Offered(v[1], v[2], cell)

OfferedInv ==
  /\ LockInv /\ CallsOffered
  /\ \A r \in Resources : OfferedRow(r, db.defs[r])
  /\ \A v \in VersionIds : OfferedVersion(v, db.vers[v])
  /\ \A p \in Publishers :
       /\ \A r \in Resources : OfferedRow(r, tx[p].defs[r])
       /\ \A v \in VersionIds : OfferedVersion(v, tx[p].vers[v])

\* No two contents of a definition are offered under one version.
VersionsKeepContent ==
  \A r \in Resources, v \in Versions : \A h, g \in Hashes :
    Offered(r, v, h) /\ Offered(r, v, g) => h = g

LEMMA CurrentOffered ==
  ASSUME OfferedInv, NEW p \in Publishers, pc[p] \in DefinitionSteps
  PROVE  /\ Offered(Res(p), call[p].version, Definition(p).hash)
         /\ OfferedRow(Res(p), PublishedRow(call[p], Definition(p)))
<1>1. call[p] \in Offers[p] /\ at[p] \in DOMAIN call[p].defs
  BY DEF OfferedInv, CallsOffered, LockInv, TypeInv, Position, InPlace,
         DefinitionSteps
<1>2. Offered(Res(p), call[p].version, Definition(p).hash)
  BY <1>1 DEF Offered, Res, Definition
<1> QED
  BY <1>2 DEF OfferedRow, PublishedRow

LEMMA DefsWriteOffered ==
  ASSUME OfferedInv, NEW p \in Publishers, DefsWriter(p), NEW r \in Resources
  PROVE  OfferedRow(r, tx'[p].defs[r])
<1> USE DEF OfferedInv, LockInv, TypeInv
<1>1. CASE Disable(p)
  <2>1. CASE r \in Rows(p)
    <3>1. Defs(p, r) \in DefinitionRow
      BY <1>1, <2>1, RowsTyped DEF Disable
    <3>2. OfferedRow(r, Defs(p, r))
      BY DEF Defs, Over
    <3>3. Defs(p, r) \notin {Clean, Absent}
      BY <3>1, AbsentIsNoRow, CleanIsNoCell
    <3>4. tx'[p].defs[r] = [Defs(p, r) EXCEPT !.disabled = TRUE]
      BY <1>1, <2>1, WrittenDefs
    <3>5. /\ tx'[p].defs[r].version = Defs(p, r).version
          /\ tx'[p].defs[r].hash = Defs(p, r).hash
      BY <3>1, <3>4 DEF DefinitionRow
    <3> QED
      BY <3>2, <3>3, <3>5 DEF OfferedRow
  <2> QED
    BY <1>1, <2>1, WrittenDefs
<1>2. CASE UpdateDefinition(p)
  <2>1. CASE r \in Rows(p)
    <3>1. r = Res(p) /\ pc[p] = "update"
      BY <1>2, <2>1, RowsTyped DEF UpdateDefinition, Picked
    <3>2. tx'[p].defs[r] = PublishedRow(call[p], Definition(p))
      BY <1>2, <2>1, WrittenDefs
    <3> QED
      BY <3>1, <3>2, CurrentOffered DEF DefinitionSteps
  <2> QED
    BY <1>2, <2>1, WrittenDefs
<1>3. CASE InsertDefinition(p)
  <2>1. CASE r = Res(p)
    <3>1. pc[p] = "insert"
      BY <1>3 DEF InsertDefinition
    <3>2. tx'[p].defs[r] = PublishedRow(call[p], Definition(p))
      BY <1>3, <2>1, WrittenDefs
    <3> QED
      BY <2>1, <3>1, <3>2, CurrentOffered DEF DefinitionSteps
  <2> QED
    BY <1>3, <2>1, WrittenDefs
<1>4. CASE Purge(p)
  BY <1>4, WrittenDefs DEF OfferedRow
<1> QED
  BY <1>1, <1>2, <1>3, <1>4 DEF DefsWriter

\* Only RecordVersion writes a version.
LEMMA VersWriteOffered ==
  ASSUME OfferedInv, NEW p \in Publishers, Step(p) \/ Fail(p), ~Ending(p),
         NEW v \in VersionIds
  PROVE  OfferedVersion(v, tx'[p].vers[v])
<1> USE DEF OfferedInv, LockInv, TypeInv
<1>1. CASE RecordVersion(p)
  <2> DEFINE new == [k \in {VersionId(p)} |-> Definition(p).hash]
  <2>1. pc[p] = "record" /\ WriteVers(p, new)
    BY <1>1 DEF RecordVersion
  <2>2. DOMAIN new = {VersionId(p)} /\ new[VersionId(p)] = Definition(p).hash
    OBVIOUS
  <2> HIDE DEF new
  <2>3. tx'[p].vers[v] = IF v = VersionId(p) THEN Definition(p).hash
                         ELSE tx[p].vers[v]
    BY <2>1, <2>2, VersWritten
  <2>4. Offered(Res(p), call[p].version, Definition(p).hash)
    BY <2>1, CurrentOffered DEF DefinitionSteps
  <2> QED
    BY <2>3, <2>4 DEF OfferedVersion, VersionId
<1>2. CASE ~RecordVersion(p)
  <2>1. CASE DeleteProjection(p) \/ InsertProjection(p)
    BY <2>1, ProjWritten DEF DeleteProjection, InsertProjection
  <2>2. CASE ~DeleteProjection(p) /\ ~InsertProjection(p)
    BY <1>2, <2>2, DefsWriterFrame, TxtsWriterFrame, OtherFrame
  <2> QED
    BY <2>1, <2>2
<1> QED
  BY <1>1, <1>2

LEMMA OfferedStep ==
  ASSUME OfferedInv, NEW p \in Publishers, Begin(p) \/ Step(p) \/ Fail(p)
  PROVE  OfferedInv'
<1> USE DEF OfferedInv, LockInv, TypeInv
<1>1. LockInv' /\ CallsOffered'
  BY LockStep, OffersStep
<1>2. /\ \A r \in Resources : OfferedRow(r, db'.defs[r])
      /\ \A v \in VersionIds : OfferedVersion(v, db'.vers[v])
  <2>1. CASE Commit(p)
    BY <2>1, EndFrees DEF Ending, Defs, Vers, Over
  <2>2. CASE ~Commit(p)
    BY <2>2, OnlyCommitPublishes
  <2> QED
    BY <2>1, <2>2
<1>3. ASSUME NEW q \in Publishers
      PROVE  /\ \A r \in Resources : OfferedRow(r, tx'[q].defs[r])
             /\ \A v \in VersionIds : OfferedVersion(v, tx'[q].vers[v])
  <2>1. CASE q # p
    BY <2>1, OthersKeep
  <2>2. CASE q = p /\ (Ending(p) \/ Begin(p))
    <3>1. tx'[p] = CleanOverlay
      BY <2>2, EndFrees DEF Begin, CleanBefore, Writing
    <3> QED
      BY <2>2, <3>1, CleanCells DEF OfferedRow, OfferedVersion
  <2>3. CASE q = p /\ ~Ending(p) /\ ~Begin(p)
    <3>1. ASSUME NEW r \in Resources PROVE OfferedRow(r, tx'[p].defs[r])
      BY <2>3, DefsWriteOffered, TxtsWriterFrame, OtherFrame
    <3>2. \A v \in VersionIds : OfferedVersion(v, tx'[p].vers[v])
      BY <2>3, VersWriteOffered
    <3> QED
      BY <2>3, <3>1, <3>2
  <2> QED
    BY <2>1, <2>2, <2>3
<1>4. /\ \A r \in Resources : OfferedRow(r, db.defs[r])'
      /\ \A v \in VersionIds : OfferedVersion(v, db.vers[v])'
      /\ \A q \in Publishers :
           /\ \A r \in Resources : OfferedRow(r, tx[q].defs[r])'
           /\ \A v \in VersionIds : OfferedVersion(v, tx[q].vers[v])'
  BY <1>2, <1>3 DEF OfferedRow, OfferedVersion, Offered
<1> QED
  BY <1>1, <1>4

LEMMA InitOffered == Init => OfferedInv
<1> SUFFICES ASSUME Init PROVE OfferedInv
  OBVIOUS
<1>1. LockInv /\ CallsOffered
  BY InitLocks DEF Init, CallsOffered
<1>2. /\ \A r \in Resources : OfferedRow(r, db.defs[r])
      /\ \A v \in VersionIds : OfferedVersion(v, db.vers[v])
  BY DEF Init, EmptyDatabase, OfferedRow, OfferedVersion
<1>3. \A p \in Publishers :
        /\ \A r \in Resources : OfferedRow(r, tx[p].defs[r])
        /\ \A v \in VersionIds : OfferedVersion(v, tx[p].vers[v])
  BY CleanCells DEF Init, OfferedRow, OfferedVersion
<1> QED
  BY <1>1, <1>2, <1>3 DEF OfferedInv

LEMMA StutterOffered == OfferedInv /\ UNCHANGED vars => OfferedInv'
<1> SUFFICES ASSUME OfferedInv, UNCHANGED vars PROVE OfferedInv'
  OBVIOUS
<1>1. LockInv'
  BY StutterLocks DEF OfferedInv
<1> QED
  BY <1>1 DEF OfferedInv, OfferedRow, OfferedVersion, CallsOffered, Offered, vars

\* As long as nobody offers two contents of a definition under one version,
\* the content published under a version is the one recorded for it, whoever
\* publishes and whatever races; reusing a version is what breaks the
\* promise of the README, and the only thing that can.
THEOREM AgreesUnlessVersionsReused ==
  ASSUME VersionsKeepContent
  PROVE  Spec => []CatalogAgreesWithHistory
<1>1. OfferedInv /\ [Next]_vars => OfferedInv'
  BY OfferedStep, StutterOffered DEF Next
<1>2. OfferedInv => CatalogAgreesWithHistory
  <2> SUFFICES ASSUME OfferedInv, NEW r \in Resources, db.defs[r] # Absent
               PROVE  db.vers[<<r, db.defs[r].version>>]
                        \in {Absent, db.defs[r].hash}
    BY DEF CatalogAgreesWithHistory
  <2> DEFINE v == <<r, db.defs[r].version>>
  <2>1. db.defs[r] \in DefinitionRow /\ db \in Database
    BY DEF OfferedInv, LockInv, TypeInv, TypeOK, Database
  <2>2. v \in VersionIds /\ db.defs[r].hash \in Hashes
    BY <2>1 DEF DefinitionRow, VersionIds
  <2>3. db.vers[v] \in Hashes \cup {Absent}
    BY <2>1, <2>2 DEF Database
  <2>4. CASE db.vers[v] # Absent
    <3>1. Offered(r, db.defs[r].version, db.vers[v])
      BY <2>2, <2>3, <2>4, HashesAreNoSentinels DEF OfferedInv, OfferedVersion
    <3>2. Offered(r, db.defs[r].version, db.defs[r].hash)
      BY <2>1, CleanIsNoCell DEF OfferedInv, OfferedRow
    <3>3. db.defs[r].version \in Versions
      BY <2>1 DEF DefinitionRow
    <3> QED
      BY <2>2, <2>3, <2>4, <3>1, <3>2, <3>3 DEF VersionsKeepContent
  <2> QED
    BY <2>4
<1> QED
  BY <1>1, <1>2, InitOffered, PTL DEF Spec

=============================================================================
