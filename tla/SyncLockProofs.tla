--------------------------- MODULE SyncLockProofs ---------------------------
(***************************************************************************)
(* Proofs about the row locks of SyncProjection, and what rests on them:   *)
(* no disabled row is committed, and a conflict means other content.  For  *)
(* any number of publishers, resources and snapshots, and both engines.    *)
(***************************************************************************)
EXTENDS SyncProjectionProofs

(***************************************************************************)
(* A row is written by one transaction at a time; the rows a transaction   *)
(* inserted are among those it wrote; a publisher that has not reached its *)
(* first statement wrote nothing; and only an UPDATE or DELETE waits with  *)
(* rows picked.                                                            *)
(***************************************************************************)
RowLocks ==
  \A p, q \in Publishers : p # q =>
    /\ \A r \in Resources : tx[p].defs[r] = Clean \/ tx[q].defs[r] = Clean
    /\ \A i \in TextIds : tx[p].txts[i] = Clean \/ tx[q].txts[i] = Clean

BornWritten ==
  \A p \in Publishers :
    /\ \A r \in Resources : <<"defs", r>> \in born[p] => tx[p].defs[r] # Clean
    /\ \A i \in TextIds : <<"txts", i>> \in born[p] => tx[p].txts[i] # Clean

CleanBefore ==
  \A p \in Publishers : ~Writing(p) => tx[p] = CleanOverlay /\ born[p] = {}

PickingSteps ==
  {"disable", "update", "purge", "textdelete", "textupdate", "projdelete"}

OnlyPickersWait ==
  \A p \in Publishers : target[p] # NoStatement => pc[p] \in PickingSteps

LockInv == TypeInv /\ RowLocks /\ BornWritten /\ CleanBefore /\ OnlyPickersWait

(***************************************************************************)
(* The rows a transaction disabled are its source's, so its purge, also    *)
(* one that had to wait, picks all of them.                                *)
(***************************************************************************)
IsDisabled(cell) == cell \notin {Clean, Absent} /\ cell.disabled

DisabledAreOwn ==
  \A p \in Publishers : \A r \in Resources :
    IsDisabled(tx[p].defs[r]) => tx[p].defs[r].source = Source(p)

PurgePicked ==
  \A p \in Publishers : pc[p] = "purge" /\ target[p] # NoStatement =>
    \A r \in Resources : IsDisabled(tx[p].defs[r]) => r \in target[p]

PurgedSteps ==
  {"texts", "textdelete", "textlookup", "textupdate", "textinsert",
   "projdelete", "projinsert", "synced"}

Purged ==
  \A p \in Publishers : pc[p] \in PurgedSteps =>
    \A r \in Resources : ~IsDisabled(tx[p].defs[r])

DisabledInv ==
  LockInv /\ DisabledAreOwn /\ PurgePicked /\ Purged /\ NoDisabledRows

\* What another transaction recorded under the version's id is still there.
LostRace ==
  \A p \in Publishers : pc[p] = "recheck" => ~IdFree(p)

-----------------------------------------------------------------------------
(***************************************************************************)
(* What a step writes.                                                     *)
(***************************************************************************)
LEMMA DefsWritten ==
  ASSUME TypeOK, NEW p \in Publishers, NEW new, WriteDefs(p, new)
  PROVE  /\ \A q \in Publishers \ {p} : tx'[q] = tx[q]
         /\ tx'[p].vers = tx[p].vers
         /\ tx'[p].txts = tx[p].txts
         /\ tx'[p].proj = tx[p].proj
         /\ \A r \in Resources :
              tx'[p].defs[r] = IF r \in DOMAIN new THEN new[r] ELSE tx[p].defs[r]
<1>1. tx \in [Publishers -> Overlay] /\ tx[p] \in Overlay
  BY DEF TypeOK
<1>2. tx' = [tx EXCEPT ![p] = [tx[p] EXCEPT !.defs = Put(tx[p].defs, new)]]
  BY <1>1 DEF WriteDefs
<1>3. tx'[p] = [tx[p] EXCEPT !.defs = Put(tx[p].defs, new)]
  BY <1>1, <1>2
<1>4. DOMAIN tx[p].defs = Resources
  BY <1>1 DEF Overlay
<1>5. tx'[p].defs = Put(tx[p].defs, new)
  BY <1>1, <1>3 DEF Overlay
<1> QED
  BY <1>1, <1>2, <1>3, <1>4, <1>5 DEF Put, Overlay

LEMMA VersWritten ==
  ASSUME TypeOK, NEW p \in Publishers, NEW new, WriteVers(p, new)
  PROVE  /\ \A q \in Publishers \ {p} : tx'[q] = tx[q]
         /\ tx'[p].defs = tx[p].defs
         /\ tx'[p].txts = tx[p].txts
         /\ tx'[p].proj = tx[p].proj
         /\ \A v \in VersionIds :
              tx'[p].vers[v] = IF v \in DOMAIN new THEN new[v] ELSE tx[p].vers[v]
<1>1. tx \in [Publishers -> Overlay] /\ tx[p] \in Overlay
  BY DEF TypeOK
<1>2. tx' = [tx EXCEPT ![p] = [tx[p] EXCEPT !.vers = Put(tx[p].vers, new)]]
  BY <1>1 DEF WriteVers
<1>3. tx'[p] = [tx[p] EXCEPT !.vers = Put(tx[p].vers, new)]
  BY <1>1, <1>2
<1>4. DOMAIN tx[p].vers = VersionIds
  BY <1>1 DEF Overlay
<1>5. tx'[p].vers = Put(tx[p].vers, new)
  BY <1>1, <1>3 DEF Overlay
<1> QED
  BY <1>1, <1>2, <1>3, <1>4, <1>5 DEF Put, Overlay

LEMMA TxtsWritten ==
  ASSUME TypeOK, NEW p \in Publishers, NEW new, WriteTxts(p, new)
  PROVE  /\ \A q \in Publishers \ {p} : tx'[q] = tx[q]
         /\ tx'[p].defs = tx[p].defs
         /\ tx'[p].vers = tx[p].vers
         /\ tx'[p].proj = tx[p].proj
         /\ \A i \in TextIds :
              tx'[p].txts[i] = IF i \in DOMAIN new THEN new[i] ELSE tx[p].txts[i]
<1>1. tx \in [Publishers -> Overlay] /\ tx[p] \in Overlay
  BY DEF TypeOK
<1>2. tx' = [tx EXCEPT ![p] = [tx[p] EXCEPT !.txts = Put(tx[p].txts, new)]]
  BY <1>1 DEF WriteTxts
<1>3. tx'[p] = [tx[p] EXCEPT !.txts = Put(tx[p].txts, new)]
  BY <1>1, <1>2
<1>4. DOMAIN tx[p].txts = TextIds
  BY <1>1 DEF Overlay
<1>5. tx'[p].txts = Put(tx[p].txts, new)
  BY <1>1, <1>3 DEF Overlay
<1> QED
  BY <1>1, <1>2, <1>3, <1>4, <1>5 DEF Put, Overlay

LEMMA ProjWritten ==
  ASSUME TypeOK, NEW p \in Publishers, NEW new, WriteProj(p, new)
  PROVE  /\ \A q \in Publishers \ {p} : tx'[q] = tx[q]
         /\ tx'[p].defs = tx[p].defs
         /\ tx'[p].vers = tx[p].vers
         /\ tx'[p].txts = tx[p].txts
         /\ tx'[p].proj[Current] =
              IF Current \in DOMAIN new THEN new[Current] ELSE tx[p].proj[Current]
<1>1. tx \in [Publishers -> Overlay] /\ tx[p] \in Overlay
  BY DEF TypeOK
<1>2. tx' = [tx EXCEPT ![p] = [tx[p] EXCEPT !.proj = Put(tx[p].proj, new)]]
  BY <1>1 DEF WriteProj
<1>3. tx'[p] = [tx[p] EXCEPT !.proj = Put(tx[p].proj, new)]
  BY <1>1, <1>2
<1>4. DOMAIN tx[p].proj = {Current}
  BY <1>1 DEF Overlay
<1>5. tx'[p].proj = Put(tx[p].proj, new)
  BY <1>1, <1>3 DEF Overlay
<1> QED
  BY <1>1, <1>2, <1>3, <1>4, <1>5 DEF Put, Overlay

\* The rows a statement writes are among those it must lock.
LEMMA RowsAreNeeded ==
  ASSUME NEW p
  PROVE  Rows(p) \subseteq Needs(p) /\ Added(p) \subseteq Needs(p)
BY DEF Rows, Needs

LEMMA LockedByNobody ==
  ASSUME NEW p \in Publishers, Unlocked(p), NEW k \in Needs(p),
         NEW q \in Publishers \ {p}
  PROVE  /\ Table(p) = "defs" => tx[q].defs[k] = Clean
         /\ Table(p) = "txts" => tx[q].txts[k] = Clean
         /\ Table(p) = "vers" => tx[q].vers[k] = Clean
         /\ Table(p) = "proj" => tx[q].proj[k] = Clean
BY DEF Unlocked, Waits, Locked

LEMMA RowsAreNotClean == 
  /\ \A row \in DefinitionRow \cup {Absent} : row # Clean
  /\ \A row \in TextRow \cup {Absent} : row # Clean
BY CleanIsNoCell

(***************************************************************************)
(* The statements that write a definition or a text lock what they write.  *)
(***************************************************************************)
DefsWriter(p) == Disable(p) \/ UpdateDefinition(p) \/ InsertDefinition(p) \/ Purge(p)
TxtsWriter(p) == DeleteTexts(p) \/ UpdateText(p) \/ InsertText(p)
Ending(p)     == Commit(p) \/ Rollback(p)

LEMMA DefsWriterFrame ==
  ASSUME TypeInv, NEW p \in Publishers, DefsWriter(p)
  PROVE  /\ db' = db
         /\ \A q \in Publishers \ {p} : tx'[q] = tx[q] /\ born'[q] = born[q]
         /\ tx'[p].vers = tx[p].vers
         /\ tx'[p].txts = tx[p].txts
         /\ tx'[p].proj = tx[p].proj
         /\ \A r \in Resources :
              \/ tx'[p].defs[r] = tx[p].defs[r]
              \/ /\ tx'[p].defs[r] # Clean
                 /\ \A q \in Publishers \ {p} : tx[q].defs[r] = Clean
         /\ \/ born' = born
            \/ \E r \in Resources : /\ tx'[p].defs[r] # Clean
                                    /\ born'[p] = born[p] \cup {<<"defs", r>>}
<1>0. TypeOK
  BY DEF TypeInv
<1>1. Table(p) = "defs" /\ Unlocked(p) /\ db' = db
  BY DEF DefsWriter, Table, Disable, UpdateDefinition, InsertDefinition, Purge
<1>2. ASSUME NEW new, WriteDefs(p, new), DOMAIN new \subseteq Needs(p),
             \A r \in DOMAIN new : new[r] \in DefinitionRow \cup {Absent}
      PROVE  /\ \A q \in Publishers \ {p} : tx'[q] = tx[q]
             /\ tx'[p].vers = tx[p].vers
             /\ tx'[p].txts = tx[p].txts
             /\ tx'[p].proj = tx[p].proj
             /\ \A r \in Resources :
                  \/ tx'[p].defs[r] = tx[p].defs[r]
                  \/ /\ tx'[p].defs[r] # Clean
                     /\ \A q \in Publishers \ {p} : tx[q].defs[r] = Clean
             /\ \A r \in Resources \cap DOMAIN new : tx'[p].defs[r] # Clean
  <2>1. ASSUME NEW r \in Resources, r \in DOMAIN new
        PROVE  /\ tx'[p].defs[r] # Clean
               /\ \A q \in Publishers \ {p} : tx[q].defs[r] = Clean
    BY <1>0, <1>1, <1>2, <2>1, DefsWritten, LockedByNobody, RowsAreNotClean
  <2> QED
    BY <1>0, <1>2, <2>1, DefsWritten
<1>3. CASE Disable(p)
  <2> DEFINE new == [r \in Rows(p) |-> [Defs(p, r) EXCEPT !.disabled = TRUE]]
  <2>1. ASSUME NEW r \in DOMAIN new PROVE new[r] \in DefinitionRow
    BY <1>3, RowsTyped DEF Disable, DefinitionRow
  <2>2. WriteDefs(p, new) /\ born' = born /\ DOMAIN new \subseteq Needs(p)
    BY <1>3, RowsAreNeeded DEF Disable
  <2> HIDE DEF new
  <2> QED
    BY <1>1, <1>2, <2>1, <2>2
<1>4. CASE UpdateDefinition(p)
  <2> DEFINE new == [r \in Rows(p) |-> PublishedRow(call[p], Definition(p))]
  <2>1. ASSUME NEW r \in DOMAIN new PROVE new[r] \in DefinitionRow
    BY <1>4, CurrentDefinition DEF UpdateDefinition, DefinitionSteps
  <2>2. WriteDefs(p, new) /\ born' = born /\ DOMAIN new \subseteq Needs(p)
    BY <1>4, RowsAreNeeded DEF UpdateDefinition
  <2> HIDE DEF new
  <2> QED
    BY <1>1, <1>2, <2>1, <2>2
<1>5. CASE InsertDefinition(p)
  <2> DEFINE new == [r \in {Res(p)} |-> PublishedRow(call[p], Definition(p))]
  <2>1. pc[p] = "insert" /\ Res(p) \in Resources
    BY <1>5, CurrentDefinition DEF InsertDefinition, DefinitionSteps
  <2>2. ASSUME NEW r \in DOMAIN new PROVE new[r] \in DefinitionRow
    BY <2>1, CurrentDefinition DEF DefinitionSteps
  <2>3. WriteDefs(p, new) /\ DOMAIN new \subseteq Needs(p) /\ DOMAIN new = {Res(p)}
    BY <1>5, <2>1, RowsAreNeeded DEF InsertDefinition, Added
  <2>4. /\ born'[p] = born[p] \cup {<<"defs", Res(p)>>}
        /\ \A q \in Publishers \ {p} : born'[q] = born[q]
    BY <1>0, <1>1, <1>5 DEF InsertDefinition, Bear, TypeOK
  <2> HIDE DEF new
  <2> QED
    BY <1>1, <1>2, <2>1, <2>2, <2>3, <2>4
<1>6. CASE Purge(p)
  <2> DEFINE new == [r \in Rows(p) |-> Absent]
  <2>1. WriteDefs(p, new) /\ born' = born /\ DOMAIN new \subseteq Needs(p)
    BY <1>6, RowsAreNeeded DEF Purge
  <2>2. \A r \in DOMAIN new : new[r] = Absent
    OBVIOUS
  <2> HIDE DEF new
  <2> QED
    BY <1>1, <1>2, <2>1, <2>2
<1> QED
  BY <1>3, <1>4, <1>5, <1>6 DEF DefsWriter

LEMMA TxtsWriterFrame ==
  ASSUME TypeInv, NEW p \in Publishers, TxtsWriter(p)
  PROVE  /\ db' = db
         /\ \A q \in Publishers \ {p} : tx'[q] = tx[q] /\ born'[q] = born[q]
         /\ tx'[p].defs = tx[p].defs
         /\ tx'[p].vers = tx[p].vers
         /\ tx'[p].proj = tx[p].proj
         /\ \A i \in TextIds :
              \/ tx'[p].txts[i] = tx[p].txts[i]
              \/ /\ tx'[p].txts[i] # Clean
                 /\ \A q \in Publishers \ {p} : tx[q].txts[i] = Clean
         /\ \/ born' = born
            \/ \E i \in TextIds : /\ tx'[p].txts[i] # Clean
                                  /\ born'[p] = born[p] \cup {<<"txts", i>>}
<1>0. TypeOK
  BY DEF TypeInv
<1>1. Table(p) = "txts" /\ Unlocked(p) /\ db' = db
  BY DEF TxtsWriter, Table, DeleteTexts, UpdateText, InsertText
<1>2. ASSUME NEW new, WriteTxts(p, new), DOMAIN new \subseteq Needs(p),
             \A i \in DOMAIN new : new[i] \in TextRow \cup {Absent}
      PROVE  /\ \A q \in Publishers \ {p} : tx'[q] = tx[q]
             /\ tx'[p].defs = tx[p].defs
             /\ tx'[p].vers = tx[p].vers
             /\ tx'[p].proj = tx[p].proj
             /\ \A i \in TextIds :
                  \/ tx'[p].txts[i] = tx[p].txts[i]
                  \/ /\ tx'[p].txts[i] # Clean
                     /\ \A q \in Publishers \ {p} : tx[q].txts[i] = Clean
             /\ \A i \in TextIds \cap DOMAIN new : tx'[p].txts[i] # Clean
  <2>1. ASSUME NEW i \in TextIds, i \in DOMAIN new
        PROVE  /\ tx'[p].txts[i] # Clean
               /\ \A q \in Publishers \ {p} : tx[q].txts[i] = Clean
    BY <1>0, <1>1, <1>2, <2>1, TxtsWritten, LockedByNobody, RowsAreNotClean
  <2> QED
    BY <1>0, <1>2, <2>1, TxtsWritten
<1>3. CASE DeleteTexts(p)
  <2> DEFINE new == [i \in Rows(p) |-> Absent]
  <2>1. WriteTxts(p, new) /\ born' = born /\ DOMAIN new \subseteq Needs(p)
    BY <1>3, RowsAreNeeded DEF DeleteTexts
  <2>2. \A i \in DOMAIN new : new[i] = Absent
    OBVIOUS
  <2> HIDE DEF new
  <2> QED
    BY <1>1, <1>2, <2>1, <2>2
<1>4. CASE UpdateText(p)
  <2> DEFINE new == [i \in Rows(p) |-> NewText(p)]
  <2>1. ASSUME NEW i \in DOMAIN new PROVE new[i] \in TextRow
    BY <1>4, CurrentText DEF UpdateText, TextSteps
  <2>2. WriteTxts(p, new) /\ born' = born /\ DOMAIN new \subseteq Needs(p)
    BY <1>4, RowsAreNeeded DEF UpdateText
  <2> HIDE DEF new
  <2> QED
    BY <1>1, <1>2, <2>1, <2>2
<1>5. CASE InsertText(p)
  <2> DEFINE new == [i \in {TextId(p)} |-> NewText(p)]
  <2>1. pc[p] = "textinsert" /\ TextId(p) \in TextIds /\ NewText(p) \in TextRow
    BY <1>5, CurrentText DEF InsertText, TextSteps
  <2>2. ASSUME NEW i \in DOMAIN new PROVE new[i] \in TextRow
    BY <2>1
  <2>3. WriteTxts(p, new) /\ DOMAIN new \subseteq Needs(p) /\ DOMAIN new = {TextId(p)}
    BY <1>5, <2>1, RowsAreNeeded DEF InsertText, Added
  <2>4. /\ born'[p] = born[p] \cup {<<"txts", TextId(p)>>}
        /\ \A q \in Publishers \ {p} : born'[q] = born[q]
    BY <1>0, <1>1, <1>5 DEF InsertText, Bear, TypeOK
  <2> HIDE DEF new
  <2> QED
    BY <1>1, <1>2, <2>1, <2>2, <2>3, <2>4
<1> QED
  BY <1>3, <1>4, <1>5 DEF TxtsWriter

\* The other steps write neither definitions nor texts.
LEMMA OtherFrame ==
  ASSUME TypeInv, NEW p \in Publishers, Begin(p) \/ Step(p) \/ Fail(p),
         ~DefsWriter(p), ~TxtsWriter(p), ~Ending(p)
  PROVE  /\ db' = db
         /\ \A q \in Publishers \ {p} : tx'[q] = tx[q] /\ born'[q] = born[q]
         /\ tx'[p].defs = tx[p].defs
         /\ tx'[p].txts = tx[p].txts
         /\ \/ tx' = tx /\ born' = born
            \/ RecordVersion(p)
            \/ DeleteProjection(p) \/ InsertProjection(p)
         /\ \A k : \/ <<"defs", k>> \in born'[p] => <<"defs", k>> \in born[p]
         /\ \A k : \/ <<"txts", k>> \in born'[p] => <<"txts", k>> \in born[p]
<1>0. TypeOK
  BY DEF TypeInv
<1>1. CASE RecordVersion(p)
  <2>1. /\ db' = db /\ Table(p) = "vers" /\ Bear(p, VersionId(p))
        /\ WriteVers(p, [v \in {VersionId(p)} |-> Definition(p).hash])
    BY <1>1 DEF RecordVersion, Table
  <2>2. /\ born'[p] = born[p] \cup {<<"vers", VersionId(p)>>}
        /\ \A q \in Publishers \ {p} : born'[q] = born[q]
    BY <1>0, <2>1 DEF Bear, TypeOK
  <2> QED
    BY <1>0, <1>1, <2>1, <2>2, VersWritten
<1>2. CASE DeleteProjection(p) \/ InsertProjection(p)
  <2>1. /\ db' = db /\ Table(p) = "proj"
        /\ born' = born \/ Bear(p, Current)
        /\ \/ WriteProj(p, [c \in Rows(p) |-> Absent])
           \/ WriteProj(p, [c \in {Current} |->
                              [version |-> call[p].version, source |-> Source(p)]])
    BY <1>2 DEF DeleteProjection, InsertProjection, Table
  <2>2. /\ born'[p] \subseteq born[p] \cup {<<"proj", Current>>}
        /\ \A q \in Publishers \ {p} : born'[q] = born[q]
    BY <1>0, <2>1 DEF Bear, TypeOK
  <2> QED
    BY <1>0, <1>2, <2>1, <2>2, ProjWritten
<1>3. CASE ~RecordVersion(p) /\ ~DeleteProjection(p) /\ ~InsertProjection(p)
  <2>1. db' = db /\ tx' = tx /\ born' = born
    BY <1>3
       DEF DefsWriter, TxtsWriter, Ending, Begin, Fail, Step, Wait,
           RejectDefinition, SkipForeign, RejectVersion, GetDefinition, ReadHistory,
           VersionNotInserted, RecheckHistory, CheckTexts, SkipForeignText,
           LookUpText, UniqueViolation
  <2> QED
    BY <2>1
<1> QED
  BY <1>1, <1>2, <1>3

-----------------------------------------------------------------------------
(***************************************************************************)
(* Who moves, and who waits.                                               *)
(***************************************************************************)
LEMMA NextSteps ==
  ASSUME TypeOK, NEW p \in Publishers
  PROVE  /\ NextDefinition(p) => pc'[p] \in {"get", "purge"}
         /\ NextWorkspace(p) => pc'[p] \in {"textdelete", "projdelete"}
         /\ NextText(p) => pc'[p] \in {"textlookup", "textdelete", "projdelete"}
<1>1. NextDefinition(p) => pc'[p] \in {"get", "purge"}
  BY DEF TypeOK, NextDefinition, Goto
<1>2. NextWorkspace(p) => pc'[p] \in {"textdelete", "projdelete"}
  BY DEF TypeOK, NextWorkspace, Goto
<1> QED
  BY <1>1, <1>2 DEF TypeOK, NextText, Goto

\* From which statement to which each step leads.
LEMMA Moves ==
  ASSUME TypeOK, NEW p \in Publishers
  PROVE  /\ Begin(p) => pc[p] = "idle" /\ pc'[p] \in {"disable", "refused"}
         /\ Wait(p) => pc[p] \in PickingSteps /\ pc'[p] = pc[p]
         /\ Disable(p) => pc[p] = "disable" /\ pc'[p] \in {"get", "purge"}
         /\ RejectDefinition(p) => pc[p] = "get" /\ pc'[p] = "failed"
         /\ SkipForeign(p) => pc[p] = "get" /\ pc'[p] \in {"get", "purge"}
         /\ RejectVersion(p) => pc[p] = "get" /\ pc'[p] = "conflict"
         /\ GetDefinition(p) => pc[p] = "get" /\ pc'[p] \in {"hashes", "update"}
         /\ ReadHistory(p) =>
              pc[p] = "hashes" /\ pc'[p] \in {"record", "conflict", "update", "insert"}
         /\ RecordVersion(p) => pc[p] = "record" /\ pc'[p] \in {"update", "insert"}
         /\ VersionNotInserted(p) => pc[p] = "record" /\ pc'[p] = "recheck"
         /\ RecheckHistory(p) =>
              pc[p] = "recheck" /\ pc'[p] \in {"conflict", "update", "insert"}
         /\ UpdateDefinition(p) => pc[p] = "update" /\ pc'[p] \in {"get", "purge"}
         /\ InsertDefinition(p) => pc[p] = "insert" /\ pc'[p] \in {"get", "purge"}
         /\ Purge(p) => pc[p] = "purge" /\ pc'[p] = "texts"
         /\ CheckTexts(p) =>
              pc[p] = "texts" /\ pc'[p] \in {"textdelete", "projdelete", "failed"}
         /\ DeleteTexts(p) => pc[p] = "textdelete" /\ pc'[p] = "textlookup"
         /\ SkipForeignText(p) =>
              pc[p] = "textlookup" /\ pc'[p] \in {"textlookup", "textdelete", "projdelete"}
         /\ LookUpText(p) =>
              pc[p] = "textlookup" /\ pc'[p] \in {"textinsert", "textupdate"}
         /\ UpdateText(p) =>
              pc[p] = "textupdate" /\ pc'[p] \in {"textlookup", "textdelete", "projdelete"}
         /\ InsertText(p) =>
              pc[p] = "textinsert" /\ pc'[p] \in {"textlookup", "textdelete", "projdelete"}
         /\ DeleteProjection(p) => pc[p] = "projdelete" /\ pc'[p] = "projinsert"
         /\ InsertProjection(p) => pc[p] = "projinsert" /\ pc'[p] = "synced"
         /\ UniqueViolation(p) =>
              pc[p] \in {"insert", "textinsert", "projinsert"} /\ pc'[p] = "failed"
         /\ Commit(p) => pc[p] = "synced" /\ pc'[p] = "idle"
         /\ Rollback(p) =>
              pc[p] \in {"refused", "conflict", "failed"} /\ pc'[p] = "idle"
         /\ Fail(p) => pc[p] \notin {"idle", "refused", "conflict", "failed"}
                        /\ pc'[p] = "failed"
<1> USE DEF TypeOK, Goto
<1>1. Wait(p) => pc[p] \in PickingSteps /\ pc'[p] = pc[p]
  BY DEF Wait, Picked, PickingSteps
<1>2. /\ SkipForeign(p) => pc[p] = "get" /\ pc'[p] \in {"get", "purge"}
      /\ UpdateDefinition(p) => pc[p] = "update" /\ pc'[p] \in {"get", "purge"}
      /\ InsertDefinition(p) => pc[p] = "insert" /\ pc'[p] \in {"get", "purge"}
  BY NextSteps DEF SkipForeign, UpdateDefinition, InsertDefinition
<1>3. /\ SkipForeignText(p) =>
           pc[p] = "textlookup" /\ pc'[p] \in {"textlookup", "textdelete", "projdelete"}
      /\ UpdateText(p) =>
           pc[p] = "textupdate" /\ pc'[p] \in {"textlookup", "textdelete", "projdelete"}
      /\ InsertText(p) =>
           pc[p] = "textinsert" /\ pc'[p] \in {"textlookup", "textdelete", "projdelete"}
      /\ CheckTexts(p) =>
           pc[p] = "texts" /\ pc'[p] \in {"textdelete", "projdelete", "failed"}
  BY NextSteps DEF SkipForeignText, UpdateText, InsertText, CheckTexts
<1>4. /\ Begin(p) => pc[p] = "idle" /\ pc'[p] \in {"disable", "refused"}
      /\ Disable(p) => pc[p] = "disable" /\ pc'[p] \in {"get", "purge"}
      /\ RejectDefinition(p) => pc[p] = "get" /\ pc'[p] = "failed"
      /\ RejectVersion(p) => pc[p] = "get" /\ pc'[p] = "conflict"
      /\ GetDefinition(p) => pc[p] = "get" /\ pc'[p] \in {"hashes", "update"}
  BY DEF Begin, Disable, RejectDefinition, RejectVersion, GetDefinition
<1>5. /\ ReadHistory(p) =>
           pc[p] = "hashes" /\ pc'[p] \in {"record", "conflict", "update", "insert"}
      /\ RecordVersion(p) => pc[p] = "record" /\ pc'[p] \in {"update", "insert"}
      /\ VersionNotInserted(p) => pc[p] = "record" /\ pc'[p] = "recheck"
      /\ RecheckHistory(p) =>
           pc[p] = "recheck" /\ pc'[p] \in {"conflict", "update", "insert"}
  BY DEF ReadHistory, RecordVersion, VersionNotInserted, RecheckHistory, CheckHistory
<1>6. /\ Purge(p) => pc[p] = "purge" /\ pc'[p] = "texts"
      /\ DeleteTexts(p) => pc[p] = "textdelete" /\ pc'[p] = "textlookup"
      /\ LookUpText(p) =>
           pc[p] = "textlookup" /\ pc'[p] \in {"textinsert", "textupdate"}
      /\ DeleteProjection(p) => pc[p] = "projdelete" /\ pc'[p] = "projinsert"
      /\ InsertProjection(p) => pc[p] = "projinsert" /\ pc'[p] = "synced"
  BY DEF Purge, DeleteTexts, LookUpText, DeleteProjection, InsertProjection
<1>7. /\ UniqueViolation(p) =>
           pc[p] \in {"insert", "textinsert", "projinsert"} /\ pc'[p] = "failed"
      /\ Commit(p) => pc[p] = "synced" /\ pc'[p] = "idle"
      /\ Rollback(p) =>
           pc[p] \in {"refused", "conflict", "failed"} /\ pc'[p] = "idle"
      /\ Fail(p) => pc[p] \notin {"idle", "refused", "conflict", "failed"}
                     /\ pc'[p] = "failed"
  BY DEF UniqueViolation, Commit, Rollback, End, Fail
<1> QED
  BY <1>1, <1>2, <1>3, <1>4, <1>5, <1>6, <1>7

LEMMA WritersMove ==
  ASSUME TypeInv, NEW p \in Publishers, Begin(p) \/ Step(p) \/ Fail(p),
         ~Writing(p)'
  PROVE  Begin(p) \/ Wait(p) \/ Ending(p)
BY Moves DEF TypeInv, Writing, Step, Ending

LEMMA WaitersMove ==
  ASSUME TypeInv, OnlyPickersWait, NEW p \in Publishers,
         Begin(p) \/ Step(p) \/ Fail(p)
  PROVE  /\ target'[p] # NoStatement => Wait(p)
         /\ ~Commit(p) => \A q \in Publishers \ {p} : target'[q] = target[q]
         /\ Commit(p) => \A q \in Publishers :
              \/ target[q] = NoStatement /\ target'[q] = NoStatement
              \/ /\ target[q] # NoStatement
                 /\ target'[q] = {k \in target[q] : <<Table(q), k>> \notin born[p]}
<1> USE DEF TypeInv, TypeOK, OnlyPickersWait, PickingSteps
<1>1. CASE Wait(p)
  BY <1>1 DEF Wait, Commit
<1>2. CASE \/ Disable(p) \/ UpdateDefinition(p) \/ Purge(p) \/ DeleteTexts(p)
           \/ UpdateText(p) \/ DeleteProjection(p) \/ Fail(p)
  <2>1. target' = [target EXCEPT ![p] = NoStatement] /\ ~Commit(p)
    BY <1>2 DEF Disable, UpdateDefinition, Purge, DeleteTexts, UpdateText,
                DeleteProjection, Fail, Done, Commit, End, Goto
  <2> QED
    BY <2>1
<1>3. CASE \/ Begin(p) \/ RejectDefinition(p) \/ SkipForeign(p) \/ RejectVersion(p)
           \/ GetDefinition(p) \/ ReadHistory(p) \/ RecordVersion(p)
           \/ VersionNotInserted(p) \/ RecheckHistory(p) \/ InsertDefinition(p)
  <2>1. target' = target /\ ~Commit(p) /\ target[p] = NoStatement
    BY <1>3 DEF Begin, RejectDefinition, SkipForeign, RejectVersion, GetDefinition,
                ReadHistory, RecordVersion, VersionNotInserted, RecheckHistory,
                InsertDefinition, Commit
  <2> QED
    BY <2>1
<1>4. CASE \/ CheckTexts(p) \/ SkipForeignText(p) \/ LookUpText(p) \/ InsertText(p)
           \/ InsertProjection(p) \/ UniqueViolation(p) \/ Rollback(p)
  <2>1. target' = target /\ ~Commit(p) /\ target[p] = NoStatement
    BY <1>4 DEF CheckTexts, SkipForeignText, LookUpText, InsertText,
                InsertProjection, UniqueViolation, Rollback, Commit
  <2> QED
    BY <2>1
<1>5. CASE Commit(p)
  <2>1. target[p] = NoStatement
    BY <1>5 DEF Commit
  <2> QED
    BY <1>5, <2>1 DEF Commit, Wait
<1> QED
  BY <1>1, <1>2, <1>3, <1>4, <1>5 DEF Step

LEMMA EndFrees ==
  ASSUME TypeOK, NEW p \in Publishers, Ending(p)
  PROVE  /\ tx'[p] = CleanOverlay /\ born'[p] = {} /\ pc'[p] = "idle"
         /\ \A q \in Publishers \ {p} : tx'[q] = tx[q] /\ born'[q] = born[q]
         /\ Rollback(p) => db' = db
         /\ Commit(p) => /\ \A r \in Resources : db'.defs[r] = Defs(p, r)
                         /\ \A v \in VersionIds : db'.vers[v] = Vers(p, v)
                         /\ \A i \in TextIds : db'.txts[i] = Txts(p, i)
                         /\ pc[p] = "synced"
BY DEF TypeOK, Ending, Commit, Rollback, End, Committed

(***************************************************************************)
(* The row locks are an invariant.                                         *)
(***************************************************************************)
LEMMA CleanCells ==
  /\ \A r \in Resources : CleanOverlay.defs[r] = Clean
  /\ \A v \in VersionIds : CleanOverlay.vers[v] = Clean
  /\ \A i \in TextIds : CleanOverlay.txts[i] = Clean
BY DEF CleanOverlay

LEMMA LocksStep ==
  ASSUME LockInv, NEW p \in Publishers, Begin(p) \/ Step(p) \/ Fail(p)
  PROVE  RowLocks' /\ BornWritten'
<1> USE DEF LockInv
<1>1. CASE DefsWriter(p)
  <2>1. RowLocks'
    BY <1>1, DefsWriterFrame DEF RowLocks
  <2>2. ASSUME NEW q \in Publishers
        PROVE  /\ \A r \in Resources : <<"defs", r>> \in born'[q] => tx'[q].defs[r] # Clean
               /\ \A i \in TextIds : <<"txts", i>> \in born'[q] => tx'[q].txts[i] # Clean
    BY <1>1, DefsWriterFrame DEF BornWritten
  <2> QED
    BY <2>1, <2>2 DEF BornWritten
<1>2. CASE TxtsWriter(p)
  <2>1. RowLocks'
    BY <1>2, TxtsWriterFrame DEF RowLocks
  <2>2. ASSUME NEW q \in Publishers
        PROVE  /\ \A r \in Resources : <<"defs", r>> \in born'[q] => tx'[q].defs[r] # Clean
               /\ \A i \in TextIds : <<"txts", i>> \in born'[q] => tx'[q].txts[i] # Clean
    BY <1>2, TxtsWriterFrame DEF BornWritten
  <2> QED
    BY <2>1, <2>2 DEF BornWritten
<1>3. CASE Ending(p)
  BY <1>3, EndFrees, CleanCells DEF TypeInv, RowLocks, BornWritten
<1>4. CASE ~DefsWriter(p) /\ ~TxtsWriter(p) /\ ~Ending(p)
  <2>1. /\ \A q \in Publishers \ {p} : tx'[q] = tx[q] /\ born'[q] = born[q]
        /\ tx'[p].defs = tx[p].defs
        /\ tx'[p].txts = tx[p].txts
        /\ \A k : <<"defs", k>> \in born'[p] => <<"defs", k>> \in born[p]
        /\ \A k : <<"txts", k>> \in born'[p] => <<"txts", k>> \in born[p]
    BY <1>4, OtherFrame
  <2> QED
    BY <2>1 DEF RowLocks, BornWritten
<1> QED
  BY <1>1, <1>2, <1>3, <1>4

LEMMA CleanStep ==
  ASSUME LockInv, NEW p \in Publishers, Begin(p) \/ Step(p) \/ Fail(p)
  PROVE  CleanBefore'
<1> USE DEF LockInv
<1> SUFFICES ASSUME NEW q \in Publishers, ~Writing(q)'
             PROVE  tx'[q] = CleanOverlay /\ born'[q] = {}
  BY DEF CleanBefore
<1>1. CASE q = p
  <2>1. CASE Begin(p) \/ Wait(p)
    <3>1. tx' = tx /\ born' = born /\ ~Writing(p)
      BY <1>1, <2>1 DEF Begin, Wait, Writing
    <3> QED
      BY <1>1, <3>1 DEF CleanBefore
  <2>2. CASE Ending(p)
    BY <1>1, <2>2, EndFrees DEF TypeInv
  <2> QED
    BY <1>1, <2>1, <2>2, WritersMove
<1>2. CASE q # p
  <2>1. pc'[q] = pc[q]
    BY <1>2, OthersStay DEF TypeInv
  <2>2. tx'[q] = tx[q] /\ born'[q] = born[q]
    BY <1>2, DefsWriterFrame, TxtsWriterFrame, EndFrees, OtherFrame DEF TypeInv
  <2> QED
    BY <2>1, <2>2 DEF CleanBefore, Writing
<1> QED
  BY <1>1, <1>2

LEMMA LockStep ==
  ASSUME LockInv, NEW p \in Publishers, Begin(p) \/ Step(p) \/ Fail(p)
  PROVE  LockInv'
<1> USE DEF LockInv
<1>1. TypeInv'
  BY StepTyped
<1>2. ASSUME NEW q \in Publishers, target'[q] # NoStatement
      PROVE  pc'[q] \in PickingSteps
  <2>1. CASE q = p
    <3>1. Wait(p)
      BY <1>2, <2>1, WaitersMove
    <3>2. pc' = pc /\ Picked(p) # {}
      BY <3>1 DEF Wait
    <3> QED
      BY <2>1, <3>2 DEF Picked, PickingSteps
  <2>2. CASE q # p
    <3>1. target[q] # NoStatement
      BY <1>2, <2>2, WaitersMove
    <3>2. pc'[q] = pc[q]
      BY <2>2, OthersStay DEF TypeInv
    <3> QED
      BY <3>1, <3>2 DEF OnlyPickersWait
  <2> QED
    BY <2>1, <2>2
<1> QED
  BY <1>1, <1>2, LocksStep, CleanStep DEF OnlyPickersWait

LEMMA InitLocks == Init => LockInv
<1> SUFFICES ASSUME Init PROVE LockInv
  OBVIOUS
<1>1. TypeInv
  BY InitTyped
<1>2. RowLocks /\ BornWritten /\ CleanBefore
  BY CleanCells DEF Init, RowLocks, BornWritten, CleanBefore
<1>3. OnlyPickersWait
  BY DEF Init, OnlyPickersWait
<1> QED
  BY <1>1, <1>2, <1>3 DEF LockInv

LEMMA StutterLocks == LockInv /\ UNCHANGED vars => LockInv'
<1> SUFFICES ASSUME LockInv, UNCHANGED vars PROVE LockInv'
  OBVIOUS
<1>1. TypeInv'
  BY StutterTyped DEF LockInv
<1> QED
  BY <1>1 DEF LockInv, RowLocks, BornWritten, CleanBefore, OnlyPickersWait, Writing,
              vars

THEOREM LockInvariant == Spec => []LockInv
<1>1. LockInv /\ [Next]_vars => LockInv'
  BY LockStep, StutterLocks DEF Next
<1> QED
  BY <1>1, InitLocks, PTL DEF Spec

-----------------------------------------------------------------------------
(***************************************************************************)
(* No disabled row is committed.                                           *)
(***************************************************************************)
LEMMA CallStays ==
  ASSUME TypeOK, NEW p \in Publishers, Step(p) \/ Fail(p), ~Ending(p)
  PROVE  call' = call
BY DEF Step, Ending, Fail, Wait, Disable, RejectDefinition, SkipForeign,
       RejectVersion, GetDefinition, ReadHistory, RecordVersion,
       VersionNotInserted, RecheckHistory, UpdateDefinition, InsertDefinition,
       Purge, CheckTexts, DeleteTexts, SkipForeignText, LookUpText, UpdateText,
       InsertText, DeleteProjection, InsertProjection, UniqueViolation

\* Only the purge leads from the definitions to the texts.
LEMMA AfterPurge ==
  ASSUME TypeInv, NEW p \in Publishers, Begin(p) \/ Step(p) \/ Fail(p),
         pc'[p] \in PurgedSteps, ~Purge(p)
  PROVE  pc[p] \in PurgedSteps /\ tx'[p].defs = tx[p].defs
<1>1. pc[p] \in PurgedSteps /\ ~DefsWriter(p) /\ ~Ending(p)
  BY Moves DEF TypeInv, PurgedSteps, PickingSteps, Step, Ending, DefsWriter
<1>2. tx'[p].defs = tx[p].defs
  BY <1>1, TxtsWriterFrame, OtherFrame
<1> QED
  BY <1>1, <1>2

\* What a DefsWriter leaves disabled it found disabled, or disabled now.
LEMMA DisabledCells ==
  ASSUME TypeInv, NEW p \in Publishers, DefsWriter(p), NEW r \in Resources,
         IsDisabled(tx'[p].defs[r])
  PROVE  \/ tx'[p].defs[r] = tx[p].defs[r] /\ (Purge(p) => r \notin Rows(p))
         \/ Disable(p) /\ tx'[p].defs[r].source = Source(p)
<1>0. TypeOK
  BY DEF TypeInv
<1>1. CASE Disable(p)
  <2> DEFINE new == [k \in Rows(p) |-> [Defs(p, k) EXCEPT !.disabled = TRUE]]
  <2>1. pc[p] = "disable" /\ WriteDefs(p, new) /\ ~Purge(p)
    BY <1>1 DEF Disable, Purge
  <2>2. CASE r \in Rows(p)
    <3>1. tx'[p].defs[r] = new[r]
      <4> HIDE DEF new
      <4>1. tx'[p].defs[r] = IF r \in DOMAIN new THEN new[r] ELSE tx[p].defs[r]
        BY <1>0, <2>1, DefsWritten
      <4>2. r \in DOMAIN new
        BY <2>2 DEF new
      <4> QED
        BY <4>1, <4>2
    <3>2. Defs(p, r) \in DefinitionRow /\ r \in Picked(p)
      BY <2>1, <2>2, RowsTyped
    <3>3. Defs(p, r).source = Source(p)
      BY <2>1, <3>2 DEF Picked, OwnEnabled, Owns
    <3> QED
      BY <1>1, <2>2, <3>1, <3>2, <3>3 DEF DefinitionRow
  <2>3. CASE r \notin Rows(p)
    BY <1>0, <2>1, <2>3, DefsWritten
  <2> QED
    BY <2>2, <2>3
<1>2. CASE UpdateDefinition(p)
  <2> DEFINE new == [k \in Rows(p) |-> PublishedRow(call[p], Definition(p))]
  <2>1. WriteDefs(p, new) /\ ~Purge(p)
    BY <1>2 DEF UpdateDefinition, Purge
  <2>2. r \notin Rows(p)
    BY <1>0, <2>1, DefsWritten DEF IsDisabled, PublishedRow
  <2> QED
    BY <1>0, <2>1, <2>2, DefsWritten
<1>3. CASE InsertDefinition(p)
  <2> DEFINE new == [k \in {Res(p)} |-> PublishedRow(call[p], Definition(p))]
  <2>1. WriteDefs(p, new) /\ ~Purge(p)
    BY <1>3 DEF InsertDefinition, Purge
  <2>2. r # Res(p)
    BY <1>0, <2>1, DefsWritten DEF IsDisabled, PublishedRow
  <2> QED
    BY <1>0, <2>1, <2>2, DefsWritten
<1>4. CASE Purge(p)
  <2> DEFINE new == [k \in Rows(p) |-> Absent]
  <2>1. WriteDefs(p, new)
    BY <1>4 DEF Purge
  <2>2. r \notin Rows(p)
    BY <1>0, <2>1, DefsWritten DEF IsDisabled
  <2> QED
    BY <1>0, <2>1, <2>2, DefsWritten
<1> QED
  BY <1>1, <1>2, <1>3, <1>4 DEF DefsWriter

LEMMA OthersKeep ==
  ASSUME LockInv, NEW p \in Publishers, Begin(p) \/ Step(p) \/ Fail(p),
         NEW q \in Publishers \ {p}
  PROVE  /\ tx'[q] = tx[q]
         /\ pc'[q] = pc[q] /\ call'[q] = call[q] /\ at'[q] = at[q]
<1>1. tx'[q] = tx[q]
  BY DefsWriterFrame, TxtsWriterFrame, EndFrees, OtherFrame DEF LockInv, TypeInv
<1> QED
  BY <1>1, OthersStay DEF LockInv, TypeInv

LEMMA OnlyCommitPublishes ==
  ASSUME TypeInv, NEW p \in Publishers, Begin(p) \/ Step(p) \/ Fail(p), ~Commit(p)
  PROVE  db' = db
BY DefsWriterFrame, TxtsWriterFrame, OtherFrame, EndFrees DEF Ending, TypeInv

LEMMA OwnDisabledStep ==
  ASSUME DisabledInv, NEW p \in Publishers, Begin(p) \/ Step(p) \/ Fail(p)
  PROVE  DisabledAreOwn'
<1> USE DEF DisabledInv, LockInv
<1> SUFFICES ASSUME NEW q \in Publishers, NEW r \in Resources,
                    IsDisabled(tx'[q].defs[r])
             PROVE  tx'[q].defs[r].source = Source(q)'
  BY DEF DisabledAreOwn, IsDisabled
<1>1. CASE q # p
  <2>1. tx'[q] = tx[q] /\ call'[q] = call[q]
    BY <1>1, OthersKeep
  <2> QED
    BY <2>1 DEF DisabledAreOwn, Source
<1>2. CASE q = p
  <2>1. CASE Ending(p) \/ Begin(p)
    <3>1. tx'[p] = CleanOverlay
      BY <2>1, EndFrees DEF TypeInv, Begin, CleanBefore, Writing
    <3> QED
      BY <1>2, <3>1, CleanCells DEF IsDisabled
  <2>2. CASE ~Ending(p) /\ ~Begin(p)
    <3>1. Source(p)' = Source(p)
      BY <2>2, CallStays DEF TypeInv, Source
    <3>2. CASE DefsWriter(p)
      BY <1>2, <3>1, <3>2, DisabledCells DEF DisabledAreOwn
    <3>3. CASE ~DefsWriter(p)
      <4>1. tx'[p].defs = tx[p].defs
        BY <2>2, <3>3, TxtsWriterFrame, OtherFrame
      <4> QED
        BY <1>2, <3>1, <4>1 DEF DisabledAreOwn
    <3> QED
      BY <3>2, <3>3
  <2> QED
    BY <2>1, <2>2
<1> QED
  BY <1>1, <1>2

\* While a purge waits, the rows its transaction disabled stay picked: what
\* another transaction inserted and committed is not among them.
LEMMA PickedStep ==
  ASSUME DisabledInv, NEW p \in Publishers, Begin(p) \/ Step(p) \/ Fail(p)
  PROVE  PurgePicked'
<1> USE DEF DisabledInv, LockInv
<1> SUFFICES ASSUME NEW q \in Publishers, pc'[q] = "purge",
                    target'[q] # NoStatement, NEW r \in Resources,
                    IsDisabled(tx'[q].defs[r])
             PROVE  r \in target'[q]
  BY DEF PurgePicked, IsDisabled
<1>1. CASE q = p
  <2>1. Wait(p)
    BY <1>1, WaitersMove
  <2>2. /\ pc[p] = "purge" /\ tx' = tx
        /\ target'[p] = Picked(p)
    BY <1>1, <2>1 DEF Wait, TypeInv, TypeOK
  <2>3. tx[p].defs[r].source = Source(p) /\ IsDisabled(tx[p].defs[r])
    BY <1>1, <2>2 DEF DisabledAreOwn
  <2>4. r \in OwnDisabled(p)
    BY <2>3 DEF OwnDisabled, Owns, Defs, Over, IsDisabled
  <2> QED
    BY <1>1, <2>2, <2>4 DEF Picked
<1>2. CASE q # p
  <2>1. tx'[q] = tx[q] /\ pc'[q] = pc[q]
    BY <1>2, OthersKeep
  <2>2. target[q] # NoStatement
    BY <1>2, WaitersMove
  <2>3. r \in target[q]
    BY <2>1, <2>2 DEF PurgePicked
  <2>4. CASE Commit(p)
    <3>1. target'[q] = {k \in target[q] : <<Table(q), k>> \notin born[p]}
      BY <2>2, <2>4, WaitersMove
    <3>2. Table(q) = "defs"
      BY <2>1 DEF Table
    <3>3. tx[p].defs[r] = Clean
      BY <1>2, <2>1 DEF RowLocks, IsDisabled
    <3> QED
      BY <2>3, <3>1, <3>2, <3>3 DEF BornWritten
  <2>5. CASE ~Commit(p)
    BY <1>2, <2>3, <2>5, WaitersMove
  <2> QED
    BY <2>4, <2>5
<1> QED
  BY <1>1, <1>2

LEMMA PurgedStep ==
  ASSUME DisabledInv, NEW p \in Publishers, Begin(p) \/ Step(p) \/ Fail(p)
  PROVE  Purged'
<1> USE DEF DisabledInv, LockInv
<1> SUFFICES ASSUME NEW q \in Publishers, pc'[q] \in PurgedSteps,
                    NEW r \in Resources, IsDisabled(tx'[q].defs[r])
             PROVE  FALSE
  BY DEF Purged, IsDisabled
<1>1. CASE q # p
  BY <1>1, OthersKeep DEF Purged
<1>2. CASE q = p /\ Purge(p)
  <2>1. /\ pc[p] = "purge"
        /\ IsDisabled(tx[p].defs[r])
        /\ r \notin Rows(p)
    BY <1>2, DisabledCells DEF DefsWriter, Purge, Disable
  <2>2. r \in OwnDisabled(p)
    BY <2>1 DEF DisabledAreOwn, OwnDisabled, Owns, Defs, Over, IsDisabled
  <2>3. r \in Picked(p)
    BY <2>1, <2>2 DEF Picked
  <2> QED
    BY <2>1, <2>3 DEF Rows, PurgePicked
<1>3. CASE q = p /\ ~Purge(p)
  BY <1>3, AfterPurge DEF Purged
<1> QED
  BY <1>1, <1>2, <1>3

LEMMA DisabledStep ==
  ASSUME DisabledInv, NEW p \in Publishers, Begin(p) \/ Step(p) \/ Fail(p)
  PROVE  DisabledInv'
<1>1. NoDisabledRows'
  <2>1. CASE Commit(p)
    <3> SUFFICES ASSUME NEW r \in Resources, db'.defs[r] # Absent
                 PROVE  ~db'.defs[r].disabled
      BY DEF NoDisabledRows
    <3>1. db'.defs[r] = Defs(p, r) /\ pc[p] = "synced"
      BY <2>1, EndFrees DEF Ending, DisabledInv, LockInv, TypeInv
    <3>2. ~IsDisabled(tx[p].defs[r])
      BY <3>1 DEF DisabledInv, Purged, PurgedSteps
    <3> QED
      BY <3>1, <3>2 DEF Defs, Over, IsDisabled, DisabledInv, NoDisabledRows
  <2>2. CASE ~Commit(p)
    <3>1. db' = db
      BY <2>2, OnlyCommitPublishes DEF DisabledInv, LockInv
    <3> QED
      BY <3>1 DEF DisabledInv, NoDisabledRows
  <2> QED
    BY <2>1, <2>2
<1> QED
  BY <1>1, LockStep, OwnDisabledStep, PickedStep, PurgedStep DEF DisabledInv

LEMMA InitDisabled == Init => DisabledInv
<1> SUFFICES ASSUME Init PROVE DisabledInv
  OBVIOUS
<1>1. DisabledAreOwn /\ PurgePicked
  BY CleanCells DEF Init, DisabledAreOwn, PurgePicked, IsDisabled
<1>2. Purged
  BY CleanCells DEF Init, Purged, IsDisabled
<1>3. NoDisabledRows
  BY DEF Init, EmptyDatabase, NoDisabledRows
<1> QED
  BY <1>1, <1>2, <1>3, InitLocks DEF DisabledInv

LEMMA StutterDisabled == DisabledInv /\ UNCHANGED vars => DisabledInv'
<1> SUFFICES ASSUME DisabledInv, UNCHANGED vars PROVE DisabledInv'
  OBVIOUS
<1>1. LockInv'
  BY StutterLocks DEF DisabledInv
<1> QED
  BY <1>1 DEF DisabledInv, DisabledAreOwn, PurgePicked, Purged, NoDisabledRows,
              IsDisabled, Source, vars

THEOREM DisabledInvariant == Spec => []DisabledInv
<1>1. DisabledInv /\ [Next]_vars => DisabledInv'
  BY DisabledStep, StutterDisabled DEF Next
<1> QED
  BY <1>1, InitDisabled, PTL DEF Spec

\* Whatever transactions interleave, no reader finds a definition missing
\* because a Sync has disabled it: the purge deletes every row its own
\* transaction disabled, however long it waited for locks and whatever was
\* committed meanwhile.
THEOREM DisabledNeverCommitted == Spec => []NoDisabledRows
<1>1. DisabledInv => NoDisabledRows
  BY DEF DisabledInv
<1> QED
  BY <1>1, DisabledInvariant, PTL

-----------------------------------------------------------------------------
(***************************************************************************)
(* A conflict means other content.  A publisher that lost the race for a   *)
(* version rereads the history in a later statement; LostRace says that    *)
(* what stopped its INSERT is still recorded then.                         *)
(***************************************************************************)
ConflictInv == HistoryInv /\ LockInv /\ LostRace

LEMMA RecordsStay ==
  ASSUME HistoryInv, LockInv, NEW p \in Publishers,
         Begin(p) \/ Step(p) \/ Fail(p),
         NEW q \in Publishers \ {p}, NEW v \in VersionIds, Vers(q, v) # Absent
  PROVE  Vers(q, v)' = Vers(q, v)
<1>1. tx'[q] = tx[q]
  BY OthersKeep
<1>2. CASE tx[q].vers[v] # Clean
  BY <1>1, <1>2 DEF Vers, Over
<1>3. CASE tx[q].vers[v] = Clean
  <2>1. db.vers[v] # Absent
    BY <1>3 DEF Vers, Over
  <2>2. db'.vers[v] = db.vers[v]
    BY <2>1, CommitAddsVersions, OnlyCommitPublishes DEF LockInv
  <2> QED
    BY <1>1, <1>3, <2>2 DEF Vers, Over
<1> QED
  BY <1>2, <1>3

LEMMA RecheckedLate ==
  ASSUME TypeInv, NEW p \in Publishers, Begin(p) \/ Step(p) \/ Fail(p),
         pc'[p] = "recheck"
  PROVE  VersionNotInserted(p)
BY Moves DEF TypeInv, PickingSteps, Step

LEMMA ConflictStep ==
  ASSUME ConflictInv, NEW p \in Publishers, Begin(p) \/ Step(p) \/ Fail(p)
  PROVE  ConflictInv'
<1> USE DEF ConflictInv
<1>1. ASSUME NEW q \in Publishers, pc'[q] = "recheck"
      PROVE  ~IdFree(q)'
  <2>1. CASE q = p
    <3>1. VersionNotInserted(p)
      BY <1>1, <2>1, RecheckedLate DEF LockInv
    <3>2. ~IdFree(p) /\ UNCHANGED <<db, tx, call, at>>
      BY <3>1 DEF VersionNotInserted
    <3> QED
      BY <2>1, <3>2 DEF IdFree, SameId, VersionId, Res, Definition, Vers, Over
  <2>2. CASE q # p
    <3>1. pc'[q] = pc[q] /\ call'[q] = call[q] /\ at'[q] = at[q]
      BY <2>2, OthersKeep
    <3>2. VersionId(q)' = VersionId(q)
      BY <3>1 DEF VersionId, Res, Definition
    <3>3. PICK v \in SameId(VersionId(q)) : Vers(q, v) # Absent
      BY <1>1, <3>1 DEF LostRace, IdFree
    <3>4. v \in VersionIds /\ Vers(q, v)' # Absent
      BY <2>2, <3>3, RecordsStay DEF SameId
    <3> QED
      BY <3>2, <3>3, <3>4 DEF IdFree, SameId
  <2> QED
    BY <2>1, <2>2
<1> QED
  BY <1>1, HistoryStep, LockStep DEF LostRace

LEMMA InitConflict == Init => ConflictInv
<1>1. Init => LostRace
  BY DEF Init, LostRace
<1> QED
  BY <1>1, InitHistory, InitLocks DEF ConflictInv

LEMMA StutterConflict == ConflictInv /\ UNCHANGED vars => ConflictInv'
<1> SUFFICES ASSUME ConflictInv, UNCHANGED vars PROVE ConflictInv'
  OBVIOUS
<1>1. HistoryInv' /\ LockInv'
  BY StutterHistory, StutterLocks DEF ConflictInv
<1> QED
  BY <1>1 DEF ConflictInv, LostRace, IdFree, SameId, VersionId, Res, Definition,
              Vers, Over, vars

\* Who comes to a conflict has seen other content, or another version's id.
LEMMA ConflictJustified ==
  ASSUME ConflictInv, NEW p \in Publishers, Begin(p) \/ Step(p) \/ Fail(p),
         pc'[p] = "conflict"
  PROVE  \/ VersionReused(p, Defs(p, Res(p)))
         \/ Vers(p, VersionId(p)) \notin {Absent, Definition(p).hash}
         \/ \E v \in SameId(VersionId(p)) \ {VersionId(p)} : Vers(p, v) # Absent
<1> USE DEF ConflictInv, LockInv, TypeInv, TypeOK, Goto
<1>1. RejectVersion(p) \/ ReadHistory(p) \/ RecheckHistory(p)
  BY Moves DEF PickingSteps, Step
<1>2. CASE RejectVersion(p)
  BY <1>2 DEF RejectVersion
<1>3. CASE ReadHistory(p)
  BY <1>3 DEF ReadHistory, CheckHistory
<1>4. CASE RecheckHistory(p)
  <2>1. pc[p] = "recheck"
    BY <1>4 DEF RecheckHistory
  <2>2. PICK v \in SameId(VersionId(p)) : Vers(p, v) # Absent
    BY <2>1 DEF LostRace, IdFree
  <2>3. Vers(p, VersionId(p)) = Absent \/ Vers(p, VersionId(p)) # Definition(p).hash
    BY <1>4 DEF RecheckHistory, CheckHistory
  <2> QED
    BY <2>2, <2>3
<1> QED
  BY <1>1, <1>2, <1>3, <1>4

\* A publisher is told definition_version_conflict only if its version is
\* taken: by other content, now or earlier, or through its id by a version of
\* another resource.  Losing the race to record the same content is none.
THEOREM ConflictsAreJustified == Spec => ConflictMeansOtherContent
<1>1. ConflictInv /\ [Next]_vars => ConflictInv'
  BY ConflictStep, StutterConflict DEF Next
<1>2. ASSUME ConflictInv, [Next]_vars, NEW p \in Publishers,
             pc[p] # "conflict", pc'[p] = "conflict"
      PROVE  \/ VersionReused(p, Defs(p, Res(p)))
             \/ Vers(p, VersionId(p)) \notin {Absent, Definition(p).hash}
             \/ \E v \in SameId(VersionId(p)) \ {VersionId(p)} :
                  Vers(p, v) # Absent
  <2>1. Next
    BY <1>2 DEF vars
  <2>2. PICK q \in Publishers : Begin(q) \/ Step(q) \/ Fail(q)
    BY <2>1 DEF Next
  <2>3. q = p
    BY <1>2, <2>2, OthersKeep DEF ConflictInv
  <2> QED
    BY <1>2, <2>2, <2>3, ConflictJustified
<1>3. ConflictInv /\ [Next]_vars =>
        [\A p \in Publishers :
           pc[p] # "conflict" /\ pc'[p] = "conflict" =>
             \/ VersionReused(p, Defs(p, Res(p)))
             \/ Vers(p, VersionId(p)) \notin {Absent, Definition(p).hash}
             \/ \E v \in SameId(VersionId(p)) \ {VersionId(p)} :
                  Vers(p, v) # Absent]_vars
  BY <1>2
<1> QED
  BY <1>1, <1>3, InitConflict, PTL DEF Spec, ConflictMeansOtherContent

=============================================================================
