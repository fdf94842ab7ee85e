------------------------ MODULE SyncProjectionProofs ------------------------
(***************************************************************************)
(* Proofs about SyncProjection, for any number of publishers, resources,   *)
(* versions, workspaces and snapshots, and for both engines.               *)
(***************************************************************************)
EXTENDS SyncProjection, WellFoundedInduction, TLAPS

(***************************************************************************)
(* Where a publisher stands in its snapshot.                               *)
(***************************************************************************)
DefinitionSteps == {"get", "hashes", "record", "recheck", "update", "insert"}
TextSteps       == {"textlookup", "textupdate", "textinsert"}

InPlace(p) ==
  /\ pc[p] # "idle" => call[p] \in Snapshots
  /\ pc[p] \in DefinitionSteps => at[p] \in DOMAIN call[p].defs
  /\ pc[p] \in TextSteps \cup {"textdelete"} =>
       /\ ws[p] \in DOMAIN WorkspaceOrder
       /\ call[p].texts[Workspace(p)] # <<>>
  /\ pc[p] \in {"idle", "disable", "textdelete"} => at[p] = 1
  /\ pc[p] \in TextSteps => at[p] \in DOMAIN call[p].texts[Workspace(p)]

Position == \A p \in Publishers : InPlace(p)

TypeInv == TypeOK /\ Position

-----------------------------------------------------------------------------
(***************************************************************************)
(* Lemmas on snapshots, rows and writes.                                   *)
(***************************************************************************)
LEMMA SnapshotFields ==
  ASSUME NEW s \in Snapshots
  PROVE  /\ s.identified \in BOOLEAN
         /\ s.version \in Versions
         /\ s.source \in Sources
         /\ s.defs \in Seq(SnapshotDefinition)
         /\ s.texts \in [Workspaces -> Seq(SnapshotText)]
BY SnapshotsTyped DEF ProjectionSnapshot

LEMMA CurrentDefinition ==
  ASSUME TypeInv, NEW p \in Publishers, pc[p] \in DefinitionSteps
  PROVE  /\ call[p] \in Snapshots
         /\ Definition(p) \in SnapshotDefinition
         /\ Definition(p).hash \in Hashes
         /\ Res(p) \in Resources
         /\ VersionId(p) \in VersionIds
         /\ PublishedRow(call[p], Definition(p)) \in DefinitionRow
<1>1. call[p] \in Snapshots /\ at[p] \in DOMAIN call[p].defs
  BY DEF TypeInv, Position, InPlace, DefinitionSteps
<1>2. /\ call[p].defs \in Seq(SnapshotDefinition)
      /\ call[p].version \in Versions
      /\ call[p].source \in Sources
  BY <1>1, SnapshotFields
<1>3. Definition(p) \in SnapshotDefinition
  BY <1>1, <1>2 DEF Definition
<1> QED
  BY <1>1, <1>2, <1>3
     DEF SnapshotDefinition, Res, VersionId, VersionIds, PublishedRow,
         DefinitionRow

LEMMA CurrentText ==
  ASSUME TypeInv, NEW p \in Publishers, pc[p] \in TextSteps
  PROVE  /\ TextId(p) \in TextIds
         /\ NewText(p) \in TextRow
<1>1. /\ call[p] \in Snapshots
      /\ ws[p] \in DOMAIN WorkspaceOrder
      /\ at[p] \in DOMAIN call[p].texts[Workspace(p)]
  BY DEF TypeInv, Position, InPlace, TextSteps
<1>2. Workspace(p) \in Workspaces
  BY <1>1 DEF Workspace, Workspaces
<1>3. call[p].texts[Workspace(p)] \in Seq(SnapshotText) /\ call[p].source \in Sources
  BY <1>1, <1>2, SnapshotFields
<1>4. Text(p) \in SnapshotText
  BY <1>1, <1>3 DEF Text
<1> QED
  BY <1>2, <1>3, <1>4
     DEF SnapshotText, TextId, TextIds, NewText, TextRow, Source

LEMMA VisibleRows ==
  ASSUME TypeOK, NEW p \in Publishers
  PROVE  /\ \A r \in Resources : Defs(p, r) \in DefinitionRow \cup {Absent}
         /\ \A v \in VersionIds : Vers(p, v) \in Hashes \cup {Absent}
         /\ \A i \in TextIds : Txts(p, i) \in TextRow \cup {Absent}
         /\ Proj(p) \in ProjectionRow \cup {Absent}
<1> USE DEF TypeOK, Over
<1>1. ASSUME NEW r \in Resources PROVE Defs(p, r) \in DefinitionRow \cup {Absent}
  BY DEF Defs, Overlay, Database
<1>2. ASSUME NEW v \in VersionIds PROVE Vers(p, v) \in Hashes \cup {Absent}
  BY DEF Vers, Overlay, Database
<1>3. ASSUME NEW i \in TextIds PROVE Txts(p, i) \in TextRow \cup {Absent}
  BY DEF Txts, Overlay, Database
<1>4. Proj(p) \in ProjectionRow \cup {Absent}
  BY DEF Proj, Overlay, Database
<1> QED
  BY <1>1, <1>2, <1>3, <1>4

LEMMA WritesTyped ==
  ASSUME TypeOK, NEW p \in Publishers, NEW new
  PROVE  /\ /\ WriteDefs(p, new)
            /\ \A r \in DOMAIN new : new[r] \in DefinitionRow \cup {Absent}
            => tx' \in [Publishers -> Overlay]
         /\ /\ WriteVers(p, new)
            /\ \A v \in DOMAIN new : new[v] \in Hashes
            => tx' \in [Publishers -> Overlay]
         /\ /\ WriteTxts(p, new)
            /\ \A i \in DOMAIN new : new[i] \in TextRow \cup {Absent}
            => tx' \in [Publishers -> Overlay]
         /\ /\ WriteProj(p, new)
            /\ \A c \in DOMAIN new : new[c] \in ProjectionRow \cup {Absent}
            => tx' \in [Publishers -> Overlay]
<1> USE DEF TypeOK, Put
<1>1. tx \in [Publishers -> Overlay] /\ tx[p] \in Overlay
  OBVIOUS
<1>2. ASSUME WriteDefs(p, new),
             \A r \in DOMAIN new : new[r] \in DefinitionRow \cup {Absent}
      PROVE  tx' \in [Publishers -> Overlay]
  <2>1. Put(tx[p].defs, new) \in [Resources -> DefinitionRow \cup {Absent, Clean}]
    BY <1>1, <1>2 DEF Overlay
  <2>2. [tx[p] EXCEPT !.defs = Put(tx[p].defs, new)] \in Overlay
    BY <1>1, <2>1 DEF Overlay
  <2> QED
    BY <1>1, <1>2, <2>2 DEF WriteDefs
<1>3. ASSUME WriteVers(p, new), \A v \in DOMAIN new : new[v] \in Hashes
      PROVE  tx' \in [Publishers -> Overlay]
  <2>1. Put(tx[p].vers, new) \in [VersionIds -> Hashes \cup {Absent, Clean}]
    BY <1>1, <1>3 DEF Overlay
  <2>2. [tx[p] EXCEPT !.vers = Put(tx[p].vers, new)] \in Overlay
    BY <1>1, <2>1 DEF Overlay
  <2> QED
    BY <1>1, <1>3, <2>2 DEF WriteVers
<1>4. ASSUME WriteTxts(p, new),
             \A i \in DOMAIN new : new[i] \in TextRow \cup {Absent}
      PROVE  tx' \in [Publishers -> Overlay]
  <2>1. Put(tx[p].txts, new) \in [TextIds -> TextRow \cup {Absent, Clean}]
    BY <1>1, <1>4 DEF Overlay
  <2>2. [tx[p] EXCEPT !.txts = Put(tx[p].txts, new)] \in Overlay
    BY <1>1, <2>1 DEF Overlay
  <2> QED
    BY <1>1, <1>4, <2>2 DEF WriteTxts
<1>5. ASSUME WriteProj(p, new),
             \A c \in DOMAIN new : new[c] \in ProjectionRow \cup {Absent}
      PROVE  tx' \in [Publishers -> Overlay]
  <2>1. Put(tx[p].proj, new) \in [{Current} -> ProjectionRow \cup {Absent, Clean}]
    BY <1>1, <1>5 DEF Overlay
  <2>2. [tx[p] EXCEPT !.proj = Put(tx[p].proj, new)] \in Overlay
    BY <1>1, <2>1 DEF Overlay
  <2> QED
    BY <1>1, <1>5, <2>2 DEF WriteProj
<1> QED
  BY <1>2, <1>3, <1>4, <1>5

LEMMA RowsTyped ==
  ASSUME TypeInv, NEW p \in Publishers
  PROVE  /\ Rows(p) \subseteq Picked(p)
         /\ Picked(p) \in (SUBSET Resources) \cup (SUBSET TextIds) \cup (SUBSET {Current})
         /\ pc[p] = "disable" => \A r \in Rows(p) :
              r \in Resources /\ Defs(p, r) \in DefinitionRow
<1>1. Rows(p) \subseteq Picked(p)
  BY DEF Rows
<1>2. pc[p] = "update" => Res(p) \in Resources
  BY CurrentDefinition DEF DefinitionSteps
<1>3. pc[p] = "textupdate" => TextId(p) \in TextIds
  BY CurrentText DEF TextSteps
<1>4. Picked(p) \in (SUBSET Resources) \cup (SUBSET TextIds) \cup (SUBSET {Current})
  <2>1. pc[p] \in {"disable", "update", "purge"} => Picked(p) \in SUBSET Resources
    BY <1>2 DEF Picked, OwnEnabled, OwnDisabled
  <2>2. pc[p] \in {"textdelete", "textupdate"} => Picked(p) \in SUBSET TextIds
    BY <1>3 DEF Picked, OwnTexts
  <2>3. pc[p] = "projdelete" => Picked(p) \in SUBSET {Current}
    BY DEF Picked
  <2>4. pc[p] \notin {"disable", "update", "purge", "textdelete", "textupdate",
                    "projdelete"} => Picked(p) \in SUBSET {Current}
    BY DEF Picked
  <2> QED
    BY <2>1, <2>2, <2>3, <2>4
<1>5. ASSUME pc[p] = "disable", NEW r \in Rows(p)
      PROVE  r \in Resources /\ Defs(p, r) \in DefinitionRow
  <2>1. r \in OwnEnabled(p)
    BY <1>1, <1>5 DEF Picked
  <2> QED
    BY <2>1, VisibleRows DEF OwnEnabled, Owns, TypeInv
<1> QED
  BY <1>1, <1>4, <1>5

(***************************************************************************)
(* Moves that keep a publisher inside its snapshot.                        *)
(***************************************************************************)
LEMMA GotoKeepsPosition ==
  ASSUME TypeInv, NEW p \in Publishers, NEW step \in Statements \ {"idle"},
         pc[p] # "idle", Goto(p, step), UNCHANGED <<call, at, ws>>,
         step \in DefinitionSteps =>
           \/ pc[p] \in DefinitionSteps
           \/ pc[p] = "disable" /\ call[p].defs # <<>>,
         step \in TextSteps => pc[p] \in TextSteps \cup {"textdelete"},
         step \notin {"disable", "textdelete"}
  PROVE  Position' /\ pc' \in [Publishers -> Statements]
<1> USE DEF TypeInv, TypeOK, Goto
<1>1. pc' \in [Publishers -> Statements]
  OBVIOUS
<1>2. call[p] \in Snapshots
  BY DEF Position, InPlace
<1>3. call[p].defs \in Seq(SnapshotDefinition)
  BY <1>2, SnapshotFields
<1>4. step \in DefinitionSteps => at[p] \in DOMAIN call[p].defs
  BY <1>3 DEF Position, InPlace
<1>5. step \in TextSteps =>
        /\ ws[p] \in DOMAIN WorkspaceOrder
        /\ call[p].texts[Workspace(p)] # <<>>
        /\ at[p] \in DOMAIN call[p].texts[Workspace(p)]
  <2>1. ASSUME ws[p] \in DOMAIN WorkspaceOrder
        PROVE  call[p].texts[Workspace(p)] \in Seq(SnapshotText)
    <3>1. Workspace(p) \in Workspaces
      BY <2>1 DEF Workspace, Workspaces
    <3>2. call[p].texts \in [Workspaces -> Seq(SnapshotText)]
      BY <1>2, SnapshotFields
    <3> QED
      BY <3>1, <3>2
  <2> QED
    BY <2>1 DEF Position, InPlace, TextSteps
<1>6. Workspace(p)' = Workspace(p)
  BY DEF Workspace
<1>7. ASSUME NEW q \in Publishers
      PROVE  InPlace(q)'
  <2>1. Workspace(q)' = Workspace(q)
    BY DEF Workspace
  <2>2. CASE q = p
    BY <1>2, <1>4, <1>5, <2>1, <2>2 DEF InPlace, Statements
  <2>3. CASE q # p
    BY <2>1, <2>3 DEF Position, InPlace
  <2> QED
    BY <2>2, <2>3
<1> QED
  BY <1>1, <1>7 DEF Position

LEMMA NextDefinitionKeepsPosition ==
  ASSUME TypeInv, NEW p \in Publishers, pc[p] \in DefinitionSteps,
         NextDefinition(p), UNCHANGED <<call, ws>>
  PROVE  /\ Position'
         /\ pc' \in [Publishers -> Statements]
         /\ at' \in [Publishers -> Nat]
         /\ found' \in [Publishers -> BOOLEAN]
<1> USE DEF TypeInv, TypeOK, NextDefinition, Goto
<1>1. /\ call[p] \in Snapshots
      /\ at[p] \in DOMAIN call[p].defs
      /\ call[p].defs \in Seq(SnapshotDefinition)
  BY SnapshotFields DEF Position, InPlace, DefinitionSteps
<1>2. /\ pc' \in [Publishers -> Statements]
      /\ at' \in [Publishers -> Nat]
      /\ found' \in [Publishers -> BOOLEAN]
  BY DEF Statements
<1>3. /\ pc'[p] \in {"get", "purge"}
      /\ pc'[p] = "get" => at'[p] \in DOMAIN call[p].defs
  BY <1>1
<1>4. ASSUME NEW q \in Publishers
      PROVE  InPlace(q)'
  <2>1. Workspace(q)' = Workspace(q)
    BY DEF Workspace
  <2>2. CASE q = p
    BY <1>1, <1>3, <2>2 DEF InPlace, DefinitionSteps, TextSteps
  <2>3. CASE q # p
    BY <2>1, <2>3 DEF Position, InPlace
  <2> QED
    BY <2>2, <2>3
<1> QED
  BY <1>2, <1>4 DEF Position

\* The CHOOSE of NextWorkspace finds the next workspace, the first of those
\* that are left.
LEMMA LaterWorkspaceExists ==
  ASSUME TypeInv, NEW p \in Publishers, LaterWorkspaces(p) # {}
  PROVE  LET next == CHOOSE i \in LaterWorkspaces(p) :
                       \A j \in LaterWorkspaces(p) : i <= j
         IN  /\ next \in LaterWorkspaces(p)
             /\ \A j \in LaterWorkspaces(p) : next <= j
<1>1. LaterWorkspaces(p) \subseteq Nat
  BY WorkspaceOrderIsSequence DEF LaterWorkspaces
<1>2. PICK i \in LaterWorkspaces(p) :
        \A j \in LaterWorkspaces(p) : <<j, i>> \notin OpToRel(<, Nat)
  BY <1>1, NatLessThanWellFounded, WFMin
<1>3. ASSUME NEW j \in LaterWorkspaces(p) PROVE i <= j
  <2>1. i \in Nat /\ j \in Nat
    BY <1>1
  <2>2. ~(j < i)
    BY <1>2, <2>1 DEF OpToRel
  <2> QED
    BY <2>1, <2>2
<1> QED
  BY <1>3

LEMMA NextWorkspaceKeepsPosition ==
  ASSUME TypeInv, NEW p \in Publishers, pc[p] \in TextSteps \cup {"texts"},
         NextWorkspace(p), UNCHANGED call
  PROVE  /\ Position'
         /\ pc' \in [Publishers -> Statements]
         /\ at' \in [Publishers -> Nat]
         /\ ws' \in [Publishers -> Nat]
<1> USE DEF TypeInv, TypeOK, NextWorkspace, Goto
<1>1. call[p] \in Snapshots
  BY DEF Position, InPlace, TextSteps
<1>2. CASE LaterWorkspaces(p) = {}
  <2>1. /\ pc' = [pc EXCEPT ![p] = "projdelete"]
        /\ ws' = ws
        /\ at' = [at EXCEPT ![p] = 1]
    BY <1>2
  <2>2. ASSUME NEW q \in Publishers PROVE InPlace(q)'
    <3>1. Workspace(q)' = Workspace(q)
      BY <2>1 DEF Workspace
    <3>2. CASE q = p
      BY <1>1, <2>1, <3>2 DEF InPlace, DefinitionSteps, TextSteps
    <3>3. CASE q # p
      BY <2>1, <3>1, <3>3 DEF Position, InPlace
    <3> QED
      BY <3>2, <3>3
  <2> QED
    BY <2>1, <2>2 DEF Position, Statements
<1>3. CASE LaterWorkspaces(p) # {}
  <2> DEFINE next == CHOOSE i \in LaterWorkspaces(p) :
                       \A j \in LaterWorkspaces(p) : i <= j
  <2>1. /\ pc' = [pc EXCEPT ![p] = "textdelete"]
        /\ ws' = [ws EXCEPT ![p] = next]
        /\ at' = [at EXCEPT ![p] = 1]
    BY <1>3
  <2>2. next \in LaterWorkspaces(p)
    BY <1>3, LaterWorkspaceExists
  <2>3. /\ next \in DOMAIN WorkspaceOrder
        /\ next \in Nat
        /\ call[p].texts[WorkspaceOrder[next]] # <<>>
    <3>1. /\ next \in DOMAIN WorkspaceOrder
          /\ call[p].texts[WorkspaceOrder[next]] # <<>>
      BY <2>2 DEF LaterWorkspaces
    <3> HIDE DEF next
    <3>2. next \in Nat
      BY <3>1, WorkspaceOrderIsSequence
    <3> QED
      BY <3>1, <3>2
  <2> HIDE DEF next
  <2>4. ASSUME NEW q \in Publishers PROVE InPlace(q)'
    <3>1. CASE q = p
      BY <1>1, <2>1, <2>3, <3>1 DEF InPlace, DefinitionSteps, TextSteps, Workspace
    <3>2. CASE q # p
      BY <2>1, <3>2 DEF Position, InPlace, Workspace
    <3> QED
      BY <3>1, <3>2
  <2> QED
    BY <2>1, <2>3, <2>4 DEF Position, Statements
<1> QED
  BY <1>2, <1>3

LEMMA NextTextKeepsPosition ==
  ASSUME TypeInv, NEW p \in Publishers, pc[p] \in TextSteps,
         NextText(p), UNCHANGED call
  PROVE  /\ Position'
         /\ pc' \in [Publishers -> Statements]
         /\ at' \in [Publishers -> Nat]
         /\ ws' \in [Publishers -> Nat]
<1> USE DEF TypeInv, TypeOK
<1>1. /\ call[p] \in Snapshots
      /\ ws[p] \in DOMAIN WorkspaceOrder
      /\ call[p].texts[Workspace(p)] # <<>>
      /\ at[p] \in DOMAIN call[p].texts[Workspace(p)]
  BY DEF Position, InPlace, TextSteps
<1>2. call[p].texts[Workspace(p)] \in Seq(SnapshotText)
  <2>1. Workspace(p) \in Workspaces
    BY <1>1 DEF Workspace, Workspaces
  <2>2. call[p].texts \in [Workspaces -> Seq(SnapshotText)]
    BY <1>1, SnapshotFields
  <2> QED
    BY <2>1, <2>2
<1>3. CASE at[p] < Len(call[p].texts[Workspace(p)])
  <2>1. /\ at' = [at EXCEPT ![p] = at[p] + 1]
        /\ ws' = ws
        /\ pc' = [pc EXCEPT ![p] = "textlookup"]
    BY <1>3 DEF NextText, Goto
  <2>2. at[p] + 1 \in DOMAIN call[p].texts[Workspace(p)]
    BY <1>1, <1>2, <1>3
  <2>3. ASSUME NEW q \in Publishers PROVE InPlace(q)'
    <3>1. Workspace(q)' = Workspace(q)
      BY <2>1 DEF Workspace
    <3>2. CASE q = p
      BY <1>1, <2>1, <2>2, <3>1, <3>2 DEF InPlace, DefinitionSteps, TextSteps
    <3>3. CASE q # p
      BY <2>1, <3>1, <3>3 DEF Position, InPlace
    <3> QED
      BY <3>2, <3>3
  <2> QED
    BY <2>1, <2>3 DEF Position, Statements
<1>4. CASE ~(at[p] < Len(call[p].texts[Workspace(p)]))
  BY <1>4, NextWorkspaceKeepsPosition DEF NextText
<1> QED
  BY <1>3, <1>4

-----------------------------------------------------------------------------
(***************************************************************************)
(* Type correctness.                                                       *)
(***************************************************************************)
LEMMA InitTyped == Init => TypeInv
<1> SUFFICES ASSUME Init PROVE TypeInv
  OBVIOUS
<1>1. CleanOverlay \in Overlay
  BY DEF CleanOverlay, Overlay
<1>2. EmptyDatabase \in Database
  BY DEF EmptyDatabase, Database
<1>3. TypeOK
  BY <1>1, <1>2 DEF Init, TypeOK, Statements
<1>4. Position
  BY DEF Init, Position, InPlace, DefinitionSteps, TextSteps
<1> QED
  BY <1>3, <1>4 DEF TypeInv

LEMMA EndKeepsType ==
  ASSUME TypeInv, NEW p \in Publishers, End(p)
  PROVE  /\ Position'
         /\ tx' \in [Publishers -> Overlay]
         /\ born' \in [Publishers -> SUBSET RowIds]
         /\ pc' \in [Publishers -> Statements]
         /\ call' \in [Publishers -> Snapshots \cup {NoCall}]
         /\ at' \in [Publishers -> Nat]
         /\ ws' \in [Publishers -> Nat]
         /\ found' \in [Publishers -> BOOLEAN]
<1> USE DEF TypeInv, TypeOK, End
<1>1. CleanOverlay \in Overlay
  BY DEF CleanOverlay, Overlay
<1>2. ASSUME NEW q \in Publishers PROVE InPlace(q)'
  <2>1. CASE q = p
    BY <2>1 DEF InPlace, DefinitionSteps, TextSteps
  <2>2. CASE q # p
    BY <2>2 DEF Position, InPlace, Workspace
  <2> QED
    BY <2>1, <2>2
<1> QED
  BY <1>1, <1>2 DEF Position, Statements

LEMMA CommittedTyped ==
  ASSUME TypeOK, NEW p \in Publishers
  PROVE  Committed(p) \in Database
BY VisibleRows DEF Committed, Database

LEMMA DoneTyped ==
  ASSUME TypeOK, NEW p \in Publishers, Done(p)
  PROVE  target' \in [Publishers -> {NoStatement} \cup (SUBSET Resources) \cup
                        (SUBSET TextIds) \cup (SUBSET {Current})]
BY DEF TypeOK, Done

LEMMA BearTyped ==
  ASSUME TypeInv, NEW p \in Publishers, NEW k \in Added(p), Bear(p, k)
  PROVE  born' \in [Publishers -> SUBSET RowIds]
<1>1. pc[p] \in {"record", "insert", "textinsert", "projinsert"}
  BY DEF Added
<1>2. <<Table(p), k>> \in RowIds
  <2>1. CASE pc[p] = "record"
    <3>1. k \in VersionIds /\ Table(p) = "vers"
      BY <2>1 DEF Added, Table, SameId
    <3> QED
      BY <3>1 DEF RowIds
  <2>2. CASE pc[p] = "insert"
    <3>1. k = Res(p) /\ Table(p) = "defs"
      BY <2>2 DEF Added, Table
    <3> QED
      BY <2>2, <3>1, CurrentDefinition DEF DefinitionSteps, RowIds
  <2>3. CASE pc[p] = "textinsert"
    <3>1. k = TextId(p) /\ Table(p) = "txts"
      BY <2>3 DEF Added, Table
    <3> QED
      BY <2>3, <3>1, CurrentText DEF TextSteps, RowIds
  <2>4. CASE pc[p] = "projinsert"
    <3>1. k = Current /\ Table(p) = "proj"
      BY <2>4 DEF Added, Table
    <3> QED
      BY <3>1 DEF RowIds
  <2> QED
    BY <1>1, <2>1, <2>2, <2>3, <2>4
<1> QED
  BY <1>2 DEF Bear, TypeInv, TypeOK

LEMMA StepTyped ==
  ASSUME TypeInv, NEW p \in Publishers, Begin(p) \/ Step(p) \/ Fail(p)
  PROVE  TypeInv'
<1>1. CASE Begin(p)
  <2>1. PICK s \in Offers[p] :
          /\ call' = [call EXCEPT ![p] = s]
          /\ pc' = [pc EXCEPT ![p] = IF s.identified THEN "disable" ELSE "refused"]
    BY <1>1 DEF Begin, Goto
  <2>2. s \in Snapshots
    BY OffersAreSnapshots
  <2>3. TypeOK'
    BY <1>1, <2>1, <2>2 DEF TypeInv, TypeOK, Begin, Statements
  <2>4. ASSUME NEW q \in Publishers PROVE InPlace(q)'
    <3>1. CASE q = p
      BY <1>1, <2>1, <2>2, <3>1
         DEF TypeInv, TypeOK, Position, InPlace, Begin, DefinitionSteps, TextSteps
    <3>2. CASE q # p
      BY <1>1, <2>1, <3>2 DEF TypeInv, TypeOK, Position, InPlace, Begin, Workspace
    <3> QED
      BY <3>1, <3>2
  <2> QED
    BY <2>3, <2>4 DEF TypeInv, Position
<1>2. CASE Wait(p)
  <2>1. Picked(p) \in (SUBSET Resources) \cup (SUBSET TextIds) \cup (SUBSET {Current})
    BY RowsTyped
  <2>2. TypeOK'
    BY <1>2, <2>1 DEF TypeInv, TypeOK, Wait
  <2>3. Position'
    BY <1>2 DEF TypeInv, Position, InPlace, Wait, Workspace
  <2> QED
    BY <2>2, <2>3 DEF TypeInv
<1>3. CASE Disable(p)
  <2>1. pc[p] = "disable"
    BY <1>3 DEF Disable
  <2>2. ASSUME NEW r \in Rows(p)
        PROVE  [Defs(p, r) EXCEPT !.disabled = TRUE] \in DefinitionRow
    BY <2>1, RowsTyped DEF DefinitionRow
  <2>3. tx' \in [Publishers -> Overlay]
    BY <1>3, <2>2, WritesTyped DEF Disable, TypeInv
  <2>4. target' \in [Publishers -> {NoStatement} \cup (SUBSET Resources) \cup
                       (SUBSET TextIds) \cup (SUBSET {Current})]
    BY <1>3, DoneTyped DEF Disable, TypeInv
  <2>5. Position' /\ pc' \in [Publishers -> Statements]
    BY <1>3, <2>1, GotoKeepsPosition
       DEF Disable, DefinitionSteps, TextSteps, Statements
  <2> QED
    BY <1>3, <2>3, <2>4, <2>5 DEF Disable, TypeInv, TypeOK
<1>4. CASE \/ RejectDefinition(p) \/ RejectVersion(p) \/ GetDefinition(p)
           \/ ReadHistory(p) \/ VersionNotInserted(p) \/ RecheckHistory(p)
           \/ LookUpText(p) \/ UniqueViolation(p) \/ Fail(p)
  <2>1. /\ UNCHANGED <<db, tx, born, call, at, ws>>
        /\ found' \in [Publishers -> BOOLEAN]
        /\ target' = target \/ Done(p)
    BY <1>4
       DEF RejectDefinition, RejectVersion, GetDefinition, ReadHistory,
           VersionNotInserted, RecheckHistory, LookUpText, UniqueViolation, Fail,
           TypeInv, TypeOK
  <2>2. target' \in [Publishers -> {NoStatement} \cup (SUBSET Resources) \cup
                       (SUBSET TextIds) \cup (SUBSET {Current})]
    BY <2>1, DoneTyped DEF TypeInv, TypeOK
  <2>3. \E step \in {"failed", "conflict", "hashes", "record", "recheck", "update",
                    "insert", "textinsert", "textupdate"} :
          /\ Goto(p, step)
          /\ step \in DefinitionSteps => pc[p] \in DefinitionSteps
          /\ step \in TextSteps => pc[p] \in TextSteps
          /\ pc[p] # "idle"
    <3>1. CASE RejectDefinition(p) \/ RejectVersion(p) \/ UniqueViolation(p) \/ Fail(p)
      BY <3>1 DEF RejectDefinition, RejectVersion, UniqueViolation, Fail,
                  DefinitionSteps, TextSteps
    <3>2. CASE GetDefinition(p)
      BY <3>2 DEF GetDefinition, DefinitionSteps, TextSteps
    <3>3. CASE ReadHistory(p) \/ RecheckHistory(p)
      BY <3>3 DEF ReadHistory, RecheckHistory, CheckHistory, DefinitionSteps, TextSteps
    <3>4. CASE VersionNotInserted(p)
      BY <3>4 DEF VersionNotInserted, DefinitionSteps, TextSteps
    <3>5. CASE LookUpText(p)
      BY <3>5 DEF LookUpText, DefinitionSteps, TextSteps
    <3> QED
      BY <1>4, <3>1, <3>2, <3>3, <3>4, <3>5
  <2>4. Position' /\ pc' \in [Publishers -> Statements]
    BY <2>1, <2>3, GotoKeepsPosition DEF Statements
  <2> QED
    BY <2>1, <2>2, <2>4 DEF TypeInv, TypeOK
<1>5. CASE SkipForeign(p)
  <2>1. pc[p] \in DefinitionSteps
    BY <1>5 DEF SkipForeign, DefinitionSteps
  <2> QED
    BY <1>5, <2>1, NextDefinitionKeepsPosition DEF SkipForeign, TypeInv, TypeOK
<1>6. CASE RecordVersion(p)
  <2>1. pc[p] = "record" /\ pc[p] \in DefinitionSteps
    BY <1>6 DEF RecordVersion, DefinitionSteps
  <2>2. tx' \in [Publishers -> Overlay]
    BY <1>6, <2>1, CurrentDefinition, WritesTyped DEF RecordVersion, TypeInv
  <2>3. born' \in [Publishers -> SUBSET RowIds]
    BY <1>6, <2>1, CurrentDefinition, BearTyped DEF RecordVersion, Added, SameId
  <2>4. Position' /\ pc' \in [Publishers -> Statements]
    BY <1>6, <2>1, GotoKeepsPosition
       DEF RecordVersion, DefinitionSteps, TextSteps, Statements
  <2> QED
    BY <1>6, <2>2, <2>3, <2>4 DEF RecordVersion, TypeInv, TypeOK
<1>7. CASE UpdateDefinition(p)
  <2>1. pc[p] \in DefinitionSteps
    BY <1>7 DEF UpdateDefinition, DefinitionSteps
  <2>2. tx' \in [Publishers -> Overlay]
    BY <1>7, <2>1, CurrentDefinition, WritesTyped DEF UpdateDefinition, TypeInv
  <2>3. target' \in [Publishers -> {NoStatement} \cup (SUBSET Resources) \cup
                       (SUBSET TextIds) \cup (SUBSET {Current})]
    BY <1>7, DoneTyped DEF UpdateDefinition, TypeInv
  <2> QED
    BY <1>7, <2>1, <2>2, <2>3, NextDefinitionKeepsPosition
       DEF UpdateDefinition, TypeInv, TypeOK
<1>8. CASE InsertDefinition(p)
  <2>1. pc[p] = "insert" /\ pc[p] \in DefinitionSteps
    BY <1>8 DEF InsertDefinition, DefinitionSteps
  <2>2. tx' \in [Publishers -> Overlay]
    BY <1>8, <2>1, CurrentDefinition, WritesTyped DEF InsertDefinition, TypeInv
  <2>3. born' \in [Publishers -> SUBSET RowIds]
    BY <1>8, <2>1, BearTyped DEF InsertDefinition, Added
  <2> QED
    BY <1>8, <2>1, <2>2, <2>3, NextDefinitionKeepsPosition
       DEF InsertDefinition, TypeInv, TypeOK
<1>9. CASE Purge(p) \/ DeleteTexts(p) \/ DeleteProjection(p)
  <2>1. \/ WriteDefs(p, [r \in Rows(p) |-> Absent])
        \/ WriteTxts(p, [r \in Rows(p) |-> Absent])
        \/ WriteProj(p, [r \in Rows(p) |-> Absent])
    BY <1>9 DEF Purge, DeleteTexts, DeleteProjection
  <2>2. tx' \in [Publishers -> Overlay]
    BY <2>1, WritesTyped DEF TypeInv
  <2>3. target' \in [Publishers -> {NoStatement} \cup (SUBSET Resources) \cup
                       (SUBSET TextIds) \cup (SUBSET {Current})]
    BY <1>9, DoneTyped DEF Purge, DeleteTexts, DeleteProjection, TypeInv
  <2>4. Position' /\ pc' \in [Publishers -> Statements]
    <3>1. CASE Purge(p) \/ DeleteProjection(p)
      BY <3>1, GotoKeepsPosition
         DEF Purge, DeleteProjection, DefinitionSteps, TextSteps, Statements
    <3>2. CASE DeleteTexts(p)
      BY <3>2, GotoKeepsPosition
         DEF DeleteTexts, DefinitionSteps, TextSteps, Statements
    <3> QED
      BY <1>9, <3>1, <3>2
  <2> QED
    BY <1>9, <2>2, <2>3, <2>4 DEF Purge, DeleteTexts, DeleteProjection, TypeInv, TypeOK
<1>10. CASE CheckTexts(p)
  <2>1. CASE TextsValid(call[p])
    BY <1>10, <2>1, NextWorkspaceKeepsPosition DEF CheckTexts, TypeInv, TypeOK
  <2>2. CASE ~TextsValid(call[p])
    <3>1. Position' /\ pc' \in [Publishers -> Statements]
      BY <1>10, <2>2, GotoKeepsPosition
         DEF CheckTexts, DefinitionSteps, TextSteps, Statements
    <3> QED
      BY <1>10, <2>2, <3>1 DEF CheckTexts, TypeInv, TypeOK
  <2> QED
    BY <2>1, <2>2
<1>11. CASE SkipForeignText(p)
  <2>1. pc[p] \in TextSteps
    BY <1>11 DEF SkipForeignText, TextSteps
  <2> QED
    BY <1>11, <2>1, NextTextKeepsPosition DEF SkipForeignText, TypeInv, TypeOK
<1>12. CASE UpdateText(p)
  <2>1. pc[p] \in TextSteps
    BY <1>12 DEF UpdateText, TextSteps
  <2>2. tx' \in [Publishers -> Overlay]
    BY <1>12, <2>1, CurrentText, WritesTyped DEF UpdateText, TypeInv
  <2>3. target' \in [Publishers -> {NoStatement} \cup (SUBSET Resources) \cup
                       (SUBSET TextIds) \cup (SUBSET {Current})]
    BY <1>12, DoneTyped DEF UpdateText, TypeInv
  <2> QED
    BY <1>12, <2>1, <2>2, <2>3, NextTextKeepsPosition DEF UpdateText, TypeInv, TypeOK
<1>13. CASE InsertText(p)
  <2>1. pc[p] = "textinsert" /\ pc[p] \in TextSteps
    BY <1>13 DEF InsertText, TextSteps
  <2>2. tx' \in [Publishers -> Overlay]
    BY <1>13, <2>1, CurrentText, WritesTyped DEF InsertText, TypeInv
  <2>3. born' \in [Publishers -> SUBSET RowIds]
    BY <1>13, <2>1, BearTyped DEF InsertText, Added
  <2> QED
    BY <1>13, <2>1, <2>2, <2>3, NextTextKeepsPosition DEF InsertText, TypeInv, TypeOK
<1>14. CASE InsertProjection(p)
  <2>1. pc[p] = "projinsert"
    BY <1>14 DEF InsertProjection
  <2>2. call[p] \in Snapshots
    BY <2>1 DEF TypeInv, Position, InPlace
  <2>3. [version |-> call[p].version, source |-> Source(p)] \in ProjectionRow
    BY <2>2, SnapshotFields DEF ProjectionRow, Source
  <2>4. tx' \in [Publishers -> Overlay]
    BY <1>14, <2>3, WritesTyped DEF InsertProjection, TypeInv
  <2>5. born' \in [Publishers -> SUBSET RowIds]
    BY <1>14, <2>1, BearTyped DEF InsertProjection, Added
  <2>6. Position' /\ pc' \in [Publishers -> Statements]
    BY <1>14, <2>1, GotoKeepsPosition
       DEF InsertProjection, DefinitionSteps, TextSteps, Statements
  <2> QED
    BY <1>14, <2>4, <2>5, <2>6 DEF InsertProjection, TypeInv, TypeOK
<1>15. CASE Commit(p)
  <2>1. End(p) /\ db' = Committed(p)
    BY <1>15 DEF Commit
  <2>2. target' \in [Publishers -> {NoStatement} \cup (SUBSET Resources) \cup
                       (SUBSET TextIds) \cup (SUBSET {Current})]
    <3>1. target' = [q \in Publishers |->
             IF target[q] = NoStatement THEN NoStatement
             ELSE {k \in target[q] : <<Table(q), k>> \notin born[p]}]
      BY <1>15 DEF Commit
    <3>2. ASSUME NEW q \in Publishers, target[q] # NoStatement
          PROVE  {k \in target[q] : <<Table(q), k>> \notin born[p]}
                   \in (SUBSET Resources) \cup (SUBSET TextIds) \cup (SUBSET {Current})
      BY <3>2 DEF TypeInv, TypeOK
    <3> QED
      BY <3>1, <3>2
  <2> QED
    BY <2>1, <2>2, EndKeepsType, CommittedTyped DEF TypeInv, TypeOK
<1>16. CASE Rollback(p)
  BY <1>16, EndKeepsType DEF Rollback, TypeInv, TypeOK
<1> QED
  BY <1>1, <1>2, <1>3, <1>4, <1>5, <1>6, <1>7, <1>8, <1>9, <1>10, <1>11, <1>12,
     <1>13, <1>14, <1>15, <1>16 DEF Step

LEMMA StutterTyped == TypeInv /\ UNCHANGED vars => TypeInv'
BY DEF TypeInv, TypeOK, Position, InPlace, Workspace, vars

THEOREM TypeInvariant == Spec => []TypeInv
<1>1. TypeInv /\ [Next]_vars => TypeInv'
  BY StepTyped, StutterTyped DEF Next
<1> QED
  BY <1>1, InitTyped, PTL DEF Spec

\* Every variable keeps its type: in particular a Sync never leaves a cell
\* without a value or a publisher without a next statement.
THEOREM TypeCorrect == Spec => []TypeOK
<1>1. TypeInv => TypeOK
  BY DEF TypeInv
<1> QED
  BY <1>1, TypeInvariant, PTL

-----------------------------------------------------------------------------
(***************************************************************************)
(* The version history.  The inductive invariant says what the unlocked    *)
(* reads of a transaction can rely on: a version row is written by one     *)
(* transaction at a time and only while it is not committed, so a hash a   *)
(* transaction has once seen recorded stays recorded for it.               *)
(***************************************************************************)
VersionLocks ==
  \A p, q \in Publishers : p # q =>
    \A v \in VersionIds : tx[p].vers[v] = Clean \/ tx[q].vers[v] = Clean

VersionsNew ==
  \A p \in Publishers : \A v \in VersionIds :
    tx[p].vers[v] # Clean => db.vers[v] = Absent /\ tx[p].vers[v] \in Hashes

Recorded(p, r, hash) == \E v \in Versions : Vers(p, <<r, v>>) = hash

WritesRecorded ==
  \A p \in Publishers : \A r \in Resources :
    tx[p].defs[r] \notin {Clean, Absent} => Recorded(p, r, tx[p].defs[r].hash)

ReadyRecorded ==
  \A p \in Publishers : pc[p] \in {"update", "insert"} =>
    Recorded(p, Res(p), Definition(p).hash)

HistoryInv ==
  /\ TypeInv
  /\ VersionLocks
  /\ VersionsNew
  /\ WritesRecorded
  /\ ReadyRecorded
  /\ CatalogHashRecorded

LEMMA HashesAreNoSentinels == Absent \notin Hashes /\ Clean \notin Hashes /\ Clean # Absent
BY AbsentIsNoRow, CleanIsNoCell

\* What a transaction reads of a definition, its hash is recorded for it.
LEMMA ViewRecorded ==
  ASSUME HistoryInv, NEW p \in Publishers, NEW r \in Resources,
         Defs(p, r) # Absent
  PROVE  Recorded(p, r, Defs(p, r).hash)
<1>1. CASE tx[p].defs[r] # Clean
  BY <1>1 DEF HistoryInv, WritesRecorded, Defs, Over
<1>2. CASE tx[p].defs[r] = Clean
  <2>1. Defs(p, r) = db.defs[r] /\ db.defs[r] # Absent
    BY <1>2 DEF Defs, Over
  <2>2. PICK v \in Versions : db.vers[<<r, v>>] = db.defs[r].hash
    BY <2>1 DEF HistoryInv, CatalogHashRecorded
  <2>3. db.defs[r].hash \in Hashes
    BY <2>1 DEF HistoryInv, TypeInv, TypeOK, Database, DefinitionRow
  <2>4. tx[p].vers[<<r, v>>] = Clean
    BY <2>2, <2>3, HashesAreNoSentinels DEF HistoryInv, VersionsNew, VersionIds
  <2> QED
    BY <2>1, <2>2, <2>4 DEF Recorded, Vers, Over
<1> QED
  BY <1>1, <1>2

(***************************************************************************)
(* What a step leaves alone.                                               *)
(***************************************************************************)
LEMMA WriteDefsFrame ==
  ASSUME TypeOK, NEW p \in Publishers, NEW new, WriteDefs(p, new)
  PROVE  /\ \A q \in Publishers : tx'[q].vers = tx[q].vers
         /\ \A q \in Publishers \ {p} : tx'[q].defs = tx[q].defs
         /\ tx'[p].defs = Put(tx[p].defs, new)
<1>1. tx \in [Publishers -> Overlay] /\ tx[p] \in Overlay
  BY DEF TypeOK
<1>2. tx' = [tx EXCEPT ![p] = [tx[p] EXCEPT !.defs = Put(tx[p].defs, new)]]
  BY <1>1 DEF WriteDefs
<1>3. /\ [tx[p] EXCEPT !.defs = Put(tx[p].defs, new)].vers = tx[p].vers
      /\ [tx[p] EXCEPT !.defs = Put(tx[p].defs, new)].defs = Put(tx[p].defs, new)
  BY <1>1 DEF Overlay
<1> QED
  BY <1>1, <1>2, <1>3

LEMMA WriteVersFrame ==
  ASSUME TypeOK, NEW p \in Publishers, NEW new, WriteVers(p, new)
  PROVE  /\ \A q \in Publishers : tx'[q].defs = tx[q].defs
         /\ \A q \in Publishers \ {p} : tx'[q].vers = tx[q].vers
         /\ tx'[p].vers = Put(tx[p].vers, new)
<1>1. tx \in [Publishers -> Overlay] /\ tx[p] \in Overlay
  BY DEF TypeOK
<1>2. tx' = [tx EXCEPT ![p] = [tx[p] EXCEPT !.vers = Put(tx[p].vers, new)]]
  BY <1>1 DEF WriteVers
<1>3. /\ [tx[p] EXCEPT !.vers = Put(tx[p].vers, new)].defs = tx[p].defs
      /\ [tx[p] EXCEPT !.vers = Put(tx[p].vers, new)].vers = Put(tx[p].vers, new)
  BY <1>1 DEF Overlay
<1> QED
  BY <1>1, <1>2, <1>3

LEMMA OtherWritesFrame ==
  ASSUME TypeOK, NEW p \in Publishers, NEW new,
         WriteTxts(p, new) \/ WriteProj(p, new)
  PROVE  \A q \in Publishers :
           tx'[q].vers = tx[q].vers /\ tx'[q].defs = tx[q].defs
<1>1. tx \in [Publishers -> Overlay] /\ tx[p] \in Overlay
  BY DEF TypeOK
<1>2. CASE WriteTxts(p, new)
  <2>1. tx' = [tx EXCEPT ![p] = [tx[p] EXCEPT !.txts = Put(tx[p].txts, new)]]
    BY <1>1, <1>2 DEF WriteTxts
  <2>2. /\ [tx[p] EXCEPT !.txts = Put(tx[p].txts, new)].defs = tx[p].defs
        /\ [tx[p] EXCEPT !.txts = Put(tx[p].txts, new)].vers = tx[p].vers
    BY <1>1 DEF Overlay
  <2> QED
    BY <1>1, <2>1, <2>2
<1>3. CASE WriteProj(p, new)
  <2>1. tx' = [tx EXCEPT ![p] = [tx[p] EXCEPT !.proj = Put(tx[p].proj, new)]]
    BY <1>1, <1>3 DEF WriteProj
  <2>2. /\ [tx[p] EXCEPT !.proj = Put(tx[p].proj, new)].defs = tx[p].defs
        /\ [tx[p] EXCEPT !.proj = Put(tx[p].proj, new)].vers = tx[p].vers
    BY <1>1 DEF Overlay
  <2> QED
    BY <1>1, <2>1, <2>2
<1> QED
  BY <1>2, <1>3

LEMMA TextMovesFrame ==
  ASSUME NEW p \in Publishers, NEW q \in Publishers \ {p}, TypeOK
  PROVE  /\ NextDefinition(p) => pc'[q] = pc[q] /\ at'[q] = at[q]
         /\ NextWorkspace(p) => pc'[q] = pc[q] /\ at'[q] = at[q]
         /\ NextText(p) => pc'[q] = pc[q] /\ at'[q] = at[q]
<1>1. NextDefinition(p) => pc'[q] = pc[q] /\ at'[q] = at[q]
  BY DEF TypeOK, NextDefinition, Goto
<1>2. NextWorkspace(p) => pc'[q] = pc[q] /\ at'[q] = at[q]
  BY DEF TypeOK, NextWorkspace, Goto
<1>3. NextText(p) => pc'[q] = pc[q] /\ at'[q] = at[q]
  BY <1>2 DEF TypeOK, NextText, Goto
<1> QED
  BY <1>1, <1>2, <1>3

LEMMA OthersStay ==
  ASSUME TypeOK, NEW p \in Publishers, Begin(p) \/ Step(p) \/ Fail(p),
         NEW q \in Publishers \ {p}
  PROVE  pc'[q] = pc[q] /\ call'[q] = call[q] /\ at'[q] = at[q]
<1> USE DEF TypeOK, Goto
<1>1. CASE Begin(p) \/ Fail(p) \/ Wait(p) \/ Disable(p)
  BY <1>1 DEF Begin, Fail, Wait, Disable
<1>2. CASE \/ RejectDefinition(p) \/ RejectVersion(p) \/ GetDefinition(p)
           \/ ReadHistory(p) \/ RecordVersion(p) \/ VersionNotInserted(p)
           \/ RecheckHistory(p)
  BY <1>2 DEF RejectDefinition, RejectVersion, GetDefinition, ReadHistory,
              RecordVersion, VersionNotInserted, RecheckHistory, CheckHistory
<1>3. CASE SkipForeign(p) \/ UpdateDefinition(p) \/ InsertDefinition(p)
  BY <1>3, TextMovesFrame DEF SkipForeign, UpdateDefinition, InsertDefinition
<1>4. CASE CheckTexts(p) \/ SkipForeignText(p) \/ UpdateText(p) \/ InsertText(p)
  BY <1>4, TextMovesFrame DEF CheckTexts, SkipForeignText, UpdateText, InsertText
<1>5. CASE \/ Purge(p) \/ DeleteTexts(p) \/ LookUpText(p) \/ DeleteProjection(p)
           \/ InsertProjection(p) \/ UniqueViolation(p)
  BY <1>5 DEF Purge, DeleteTexts, LookUpText, DeleteProjection, InsertProjection,
              UniqueViolation
<1>6. CASE Commit(p) \/ Rollback(p)
  BY <1>6 DEF Commit, Rollback, End
<1> QED
  BY <1>1, <1>2, <1>3, <1>4, <1>5, <1>6 DEF Step

LEMMA OthersReady ==
  ASSUME HistoryInv, NEW p \in Publishers, Begin(p) \/ Step(p) \/ Fail(p),
         NEW q \in Publishers \ {p}, pc'[q] \in {"update", "insert"}
  PROVE  /\ Recorded(q, Res(q), Definition(q).hash)
         /\ Res(q)' = Res(q)
         /\ Definition(q)' = Definition(q)
<1>1. pc'[q] = pc[q] /\ call'[q] = call[q] /\ at'[q] = at[q]
  BY OthersStay DEF HistoryInv, TypeInv
<1> QED
  BY <1>1 DEF HistoryInv, ReadyRecorded, Res, Definition

(***************************************************************************)
(* The steps, by what they do to definitions and versions: nothing, write  *)
(* definition rows, record a version, commit, or give up.                  *)
(***************************************************************************)
LEMMA QuietStep ==
  ASSUME HistoryInv, NEW p \in Publishers, Begin(p) \/ Step(p) \/ Fail(p),
         db' = db,
         \A q \in Publishers : tx'[q].vers = tx[q].vers /\ tx'[q].defs = tx[q].defs,
         pc'[p] \in {"update", "insert"} =>
           /\ Recorded(p, Res(p), Definition(p).hash)
           /\ call'[p] = call[p] /\ at'[p] = at[p]
  PROVE  HistoryInv'
<1> USE DEF HistoryInv
<1>1. TypeInv'
  BY StepTyped
<1>2. \A q \in Publishers : \A r, h : Recorded(q, r, h) => Recorded(q, r, h)'
  BY DEF Recorded, Vers, Over
<1>3. VersionLocks' /\ VersionsNew' /\ CatalogHashRecorded'
  BY DEF VersionLocks, VersionsNew, CatalogHashRecorded
<1>4. WritesRecorded'
  BY <1>2 DEF WritesRecorded
<1>5. ASSUME NEW q \in Publishers, pc'[q] \in {"update", "insert"}
      PROVE  Recorded(q, Res(q), Definition(q).hash)'
  <2>1. CASE q = p
    <3>1. Res(p)' = Res(p) /\ Definition(p)' = Definition(p)
      BY <1>5, <2>1 DEF Res, Definition
    <3> QED
      BY <1>2, <1>5, <2>1, <3>1
  <2>2. CASE q # p
    BY <1>2, <1>5, <2>2, OthersReady
  <2> QED
    BY <2>1, <2>2
<1> QED
  BY <1>1, <1>3, <1>4, <1>5 DEF ReadyRecorded

LEMMA DefsStep ==
  ASSUME HistoryInv, NEW p \in Publishers, Begin(p) \/ Step(p) \/ Fail(p),
         db' = db, NEW new, WriteDefs(p, new),
         \A r \in DOMAIN new : new[r] # Absent => Recorded(p, r, new[r].hash),
         pc'[p] \notin {"update", "insert"}
  PROVE  HistoryInv'
<1> USE DEF HistoryInv
<1>1. TypeInv'
  BY StepTyped
<1>2. TypeOK
  BY DEF TypeInv
<1>3. /\ \A q \in Publishers : tx'[q].vers = tx[q].vers
      /\ \A q \in Publishers \ {p} : tx'[q].defs = tx[q].defs
      /\ tx'[p].defs = Put(tx[p].defs, new)
  BY <1>2, WriteDefsFrame
<1>4. \A q \in Publishers : \A r, h : Recorded(q, r, h) => Recorded(q, r, h)'
  BY <1>3 DEF Recorded, Vers, Over
<1>5. VersionLocks' /\ VersionsNew' /\ CatalogHashRecorded'
  BY <1>3 DEF VersionLocks, VersionsNew, CatalogHashRecorded
<1>6. ASSUME NEW q \in Publishers, NEW r \in Resources,
             tx'[q].defs[r] \notin {Clean, Absent}
      PROVE  Recorded(q, r, tx[q].defs[r].hash)'
  <2>1. CASE q = p /\ r \in DOMAIN new
    <3>1. DOMAIN tx[p].defs = Resources
      BY <1>2 DEF TypeOK, Overlay
    <3>2. tx'[p].defs[r] = new[r]
      BY <1>3, <2>1, <3>1 DEF Put
    <3> QED
      BY <1>4, <1>6, <2>1, <3>2
  <2>2. CASE q = p /\ r \notin DOMAIN new
    <3>1. DOMAIN tx[p].defs = Resources
      BY <1>2 DEF TypeOK, Overlay
    <3>2. tx'[p].defs[r] = tx[p].defs[r]
      BY <1>3, <2>2, <3>1 DEF Put
    <3> QED
      BY <1>4, <1>6, <2>2, <3>2 DEF WritesRecorded
  <2>3. CASE q # p
    BY <1>3, <1>4, <1>6, <2>3 DEF WritesRecorded
  <2> QED
    BY <2>1, <2>2, <2>3
<1>7. ASSUME NEW q \in Publishers, pc'[q] \in {"update", "insert"}
      PROVE  Recorded(q, Res(q), Definition(q).hash)'
  BY <1>4, <1>7, OthersReady
<1> QED
  BY <1>1, <1>5, <1>6, <1>7 DEF WritesRecorded, ReadyRecorded

LEMMA RecordStep ==
  ASSUME HistoryInv, NEW p \in Publishers, RecordVersion(p)
  PROVE  HistoryInv'
<1> USE DEF HistoryInv
<1> DEFINE id == VersionId(p)
           hash == Definition(p).hash
<1>1. /\ pc[p] = "record" /\ Unlocked(p)
      /\ IdFree(p)
      /\ WriteVers(p, [v \in {id} |-> hash])
      /\ db' = db /\ call' = call /\ at' = at
  BY DEF RecordVersion
<1>2. /\ TypeInv' /\ TypeOK
      /\ Res(p) \in Resources /\ hash \in Hashes /\ id \in SameId(id)
  BY <1>1, StepTyped, CurrentDefinition
     DEF Step, TypeInv, DefinitionSteps, SameId
<1>3. /\ id \in VersionIds
      /\ tx[p].vers[id] = Clean /\ db.vers[id] = Absent
  <2>1. id \in VersionIds /\ Vers(p, id) = Absent
    BY <1>1, <1>2 DEF IdFree, SameId
  <2> QED
    BY <2>1, <1>2, HashesAreNoSentinels DEF VersionsNew, Vers, Over
<1>4. \A q \in Publishers : tx[q].vers[id] = Clean
  <2>1. ASSUME NEW q \in Publishers, q # p PROVE tx[q].vers[id] = Clean
    <3>1. id \in Needs(p)
      BY <1>1, <1>2 DEF Needs, Added
    <3>2. Table(p) = "vers"
      BY <1>1 DEF Table
    <3> QED
      BY <1>1, <2>1, <3>1, <3>2 DEF Unlocked, Waits, Locked
  <2> QED
    BY <1>3, <2>1
<1>5. /\ \A q \in Publishers : tx'[q].defs = tx[q].defs
      /\ \A q \in Publishers \ {p} : tx'[q].vers = tx[q].vers
      /\ tx'[p].vers = Put(tx[p].vers, [v \in {id} |-> hash])
  BY <1>1, <1>2, WriteVersFrame
<1>6. \A v \in VersionIds :
        tx'[p].vers[v] = IF v = id THEN hash ELSE tx[p].vers[v]
  <2>1. DOMAIN tx[p].vers = VersionIds
    BY <1>2 DEF TypeOK, Overlay
  <2> QED
    BY <1>5, <2>1 DEF Put
<1>7. VersionLocks' /\ VersionsNew' /\ CatalogHashRecorded'
  BY <1>1, <1>2, <1>3, <1>4, <1>5, <1>6
     DEF VersionLocks, VersionsNew, CatalogHashRecorded
<1>8. ASSUME NEW q \in Publishers, NEW r \in Resources, NEW h,
             h # Absent, Recorded(q, r, h)
      PROVE  Recorded(q, r, h)'
  <2>1. PICK v \in Versions : Vers(q, <<r, v>>) = h
    BY <1>8 DEF Recorded
  <2>2. <<r, v>> \in VersionIds
    BY DEF VersionIds
  <2>3. CASE q = p /\ <<r, v>> = id
    <3>1. Vers(p, id) = Absent
      BY <1>3 DEF Vers, Over
    <3> QED
      BY <1>8, <2>1, <2>3, <3>1
  <2>4. CASE ~(q = p /\ <<r, v>> = id)
    <3>1. tx'[q].vers[<<r, v>>] = tx[q].vers[<<r, v>>]
      BY <1>5, <1>6, <2>2, <2>4
    <3> QED
      BY <1>1, <2>1, <3>1 DEF Recorded, Vers, Over
  <2> QED
    BY <2>3, <2>4
<1>9. Recorded(p, Res(p), hash)'
  <2>1. tx'[p].vers[id] = hash
    BY <1>3, <1>6
  <2>2. id = <<Res(p), call[p].version>> /\ call[p].version \in Versions
    BY <1>3 DEF VersionId, VersionIds
  <2>3. Res(p)' = Res(p) /\ Definition(p)' = Definition(p)
    BY <1>1 DEF Res, Definition
  <2> QED
    BY <1>2, <2>1, <2>2, <2>3, HashesAreNoSentinels DEF Recorded, Vers, Over
<1>10. WritesRecorded'
  <2> SUFFICES ASSUME NEW q \in Publishers, NEW r \in Resources,
                      tx[q].defs[r] \notin {Clean, Absent}
               PROVE  Recorded(q, r, tx[q].defs[r].hash)'
    BY <1>5 DEF WritesRecorded
  <2>1. tx[q].defs[r].hash # Absent
    BY <1>2, HashesAreNoSentinels DEF TypeOK, Overlay, DefinitionRow
  <2> QED
    BY <1>5, <1>8, <2>1 DEF WritesRecorded
<1>11. ReadyRecorded'
  <2> SUFFICES ASSUME NEW q \in Publishers, pc'[q] \in {"update", "insert"}
               PROVE  Recorded(q, Res(q), Definition(q).hash)'
    BY DEF ReadyRecorded
  <2>1. CASE q = p
    BY <1>1, <1>9, <2>1 DEF Definition, Res
  <2>2. CASE q # p
    <3>1. /\ Recorded(q, Res(q), Definition(q).hash)
          /\ Res(q)' = Res(q) /\ Definition(q)' = Definition(q)
      BY <2>2, OthersReady DEF Step
    <3>2. pc[q] \in DefinitionSteps
      BY <1>2, <2>2, OthersStay DEF Step, DefinitionSteps
    <3>3. Res(q) \in Resources /\ Definition(q).hash # Absent
      BY <3>2, CurrentDefinition, HashesAreNoSentinels
    <3> QED
      BY <1>8, <3>1, <3>3
  <2> QED
    BY <2>1, <2>2
<1> QED
  BY <1>2, <1>7, <1>10, <1>11

\* A transaction ends: nobody else's does, and its own writes are gone.
LEMMA EndFrame ==
  ASSUME TypeOK, NEW p \in Publishers, End(p)
  PROVE  /\ pc'[p] = "idle"
         /\ \A q \in Publishers \ {p} : tx'[q] = tx[q]
         /\ \A v \in VersionIds : tx'[p].vers[v] = Clean
         /\ \A r \in Resources : tx'[p].defs[r] = Clean
BY DEF TypeOK, End, CleanOverlay

\* A commit adds to the history, so what the others have seen recorded
\* stays recorded.
LEMMA CommitAddsVersions ==
  ASSUME HistoryInv, NEW p \in Publishers, Commit(p), NEW v \in VersionIds
  PROVE  /\ db.vers[v] # Absent => db'.vers[v] = db.vers[v]
         /\ db'.vers[v] = Vers(p, v)
<1>1. db'.vers[v] = Vers(p, v)
  BY DEF Commit, Committed
<1> QED
  BY <1>1 DEF HistoryInv, VersionsNew, Vers, Over

LEMMA CommitStep ==
  ASSUME HistoryInv, NEW p \in Publishers, Commit(p)
  PROVE  HistoryInv'
<1> USE DEF HistoryInv
<1>1. TypeInv' /\ TypeOK /\ Step(p)
  BY StepTyped DEF Step, TypeInv
<1>2. /\ pc'[p] = "idle"
      /\ \A q \in Publishers \ {p} : tx'[q] = tx[q]
      /\ \A v \in VersionIds : tx'[p].vers[v] = Clean
      /\ \A r \in Resources : tx'[p].defs[r] = Clean
  BY <1>1, EndFrame DEF Commit
<1>3. VersionLocks'
  BY <1>2 DEF VersionLocks
<1>4. VersionsNew'
  <2> SUFFICES ASSUME NEW q \in Publishers, NEW v \in VersionIds,
                      tx'[q].vers[v] # Clean
               PROVE  db'.vers[v] = Absent /\ tx'[q].vers[v] \in Hashes
    BY DEF VersionsNew
  <2>1. q # p /\ tx[q].vers[v] # Clean
    BY <1>2
  <2>2. tx[p].vers[v] = Clean
    BY <2>1 DEF VersionLocks
  <2>3. db'.vers[v] = db.vers[v]
    BY <2>2, CommitAddsVersions DEF Vers, Over
  <2> QED
    BY <1>2, <2>1, <2>3 DEF VersionsNew
<1>5. ASSUME NEW q \in Publishers, q # p, NEW r \in Resources, NEW h,
             h # Absent, Recorded(q, r, h)
      PROVE  Recorded(q, r, h)'
  <2>1. PICK v \in Versions : Vers(q, <<r, v>>) = h
    BY <1>5 DEF Recorded
  <2>2. <<r, v>> \in VersionIds
    BY DEF VersionIds
  <2>3. CASE tx[q].vers[<<r, v>>] # Clean
    BY <1>2, <1>5, <2>1, <2>3 DEF Recorded, Vers, Over
  <2>4. CASE tx[q].vers[<<r, v>>] = Clean
    <3>1. db'.vers[<<r, v>>] = h
      BY <1>5, <2>1, <2>2, <2>4, CommitAddsVersions DEF Vers, Over
    <3> QED
      BY <1>2, <1>5, <2>4, <3>1 DEF Recorded, Vers, Over
  <2> QED
    BY <2>3, <2>4
<1>6. WritesRecorded'
  <2> SUFFICES ASSUME NEW q \in Publishers, NEW r \in Resources,
                      tx'[q].defs[r] \notin {Clean, Absent}
               PROVE  Recorded(q, r, tx[q].defs[r].hash)' /\ q # p
    BY <1>2 DEF WritesRecorded
  <2>1. q # p /\ tx'[q] = tx[q]
    BY <1>2
  <2>2. tx[q].defs[r].hash # Absent
    BY <1>1, <2>1, HashesAreNoSentinels DEF TypeOK, Overlay, DefinitionRow
  <2>3. Recorded(q, r, tx[q].defs[r].hash)
    BY <2>1 DEF WritesRecorded
  <2> QED
    BY <1>5, <2>1, <2>2, <2>3
<1>7. ReadyRecorded'
  <2> SUFFICES ASSUME NEW q \in Publishers, pc'[q] \in {"update", "insert"}
               PROVE  Recorded(q, Res(q), Definition(q).hash)'
    BY DEF ReadyRecorded
  <2>1. q # p
    BY <1>2
  <2>2. /\ Recorded(q, Res(q), Definition(q).hash)
        /\ Res(q)' = Res(q) /\ Definition(q)' = Definition(q)
    BY <1>1, <2>1, OthersReady
  <2>3. pc[q] \in DefinitionSteps
    BY <1>1, <2>1, OthersStay DEF DefinitionSteps
  <2>4. Res(q) \in Resources /\ Definition(q).hash # Absent
    BY <2>3, CurrentDefinition, HashesAreNoSentinels
  <2> QED
    BY <1>5, <2>1, <2>2, <2>4
<1>8. CatalogHashRecorded'
  <2> SUFFICES ASSUME NEW r \in Resources, db'.defs[r] # Absent
               PROVE  \E v \in Versions : db'.vers[<<r, v>>] = db'.defs[r].hash
    BY DEF CatalogHashRecorded
  <2>1. db'.defs[r] = Defs(p, r)
    BY DEF Commit, Committed
  <2>2. PICK v \in Versions : Vers(p, <<r, v>>) = Defs(p, r).hash
    BY <2>1, ViewRecorded DEF Recorded
  <2>3. db'.vers[<<r, v>>] = Vers(p, <<r, v>>)
    BY CommitAddsVersions DEF VersionIds
  <2> QED
    BY <2>1, <2>2, <2>3
<1> QED
  BY <1>1, <1>3, <1>4, <1>6, <1>7, <1>8

LEMMA RollbackStep ==
  ASSUME HistoryInv, NEW p \in Publishers, Rollback(p)
  PROVE  HistoryInv'
<1> USE DEF HistoryInv
<1>1. TypeInv' /\ TypeOK /\ Step(p)
  BY StepTyped DEF Step, TypeInv
<1>2. /\ pc'[p] = "idle"
      /\ \A q \in Publishers \ {p} : tx'[q] = tx[q]
      /\ \A v \in VersionIds : tx'[p].vers[v] = Clean
      /\ \A r \in Resources : tx'[p].defs[r] = Clean
      /\ db' = db
  BY <1>1, EndFrame DEF Rollback
<1>3. VersionLocks' /\ VersionsNew' /\ CatalogHashRecorded'
  BY <1>2 DEF VersionLocks, VersionsNew, CatalogHashRecorded
<1>4. \A q \in Publishers \ {p} : \A r, h : Recorded(q, r, h) => Recorded(q, r, h)'
  BY <1>2 DEF Recorded, Vers, Over
<1>5. WritesRecorded'
  BY <1>2, <1>4 DEF WritesRecorded
<1>6. ASSUME NEW q \in Publishers, pc'[q] \in {"update", "insert"}
      PROVE  Recorded(q, Res(q), Definition(q).hash)'
  BY <1>1, <1>2, <1>4, <1>6, OthersReady
<1> QED
  BY <1>1, <1>3, <1>5, <1>6 DEF ReadyRecorded

-----------------------------------------------------------------------------
(***************************************************************************)
(* The invariant holds, and what follows from it.                          *)
(***************************************************************************)
LEMMA InitHistory == Init => HistoryInv
<1> SUFFICES ASSUME Init PROVE HistoryInv
  OBVIOUS
<1>1. /\ \A p \in Publishers : \A v \in VersionIds : tx[p].vers[v] = Clean
      /\ \A p \in Publishers : \A r \in Resources : tx[p].defs[r] = Clean
  BY DEF Init, CleanOverlay
<1>2. \A r \in Resources : db.defs[r] = Absent
  BY DEF Init, EmptyDatabase
<1>3. VersionLocks /\ VersionsNew /\ WritesRecorded
  BY <1>1 DEF VersionLocks, VersionsNew, WritesRecorded
<1>4. ReadyRecorded
  BY DEF Init, ReadyRecorded
<1> QED
  BY <1>2, <1>3, <1>4, InitTyped DEF HistoryInv, CatalogHashRecorded

LEMMA HistoryStep ==
  ASSUME HistoryInv, NEW p \in Publishers, Begin(p) \/ Step(p) \/ Fail(p)
  PROVE  HistoryInv'
<1>1. TypeInv /\ TypeOK
  BY DEF HistoryInv, TypeInv
<1>2. CASE Begin(p) \/ Fail(p) \/ Wait(p) \/ RejectDefinition(p) \/ RejectVersion(p)
           \/ VersionNotInserted(p) \/ LookUpText(p) \/ UniqueViolation(p)
  <2>1. /\ UNCHANGED <<db, tx>>
        /\ \/ pc' = pc /\ UNCHANGED <<call, at>> /\ pc[p] \in {"update", "insert"}
           \/ pc'[p] \notin {"update", "insert"}
    BY <1>1, <1>2
       DEF TypeOK, Goto, Begin, Fail, Wait, RejectDefinition, RejectVersion,
           VersionNotInserted, LookUpText, UniqueViolation
  <2>2. pc'[p] \in {"update", "insert"} =>
          /\ Recorded(p, Res(p), Definition(p).hash)
          /\ call'[p] = call[p] /\ at'[p] = at[p]
    BY <2>1 DEF HistoryInv, ReadyRecorded
  <2> QED
    BY <2>1, <2>2, QuietStep
<1>3. CASE GetDefinition(p)
  <2>1. /\ UNCHANGED <<db, tx, call, at>>
        /\ pc[p] = "get" /\ pc[p] \in DefinitionSteps
        /\ pc'[p] = IF NeedsVersion(p, Defs(p, Res(p))) THEN "hashes" ELSE "update"
    BY <1>1, <1>3 DEF GetDefinition, Goto, DefinitionSteps, TypeOK
  <2>2. Res(p) \in Resources
    BY <1>1, <2>1, CurrentDefinition
  <2>3. pc'[p] \in {"update", "insert"} => Recorded(p, Res(p), Definition(p).hash)
    BY <2>1, <2>2, ViewRecorded DEF NeedsVersion
  <2> QED
    BY <1>3, <2>1, <2>3, QuietStep DEF Step
<1>4. CASE ReadHistory(p) \/ RecheckHistory(p)
  <2>1. /\ UNCHANGED <<db, tx, call, at>>
        /\ pc[p] \in DefinitionSteps
        /\ pc'[p] \in {"update", "insert"} => Vers(p, VersionId(p)) = Definition(p).hash
    BY <1>1, <1>4 DEF ReadHistory, RecheckHistory, CheckHistory, Goto,
                      DefinitionSteps, TypeOK
  <2>2. VersionId(p) = <<Res(p), call[p].version>> /\ call[p].version \in Versions
    BY <1>1, <2>1, CurrentDefinition, SnapshotFields DEF VersionId
  <2>3. pc'[p] \in {"update", "insert"} => Recorded(p, Res(p), Definition(p).hash)
    BY <2>1, <2>2 DEF Recorded
  <2> QED
    BY <1>4, <2>1, <2>3, QuietStep DEF Step
<1>5. CASE RecordVersion(p)
  BY <1>5, RecordStep
<1>6. CASE SkipForeign(p) \/ CheckTexts(p) \/ SkipForeignText(p)
  <2>1. UNCHANGED <<db, tx>> /\ pc'[p] \notin {"update", "insert"}
    BY <1>1, <1>6
       DEF TypeOK, SkipForeign, CheckTexts, SkipForeignText, NextDefinition,
           NextText, NextWorkspace, Goto
  <2> QED
    BY <1>6, <2>1, QuietStep DEF Step
<1>7. CASE DeleteTexts(p) \/ UpdateText(p) \/ InsertText(p) \/ DeleteProjection(p)
           \/ InsertProjection(p)
  <2>1. db' = db /\ pc'[p] \notin {"update", "insert"}
    BY <1>1, <1>7
       DEF TypeOK, DeleteTexts, UpdateText, InsertText, DeleteProjection,
           InsertProjection, NextText, NextWorkspace, Goto
  <2>2. \E new : WriteTxts(p, new) \/ WriteProj(p, new)
    BY <1>7 DEF DeleteTexts, UpdateText, InsertText, DeleteProjection,
                InsertProjection
  <2>3. \A q \in Publishers : tx'[q].vers = tx[q].vers /\ tx'[q].defs = tx[q].defs
    BY <1>1, <2>2, OtherWritesFrame
  <2> QED
    BY <1>7, <2>1, <2>3, QuietStep DEF Step
<1>8. CASE Disable(p)
  <2> DEFINE new == [r \in Rows(p) |-> [Defs(p, r) EXCEPT !.disabled = TRUE]]
  <2>1. /\ pc[p] = "disable" /\ db' = db /\ WriteDefs(p, new)
        /\ pc'[p] \notin {"update", "insert"}
    BY <1>1, <1>8 DEF TypeOK, Disable, Goto
  <2>2. ASSUME NEW r \in DOMAIN new PROVE Recorded(p, r, new[r].hash)
    <3>1. r \in Resources /\ Defs(p, r) \in DefinitionRow
      BY <1>1, <2>1, RowsTyped
    <3>2. new[r].hash = Defs(p, r).hash /\ Defs(p, r) # Absent
      BY <3>1, AbsentIsNoRow DEF DefinitionRow
    <3> QED
      BY <3>1, <3>2, ViewRecorded
  <2> QED
    BY <1>8, <2>1, <2>2, DefsStep DEF Step
<1>9. CASE UpdateDefinition(p)
  <2> DEFINE new == [r \in Rows(p) |-> PublishedRow(call[p], Definition(p))]
  <2>1. /\ pc[p] = "update" /\ db' = db /\ WriteDefs(p, new)
        /\ pc'[p] \notin {"update", "insert"}
    BY <1>1, <1>9 DEF TypeOK, UpdateDefinition, NextDefinition, Goto
  <2>2. ASSUME NEW r \in DOMAIN new PROVE Recorded(p, r, new[r].hash)
    <3>1. r = Res(p)
      BY <1>1, <2>1, RowsTyped DEF Picked
    <3> QED
      BY <2>1, <3>1 DEF PublishedRow, HistoryInv, ReadyRecorded
  <2> QED
    BY <1>9, <2>1, <2>2, DefsStep DEF Step
<1>10. CASE InsertDefinition(p)
  <2> DEFINE new == [r \in {Res(p)} |-> PublishedRow(call[p], Definition(p))]
  <2>1. /\ pc[p] = "insert" /\ db' = db /\ WriteDefs(p, new)
        /\ pc'[p] \notin {"update", "insert"}
    BY <1>1, <1>10 DEF TypeOK, InsertDefinition, NextDefinition, Goto
  <2>2. ASSUME NEW r \in DOMAIN new PROVE Recorded(p, r, new[r].hash)
    BY <2>1 DEF PublishedRow, HistoryInv, ReadyRecorded
  <2> QED
    BY <1>10, <2>1, <2>2, DefsStep DEF Step
<1>11. CASE Purge(p)
  <2> DEFINE new == [r \in Rows(p) |-> Absent]
  <2>1. db' = db /\ WriteDefs(p, new) /\ pc'[p] \notin {"update", "insert"}
    BY <1>1, <1>11 DEF TypeOK, Purge, Goto
  <2> QED
    BY <1>11, <2>1, DefsStep DEF Step
<1>12. CASE Commit(p)
  BY <1>12, CommitStep
<1>13. CASE Rollback(p)
  BY <1>13, RollbackStep
<1> QED
  BY <1>2, <1>3, <1>4, <1>5, <1>6, <1>7, <1>8, <1>9, <1>10, <1>11, <1>12, <1>13
     DEF Step

LEMMA StutterHistory == HistoryInv /\ UNCHANGED vars => HistoryInv'
<1> SUFFICES ASSUME HistoryInv, UNCHANGED vars PROVE HistoryInv'
  OBVIOUS
<1>1. TypeInv'
  BY StutterTyped DEF HistoryInv
<1> QED
  BY <1>1 DEF HistoryInv, VersionLocks, VersionsNew, WritesRecorded, ReadyRecorded,
              CatalogHashRecorded, Recorded, Vers, Over, Res, Definition, vars

THEOREM HistoryInvariant == Spec => []HistoryInv
<1>1. HistoryInv /\ [Next]_vars => HistoryInv'
  BY HistoryStep, StutterHistory DEF Next
<1> QED
  BY <1>1, InitHistory, PTL DEF Spec

\* Whatever Sync calls interleave, on either engine, the content of every
\* published definition can be found in its version history.
THEOREM PublishedHashRecorded == Spec => []CatalogHashRecorded
<1>1. HistoryInv => CatalogHashRecorded
  BY DEF HistoryInv
<1> QED
  BY <1>1, HistoryInvariant, PTL

\* No step of any publisher changes or removes a recorded version: only a
\* commit changes the history, and it adds versions that had no record.
THEOREM RecordedVersionsImmutable == Spec => HistoryImmutable
<1>1. ASSUME HistoryInv, [Next]_vars, NEW v \in VersionIds, db.vers[v] # Absent
      PROVE  db'.vers[v] = db.vers[v]
  <2>1. CASE UNCHANGED vars
    BY <2>1 DEF vars
  <2>2. ASSUME NEW p \in Publishers, Commit(p)
        PROVE  db'.vers[v] = db.vers[v]
    BY <1>1, <2>2, CommitAddsVersions
  <2>3. ASSUME NEW p \in Publishers, Begin(p) \/ Step(p) \/ Fail(p), ~Commit(p)
        PROVE  db' = db
    BY <2>3
       DEF Begin, Fail, Step, Wait, Disable, RejectDefinition, SkipForeign,
           RejectVersion, GetDefinition, ReadHistory, RecordVersion,
           VersionNotInserted, RecheckHistory, UpdateDefinition, InsertDefinition,
           Purge, CheckTexts, DeleteTexts, SkipForeignText, LookUpText,
           UpdateText, InsertText, DeleteProjection, InsertProjection,
           UniqueViolation, Rollback
  <2> QED
    BY <1>1, <2>1, <2>2, <2>3 DEF Next
<1>2. HistoryInv /\ [Next]_vars =>
        [\A v \in VersionIds : db.vers[v] # Absent => db'.vers[v] = db.vers[v]]_vars
  BY <1>1
<1> QED
  BY <1>2, HistoryInvariant, PTL DEF Spec, HistoryImmutable

=============================================================================
