------------------------- MODULE SyncRefinementProofs -------------------------
(***************************************************************************)
(* The proof that on an engine with one writer SyncProjection implements   *)
(* ProjectionCatalog: a commit is a publication of a snapshot the catalog  *)
(* accepts, and every other step changes nothing committed.                *)
(*                                                                         *)
(* The invariant says of a publisher at work how far it has come to the    *)
(* tables the catalog defines for its snapshot: the definitions it has     *)
(* placed, the versions it has checked or recorded, the workspaces whose   *)
(* texts it has written.  The committed tables are meanwhile those it      *)
(* started from, because nobody else can write.                            *)
(***************************************************************************)
EXTENDS SyncOwnershipProofs

(***************************************************************************)
(* The definitions.  Of those placed the row is in the catalog, of those   *)
(* checked the version is in the history.                                  *)
(***************************************************************************)
Placed(p) == {i \in DOMAIN call[p].defs : pc[p] \in DefinitionSteps => i < at[p]}

Checked(p) ==
  {i \in DOMAIN call[p].defs :
     pc[p] \in DefinitionSteps =>
       i < at[p] \/ (i = at[p] /\ pc[p] \in {"update", "insert"})}

Claims(p, r) == Catalog!Claimable(db, call[p], r)

\* The definition is of a resource of the source's, and new to it.
Changes(p, e) == Claims(p, e.res) /\ Catalog!ChangesContent(db, e)

DefinitionsAccepted(p) ==
  \A i \in Checked(p) :
    LET e == call[p].defs[i] IN
    /\ e.valid
    /\ Claims(p, e.res) =>
         /\ Catalog!Compatible(db, call[p], e)
         /\ \A j \in Checked(p) :
              call[p].defs[j].res = e.res => call[p].defs[j].hash = e.hash

HistoryKept(p) ==
  /\ \A i \in Checked(p) :
       LET e == call[p].defs[i] IN
       Changes(p, e) => Vers(p, <<e.res, call[p].version>>) = e.hash
  /\ \A v \in VersionIds :
       (\A i \in Checked(p) :
          LET e == call[p].defs[i] IN
          Changes(p, e) => v # <<e.res, call[p].version>>)
       => Vers(p, v) = db.vers[v]

\* What the source's other rows are: disabled, then gone.
NotPlaced(p, row) ==
  IF row = Absent \/ pc[p] \in PurgedSteps THEN Absent
  ELSE [row EXCEPT !.disabled = TRUE]

RowsPlaced(p) ==
  \A r \in Resources : Claims(p, r) =>
    /\ \A i \in Placed(p) : call[p].defs[i].res = r =>
         Defs(p, r) = PublishedRow(call[p], call[p].defs[i])
    /\ (\A i \in Placed(p) : call[p].defs[i].res # r) =>
         Defs(p, r) = NotPlaced(p, db.defs[r])

\* The definition at hand, once it is looked up.
LookedAt(p) ==
  /\ pc[p] \in DefinitionSteps \ {"get"} =>
       Definition(p).valid /\ Claims(p, Res(p))
  /\ pc[p] \in {"hashes", "record", "recheck"} =>
       /\ \A i \in Placed(p) : call[p].defs[i].res # Res(p)
       /\ Catalog!ChangesContent(db, Definition(p))
       /\ db.defs[Res(p)] # Absent => db.defs[Res(p)].version # call[p].version

(***************************************************************************)
(* The texts.  Of a text given more than once, the last one so far counts. *)
(***************************************************************************)
GivenBy(p, id) ==
  {i \in Catalog!Given(call[p], id) :
     pc[p] \in TextSteps /\ id[1] = Workspace(p) => i < at[p]}

LastGiven(p, id, row) ==
  \E i \in GivenBy(p, id) :
    /\ \A j \in GivenBy(p, id) : j <= i
    /\ row = [text |-> call[p].texts[id[1]][i].text, source |-> Source(p)]

Spoken(p, id) == \E j \in DoneWith(p) : WorkspaceOrder[j] = id[1]

TextsPlaced(p) ==
  \A id \in TextIds :
    /\ call[p].texts[id[1]] = <<>> => tx[p].txts[id] = Clean
    /\ call[p].texts[id[1]] # <<>> /\ Spoken(p, id) /\ ~Foreign(p, db.txts[id]) =>
         \/ GivenBy(p, id) = {} /\ Txts(p, id) = Absent
         \/ LastGiven(p, id, Txts(p, id))

TextsAccepted(p) ==
  pc[p] \in PurgedSteps \ {"texts"} => TextsValid(call[p])

(***************************************************************************)
(* The whole.                                                              *)
(***************************************************************************)
Named(p) ==
  pc[p] = "synced" =>
    Proj(p) = [version |-> call[p].version, source |-> Source(p)]

Identified(p) == Active(p) \/ pc[p] = "disable" => call[p].identified

Underway(p) ==
  Active(p) =>
    /\ DefinitionsAccepted(p) /\ HistoryKept(p) /\ RowsPlaced(p) /\ LookedAt(p)
    /\ TextsAccepted(p) /\ TextsPlaced(p)
    /\ Named(p)

SerialInv ==
  ShownInv /\ \A p \in Publishers : Identified(p) /\ Underway(p)

-----------------------------------------------------------------------------
(***************************************************************************)
(* What nobody disturbs.                                                   *)
(***************************************************************************)
LEMMA NobodyElseCommits ==
  ASSUME TypeInv, OneWriter, Isolation = "serial", NEW p \in Publishers,
         Begin(p) \/ Step(p) \/ Fail(p), NEW q \in Publishers \ {p}, Active(q)
  PROVE  db' = db
<1>1. ~Commit(p)
  BY DEF Commit, OneWriter, Active
<1> QED
  BY <1>1, OnlyCommitPublishes

\* What is said of a publisher depends on its own state and the tables.
Stands(p) ==
  /\ db' = db /\ tx'[p] = tx[p] /\ pc'[p] = pc[p]
  /\ call'[p] = call[p] /\ at'[p] = at[p] /\ ws'[p] = ws[p]

LEMMA ClaimsStand ==
  ASSUME NEW p, db' = db, call'[p] = call[p]
  PROVE  /\ \A r : Claims(p, r)' <=> Claims(p, r)
         /\ \A e : Changes(p, e)' <=> Changes(p, e)
BY DEF Claims, Changes, Catalog!Claimable, Catalog!ChangesContent

LEMMA DefinitionsStand ==
  ASSUME NEW p, Stands(p)
  PROVE  /\ DefinitionsAccepted(p) => DefinitionsAccepted(p)'
         /\ HistoryKept(p) => HistoryKept(p)'
         /\ RowsPlaced(p) => RowsPlaced(p)'
         /\ LookedAt(p) => LookedAt(p)'
<1> USE DEF Stands
<1>1. Placed(p)' = Placed(p) /\ Checked(p)' = Checked(p)
  BY DEF Placed, Checked
<1>2. /\ \A r : Claims(p, r)' <=> Claims(p, r)
      /\ \A e : Changes(p, e)' <=> Changes(p, e)
  BY ClaimsStand
<1>3. /\ \A r : Defs(p, r)' = Defs(p, r)
      /\ \A v : Vers(p, v)' = Vers(p, v)
      /\ Definition(p)' = Definition(p) /\ Res(p)' = Res(p)
  BY DEF Defs, Vers, Over, Definition, Res
<1>4. DefinitionsAccepted(p) => DefinitionsAccepted(p)'
  BY <1>1, <1>2 DEF DefinitionsAccepted, Catalog!Compatible,
                    Catalog!ChangesContent, Catalog!Recordable
<1>5. HistoryKept(p) => HistoryKept(p)'
  BY <1>1, <1>2, <1>3 DEF HistoryKept
<1>6. RowsPlaced(p) => RowsPlaced(p)'
  BY <1>1, <1>2, <1>3 DEF RowsPlaced, NotPlaced
<1>7. LookedAt(p) => LookedAt(p)'
  BY <1>1, <1>2, <1>3 DEF LookedAt, Catalog!ChangesContent
<1> QED
  BY <1>4, <1>5, <1>6, <1>7

LEMMA TextsStand ==
  ASSUME NEW p, Stands(p)
  PROVE  /\ TextsAccepted(p) => TextsAccepted(p)'
         /\ TextsPlaced(p) => TextsPlaced(p)'
         /\ Named(p) => Named(p)'
         /\ Identified(p) => Identified(p)'
<1> USE DEF Stands
<1>1. DoneWith(p)' = DoneWith(p) /\ Workspace(p)' = Workspace(p)
  BY DEF DoneWith, Workspace
<1>2. /\ \A id : GivenBy(p, id)' = GivenBy(p, id)
      /\ \A id : Txts(p, id)' = Txts(p, id)
      /\ Source(p)' = Source(p) /\ Proj(p)' = Proj(p)
  BY <1>1 DEF GivenBy, Catalog!Given, Txts, Proj, Over, Source
<1>3. \A id : /\ Spoken(p, id)' <=> Spoken(p, id)
              /\ Foreign(p, db.txts[id])' <=> Foreign(p, db.txts[id])
              /\ LastGiven(p, id, Txts(p, id))' <=> LastGiven(p, id, Txts(p, id))
  BY <1>1, <1>2 DEF Spoken, Foreign, LastGiven
<1>4. TextsPlaced(p) => TextsPlaced(p)'
  BY <1>2, <1>3 DEF TextsPlaced
<1>5. Named(p) => Named(p)'
  BY <1>2 DEF Named
<1> QED
  BY <1>4, <1>5 DEF TextsAccepted, Identified, Active

LEMMA StandsUnderway ==
  ASSUME NEW p, Stands(p), Identified(p), Underway(p)
  PROVE  Identified(p)' /\ Underway(p)'
<1>1. Active(p)' => Active(p)
  BY DEF Stands, Active
<1> QED
  BY <1>1, DefinitionsStand, TextsStand DEF Underway

LEMMA OthersUnderway ==
  ASSUME SerialInv, Isolation = "serial", NEW p \in Publishers,
         Begin(p) \/ Step(p) \/ Fail(p), NEW q \in Publishers \ {p}
  PROVE  Identified(q)' /\ Underway(q)'
<1> USE DEF SerialInv, ShownInv, OwnInv, LockInv
<1>1. /\ tx'[q] = tx[q] /\ pc'[q] = pc[q] /\ call'[q] = call[q]
      /\ at'[q] = at[q] /\ ws'[q] = ws[q]
  BY OthersKeep, OthersStand DEF TypeInv
<1>2. CASE Active(q)
  <2>1. Stands(q)
    BY <1>1, <1>2, NobodyElseCommits DEF Stands
  <2> QED
    BY <2>1, StandsUnderway
<1>3. CASE ~Active(q)
  <2>1. ~Active(q)'
    BY <1>1, <1>3 DEF Active
  <2> QED
    BY <1>1, <2>1 DEF Underway, Identified, Active
<1> QED
  BY <1>2, <1>3

\* With one writer every statement writes the rows it picks, at once.
LEMMA RowsPicked ==
  ASSUME OneWriter, Isolation = "serial", NEW p \in Publishers
  PROVE  Rows(p) = Picked(p)
BY DEF OneWriter, Rows

\* A row is another source's in the committed tables if it is for the
\* transaction: it wrote no row of another source.
LEMMA ClaimsVisible ==
  ASSUME OwnRows, NEW p \in Publishers
  PROVE  /\ \A r \in Resources : Claims(p, r) <=> ~Foreign(p, Defs(p, r))
         /\ \A id \in TextIds :
              Foreign(p, db.txts[id]) <=> Foreign(p, Txts(p, id))
<1>1. ASSUME NEW r \in Resources
      PROVE  Claims(p, r) <=> ~Foreign(p, Defs(p, r))
  BY DEF OwnRows, Writes, Claims, Catalog!Claimable, Foreign, Defs, Over, Source
<1>2. ASSUME NEW id \in TextIds
      PROVE  Foreign(p, db.txts[id]) <=> Foreign(p, Txts(p, id))
  BY DEF OwnRows, Writes, Foreign, Txts, Over, Source
<1> QED
  BY <1>1, <1>2

-----------------------------------------------------------------------------
(***************************************************************************)
(* The publisher's own steps, statement by statement.                      *)
(***************************************************************************)
LEMMA Working ==
  ASSUME TypeInv, NEW p \in Publishers, Begin(p) \/ Step(p) \/ Fail(p), Active(p)'
  PROVE  /\ ~Begin(p) /\ ~Ending(p) /\ ~Commit(p)
         /\ call' = call /\ db' = db /\ Source(p)' = Source(p)
         /\ \A r : Claims(p, r)' <=> Claims(p, r)
         /\ \A e : Changes(p, e)' <=> Changes(p, e)
<1>1. ~Begin(p) /\ ~Ending(p) /\ ~Commit(p)
  BY Moves DEF TypeInv, Active, Ending
<1>2. call' = call /\ db' = db
  BY <1>1, CallStays, OnlyCommitPublishes DEF TypeInv
<1> QED
  BY <1>1, <1>2, ClaimsStand DEF Source

\* The first statement: nothing is placed, and of the source's rows there
\* are only disabled ones.
LEMMA DisableUnderway ==
  ASSUME SerialInv, NEW p \in Publishers, Disable(p)
  PROVE  Underway(p)'
<1> USE DEF SerialInv, ShownInv, OwnInv, LockInv
<1>1. /\ pc[p] = "disable" /\ tx[p] = CleanOverlay /\ at[p] = 1
      /\ call' = call /\ db' = db /\ at' = at
      /\ pc'[p] = IF call[p].defs = <<>> THEN "purge" ELSE "get"
  <2>1. pc[p] = "disable" /\ db' = db /\ call' = call /\ at' = at
    BY DEF Disable
  <2>2. tx[p] = CleanOverlay
    BY <2>1 DEF CleanBefore, Writing
  <2>3. at[p] = 1
    BY <2>1 DEF TypeInv, Position, InPlace
  <2> QED
    BY <2>1, <2>2, <2>3 DEF Disable, Goto, TypeInv, TypeOK
<1>2. DefsWriter(p)
  BY DEF DefsWriter
<1>3. tx'[p].vers = CleanOverlay.vers /\ tx'[p].txts = CleanOverlay.txts
  BY <1>1, <1>2, DefsWriterFrame
<1>4. call[p].defs \in Seq(SnapshotDefinition)
  BY <1>1, SnapshotFields DEF TypeInv, Position, InPlace
<1>5. Placed(p)' = {} /\ Checked(p)' = {}
  BY <1>1, <1>4 DEF Placed, Checked, DefinitionSteps
<1>6. DoneWith(p)' = {}
  BY <1>1 DEF DoneWith, TextSteps
<1>7. HistoryKept(p)'
  BY <1>1, <1>3, <1>5, CleanCells DEF HistoryKept, Vers, Over
<1>8. TextsPlaced(p)'
  BY <1>3, <1>6, CleanCells DEF TextsPlaced, Spoken
<1>9. RowsPlaced(p)'
  <2> SUFFICES ASSUME NEW r \in Resources, Claims(p, r)
               PROVE  Defs(p, r)' = NotPlaced(p, db.defs[r])'
    BY <1>1, <1>5, ClaimsStand DEF RowsPlaced
  <2>1. Defs(p, r) = db.defs[r] /\ tx[p].defs[r] = Clean
    BY <1>1, CleanCells DEF Defs, Over
  <2>2. tx'[p].defs[r] = IF r \in Rows(p)
                         THEN [db.defs[r] EXCEPT !.disabled = TRUE] ELSE Clean
    BY <2>1, WrittenDefs DEF TypeInv
  <2>3. r \in Rows(p) <=> r \in OwnEnabled(p)
    BY <1>1, AllPicked, RowsTyped DEF Picked
  <2>4. pc'[p] \notin PurgedSteps
    BY <1>1 DEF PurgedSteps
  <2>5. CASE db.defs[r] = Absent
    BY <1>1, <2>1, <2>2, <2>3, <2>4, <2>5 DEF NotPlaced, OwnEnabled, Owns, Defs, Over
  <2>6. CASE db.defs[r] # Absent
    <3>1. db.defs[r] \in DefinitionRow /\ Owns(p, db.defs[r])
      BY <2>6 DEF TypeInv, TypeOK, Database, Claims, Catalog!Claimable, Owns, Source
    <3>2. [db.defs[r] EXCEPT !.disabled = TRUE] \in DefinitionRow
      BY <3>1 DEF DefinitionRow
    <3>3. r \notin Rows(p) => db.defs[r] = [db.defs[r] EXCEPT !.disabled = TRUE]
      <4> SUFFICES ASSUME r \notin Rows(p)
                   PROVE  db.defs[r] = [db.defs[r] EXCEPT !.disabled = TRUE]
        OBVIOUS
      <4>1. db.defs[r].disabled = TRUE
        BY <2>1, <2>3, <3>1 DEF OwnEnabled, DefinitionRow
      <4> QED
        BY <3>1, <4>1 DEF DefinitionRow
    <3>4. NotPlaced(p, db.defs[r])' = [db.defs[r] EXCEPT !.disabled = TRUE]
      BY <1>1, <2>4, <2>6 DEF NotPlaced
    <3> QED
      BY <1>1, <2>2, <3>2, <3>3, <3>4, RowsAreNotClean DEF Defs, Over
  <2> QED
    BY <2>5, <2>6
<1>10. LookedAt(p)' /\ TextsAccepted(p)' /\ Named(p)'
  BY <1>1 DEF LookedAt, TextsAccepted, Named, DefinitionSteps, PurgedSteps
<1> QED
  BY <1>5, <1>7, <1>8, <1>9, <1>10 DEF Underway, DefinitionsAccepted

\* What the invariant says of the definitions when one more is checked, and
\* of their rows when none is placed.
LEMMA OneMoreChecked ==
  ASSUME SerialInv, NEW p \in Publishers, Begin(p) \/ Step(p) \/ Fail(p),
         Active(p), Active(p)', pc[p] \in DefinitionSteps,
         Checked(p)' = Checked(p) \cup {at[p]},
         Definition(p).valid,
         Claims(p, Res(p)) =>
           /\ Catalog!Compatible(db, call[p], Definition(p))
           /\ \A i \in Checked(p) : call[p].defs[i].res = Res(p) =>
                call[p].defs[i].hash = Definition(p).hash,
         \A v \in VersionIds :
           IF v = VersionId(p) /\ Changes(p, Definition(p))
           THEN Vers(p, v)' = Definition(p).hash
           ELSE Vers(p, v)' = Vers(p, v)
  PROVE  DefinitionsAccepted(p)' /\ HistoryKept(p)'
<1> USE DEF SerialInv, ShownInv, OwnInv, LockInv
<1>1. /\ call' = call /\ db' = db
      /\ \A r : Claims(p, r)' <=> Claims(p, r)
      /\ \A e : Changes(p, e)' <=> Changes(p, e)
  BY Working
<1>2. DefinitionsAccepted(p) /\ HistoryKept(p)
  BY DEF Underway
<1>3. /\ Definition(p) = call[p].defs[at[p]] /\ Res(p) = call[p].defs[at[p]].res
      /\ VersionId(p) = <<call[p].defs[at[p]].res, call[p].version>>
  BY DEF Definition, Res, VersionId
<1>4. DefinitionsAccepted(p)'
  <2>1. ASSUME NEW i \in Checked(p) \cup {at[p]}
        PROVE  LET e == call[p].defs[i] IN
               /\ e.valid
               /\ Claims(p, e.res) =>
                    /\ Catalog!Compatible(db, call[p], e)
                    /\ \A j \in Checked(p) \cup {at[p]} :
                         call[p].defs[j].res = e.res => call[p].defs[j].hash = e.hash
    BY <1>2, <1>3, <2>1 DEF DefinitionsAccepted
  <2> QED
    BY <1>1, <2>1 DEF DefinitionsAccepted, Catalog!Compatible,
                      Catalog!ChangesContent, Catalog!Recordable
<1>5. ASSUME NEW i \in Checked(p) \cup {at[p]}, Changes(p, call[p].defs[i]),
             NEW v, v = <<call[p].defs[i].res, call[p].version>>
      PROVE  Vers(p, v)' = call[p].defs[i].hash
  <2> DEFINE e == call[p].defs[i]
  <2>1. v \in VersionIds
    <3>1. /\ call[p] \in Snapshots /\ call[p].version \in Versions
          /\ call[p].defs \in Seq(SnapshotDefinition) /\ Res(p) \in Resources
      BY CurrentDefinition, SnapshotFields
    <3>2. CASE i = at[p]
      BY <1>3, <1>5, <3>1, <3>2 DEF VersionIds
    <3>3. CASE i \in Checked(p)
      <4>1. call[p].defs[i] \in SnapshotDefinition
        BY <3>1, <3>3 DEF Checked
      <4> QED
        BY <1>5, <3>1, <4>1 DEF VersionIds, SnapshotDefinition
    <3> QED
      BY <3>2, <3>3
  <2>2. CASE i = at[p]
    BY <1>3, <1>5, <2>1, <2>2
  <2>3. CASE i \in Checked(p) /\ e.res = Res(p)
    <3>1. e.hash = Definition(p).hash
      BY <1>5, <2>3 DEF Changes
    <3>2. Changes(p, Definition(p)) /\ v = VersionId(p)
      BY <1>3, <1>5, <2>3, <3>1 DEF Changes, Catalog!ChangesContent
    <3> QED
      BY <2>1, <3>1, <3>2
  <2>4. CASE i \in Checked(p) /\ e.res # Res(p)
    <3>1. Vers(p, v) = e.hash
      BY <1>2, <1>5, <2>4 DEF HistoryKept
    <3>2. v # VersionId(p)
      BY <1>3, <1>5, <2>4
    <3> QED
      BY <2>1, <3>1, <3>2
  <2> QED
    BY <2>2, <2>3, <2>4
<1>6. ASSUME NEW v \in VersionIds,
             \A i \in Checked(p) \cup {at[p]} :
               Changes(p, call[p].defs[i]) =>
                 v # <<call[p].defs[i].res, call[p].version>>
      PROVE  Vers(p, v)' = db.vers[v]
  <2>1. Vers(p, v) = db.vers[v]
    BY <1>2, <1>6 DEF HistoryKept
  <2>2. v # VersionId(p) \/ ~Changes(p, Definition(p))
    BY <1>3, <1>6
  <2> QED
    BY <2>1, <2>2
<1>7. HistoryKept(p)'
  BY <1>1, <1>5, <1>6 DEF HistoryKept
<1> QED
  BY <1>4, <1>7

LEMMA SameChecked ==
  ASSUME SerialInv, NEW p \in Publishers, Begin(p) \/ Step(p) \/ Fail(p),
         Active(p), Active(p)',
         Checked(p)' = Checked(p), tx'[p].vers = tx[p].vers
  PROVE  DefinitionsAccepted(p)' /\ HistoryKept(p)'
<1> USE DEF SerialInv, ShownInv, OwnInv, LockInv
<1>1. /\ call' = call /\ db' = db
      /\ \A r : Claims(p, r)' <=> Claims(p, r)
      /\ \A e : Changes(p, e)' <=> Changes(p, e)
  BY Working
<1>2. DefinitionsAccepted(p) /\ HistoryKept(p)
  BY DEF Underway
<1>3. \A v : Vers(p, v)' = Vers(p, v)
  BY <1>1 DEF Vers, Over
<1>4. DefinitionsAccepted(p)'
  BY <1>1, <1>2 DEF DefinitionsAccepted, Catalog!Compatible,
                    Catalog!ChangesContent, Catalog!Recordable
<1> QED
  BY <1>1, <1>2, <1>3, <1>4 DEF HistoryKept

LEMMA SamePlaced ==
  ASSUME SerialInv, NEW p \in Publishers, Begin(p) \/ Step(p) \/ Fail(p),
         Active(p), Active(p)',
         \A i \in DOMAIN call[p].defs : Claims(p, call[p].defs[i].res) =>
           (i \in Placed(p)' <=> i \in Placed(p)),
         tx'[p].defs = tx[p].defs,
         pc'[p] \in PurgedSteps <=> pc[p] \in PurgedSteps
  PROVE  RowsPlaced(p)'
<1> USE DEF SerialInv, ShownInv, OwnInv, LockInv
<1>1. /\ call' = call /\ db' = db
      /\ \A r : Claims(p, r)' <=> Claims(p, r)
  BY Working
<1>2. RowsPlaced(p)
  BY DEF Underway
<1>3. \A r : Defs(p, r)' = Defs(p, r) /\ NotPlaced(p, db.defs[r])' = NotPlaced(p, db.defs[r])
  BY <1>1 DEF Defs, Over, NotPlaced
<1>4. \A r : Claims(p, r) => \A i : (i \in Placed(p)' /\ call[p].defs[i].res = r)
                                 <=> (i \in Placed(p) /\ call[p].defs[i].res = r)
  BY <1>1 DEF Placed
<1> SUFFICES ASSUME NEW r \in Resources, Claims(p, r)
             PROVE  /\ \A i \in Placed(p)' : call[p].defs[i].res = r =>
                         Defs(p, r)' = PublishedRow(call[p], call[p].defs[i])
                    /\ (\A i \in Placed(p)' : call[p].defs[i].res # r) =>
                         Defs(p, r)' = NotPlaced(p, db.defs[r])'
  BY <1>1 DEF RowsPlaced
<1> QED
  BY <1>2, <1>3, <1>4 DEF RowsPlaced

LEMMA QuietTexts ==
  ASSUME SerialInv, NEW p \in Publishers, Begin(p) \/ Step(p) \/ Fail(p),
         Active(p), Active(p)', tx'[p].txts = tx[p].txts,
         \A id \in TextIds : call[p].texts[id[1]] # <<>> /\ Spoken(p, id)' =>
           /\ Spoken(p, id)
           /\ Foreign(p, db.txts[id]) \/ GivenBy(p, id)' = GivenBy(p, id)
  PROVE  TextsPlaced(p)'
<1> USE DEF SerialInv, ShownInv, OwnInv, LockInv
<1>1. call' = call /\ db' = db /\ Source(p)' = Source(p)
  BY Working
<1>2. TextsPlaced(p)
  BY DEF Underway
<1>3. \A id : Txts(p, id)' = Txts(p, id)
              /\ (Foreign(p, db.txts[id])' <=> Foreign(p, db.txts[id]))
  BY <1>1 DEF Txts, Over, Foreign
<1> SUFFICES ASSUME NEW id \in TextIds
             PROVE  /\ call[p].texts[id[1]] = <<>> => tx[p].txts[id] = Clean
                    /\ call[p].texts[id[1]] # <<>> /\ Spoken(p, id)'
                         /\ ~Foreign(p, db.txts[id]) =>
                         \/ GivenBy(p, id)' = {} /\ Txts(p, id) = Absent
                         \/ LastGiven(p, id, Txts(p, id))'
  BY <1>1, <1>3 DEF TextsPlaced
<1>4. GivenBy(p, id)' = GivenBy(p, id) =>
        (LastGiven(p, id, Txts(p, id))' <=> LastGiven(p, id, Txts(p, id)))
  BY <1>1, <1>3 DEF LastGiven
<1> QED
  BY <1>2, <1>4 DEF TextsPlaced

\* Before the texts' turn there is nothing to say of them.
LEMMA BeforeTheTexts ==
  ASSUME SerialInv, NEW p \in Publishers, Begin(p) \/ Step(p) \/ Fail(p),
         Active(p), Active(p)', pc'[p] \in BeforeTexts
  PROVE  TextsPlaced(p)' /\ TextsAccepted(p)' /\ Named(p)'
<1> USE DEF SerialInv, ShownInv, OwnInv, LockInv
<1>1. pc'[p] \notin {"textdelete", "projdelete", "projinsert", "synced"} \cup TextSteps
  BY DEF BeforeTexts, DefinitionSteps, TextSteps
<1>2. DoneWith(p)' = {}
  BY <1>1 DEF DoneWith
<1>3. ~TxtsWriter(p) /\ ~Ending(p)
  BY <1>1, Moves, Working DEF TxtsWriter, TextSteps, TypeInv
<1>4. tx'[p].txts = tx[p].txts
  BY <1>3, DefsWriterFrame, OtherFrame
<1>5. TextsPlaced(p)'
  BY <1>2, <1>4, QuietTexts DEF Spoken
<1>6. TextsAccepted(p)'
  BY <1>1 DEF TextsAccepted, PurgedSteps, TextSteps
<1> QED
  BY <1>1, <1>5, <1>6 DEF Named

\* Where the definition at hand stands among the others.
LEMMA AtHand ==
  ASSUME TypeInv, NEW p \in Publishers, pc[p] \in DefinitionSteps
  PROVE  /\ at[p] \in DOMAIN call[p].defs /\ at[p] \notin Placed(p)
         /\ Placed(p) = {i \in DOMAIN call[p].defs : i < at[p]}
         /\ pc[p] \in {"update", "insert"} => Checked(p) = Placed(p) \cup {at[p]}
         /\ pc[p] \notin {"update", "insert"} => Checked(p) = Placed(p)
         /\ Definition(p) = call[p].defs[at[p]] /\ Res(p) = call[p].defs[at[p]].res
         /\ VersionId(p) = <<Res(p), call[p].version>>
<1>1. at[p] \in DOMAIN call[p].defs /\ at[p] \in Nat
  BY DEF TypeInv, TypeOK, Position, InPlace
<1>2. Placed(p) = {i \in DOMAIN call[p].defs : i < at[p]} /\ at[p] \notin Placed(p)
  BY <1>1 DEF Placed
<1>3. pc[p] \in {"update", "insert"} => Checked(p) = Placed(p) \cup {at[p]}
  BY <1>1, <1>2 DEF Checked
<1>4. pc[p] \notin {"update", "insert"} => Checked(p) = Placed(p)
  BY <1>2 DEF Checked
<1> QED
  BY <1>1, <1>2, <1>3, <1>4 DEF Definition, Res, VersionId

LEMMA NextAtHand ==
  ASSUME TypeInv, NEW p \in Publishers, Begin(p) \/ Step(p) \/ Fail(p),
         pc[p] \in DefinitionSteps, pc'[p] \in DefinitionSteps,
         call' = call, at' = at
  PROVE  /\ Placed(p)' = Placed(p)
         /\ pc'[p] \in {"update", "insert"} => Checked(p)' = Placed(p) \cup {at[p]}
         /\ pc'[p] \notin {"update", "insert"} => Checked(p)' = Placed(p)
         /\ Definition(p)' = Definition(p) /\ Res(p)' = Res(p)
         /\ VersionId(p)' = VersionId(p)
<1>1. TypeInv'
  BY StepTyped
<1>2. Placed(p)' = Placed(p)
  BY DEF Placed
<1>3. at[p] \in DOMAIN call[p].defs /\ at[p] \in Nat
  BY DEF TypeInv, TypeOK, Position, InPlace
<1>4. pc'[p] \in {"update", "insert"} => Checked(p)' = Placed(p) \cup {at[p]}
  BY <1>3 DEF Checked, Placed
<1>5. pc'[p] \notin {"update", "insert"} => Checked(p)' = Placed(p)
  BY <1>3 DEF Checked, Placed
<1> QED
  BY <1>2, <1>4, <1>5 DEF Definition, Res, VersionId

\* If no definition of the resource has been placed, its versions in the
\* history are those of the committed tables; and a version id that is free
\* for the transaction was free before it.
LEMMA HistoryBelow ==
  ASSUME SerialInv, NEW p \in Publishers, Active(p), pc[p] \in DefinitionSteps
  PROVE  /\ (\A i \in Checked(p) : call[p].defs[i].res # Res(p)) =>
              Vers(p, VersionId(p)) = db.vers[VersionId(p)]
         /\ IdFree(p) => \A v \in SameId(VersionId(p)) : db.vers[v] = Absent
<1> USE DEF SerialInv, ShownInv, OwnInv, LockInv
<1>1. HistoryKept(p) /\ VersionId(p) = <<Res(p), call[p].version>>
  BY DEF Underway, VersionId
<1>2. ASSUME \A i \in Checked(p) : call[p].defs[i].res # Res(p)
      PROVE  Vers(p, VersionId(p)) = db.vers[VersionId(p)]
  BY <1>1, <1>2, CurrentDefinition DEF HistoryKept
<1>3. ASSUME IdFree(p), NEW v \in SameId(VersionId(p))
      PROVE  db.vers[v] = Absent
  <2>1. v \in VersionIds /\ Vers(p, v) = Absent
    BY <1>3 DEF IdFree, SameId
  <2>2. ASSUME NEW i \in Checked(p), Changes(p, call[p].defs[i])
        PROVE  v # <<call[p].defs[i].res, call[p].version>>
    <3>1. Vers(p, <<call[p].defs[i].res, call[p].version>>) = call[p].defs[i].hash
      BY <1>1, <2>2 DEF HistoryKept
    <3>2. call[p].defs[i] \in SnapshotDefinition
      BY CurrentDefinition, SnapshotFields DEF Checked
    <3> QED
      BY <2>1, <3>1, <3>2, HashesAreNoSentinels DEF SnapshotDefinition
  <2> QED
    BY <1>1, <2>1, <2>2 DEF HistoryKept
<1> QED
  BY <1>2, <1>3

\* What GetDefinition finds of the resource: the row this call has placed,
\* or the one the source published before.
LEMMA RowAtHand ==
  ASSUME SerialInv, NEW p \in Publishers, Active(p), pc[p] = "get",
         Claims(p, Res(p))
  PROVE  /\ \A j \in Placed(p) : call[p].defs[j].res = Res(p) =>
              /\ Defs(p, Res(p)) = PublishedRow(call[p], call[p].defs[j])
              /\ Catalog!Compatible(db, call[p], call[p].defs[j])
              /\ \A i \in Placed(p) : call[p].defs[i].res = Res(p) =>
                   call[p].defs[i].hash = call[p].defs[j].hash
              /\ Changes(p, call[p].defs[j]) =>
                   Vers(p, VersionId(p)) = call[p].defs[j].hash
         /\ (\A i \in Placed(p) : call[p].defs[i].res # Res(p)) =>
              /\ Defs(p, Res(p)) = Absent <=> db.defs[Res(p)] = Absent
              /\ Defs(p, Res(p)) # Absent =>
                   /\ Defs(p, Res(p)).hash = db.defs[Res(p)].hash
                   /\ Defs(p, Res(p)).version = db.defs[Res(p)].version
<1> USE DEF SerialInv, ShownInv, OwnInv, LockInv
<1>1. /\ DefinitionsAccepted(p) /\ HistoryKept(p) /\ RowsPlaced(p)
      /\ Res(p) \in Resources /\ Checked(p) = Placed(p)
      /\ VersionId(p) = <<Res(p), call[p].version>>
  BY AtHand, CurrentDefinition DEF Underway, DefinitionSteps
<1>2. ASSUME NEW j \in Placed(p), call[p].defs[j].res = Res(p)
      PROVE  /\ Defs(p, Res(p)) = PublishedRow(call[p], call[p].defs[j])
             /\ Catalog!Compatible(db, call[p], call[p].defs[j])
             /\ \A i \in Placed(p) : call[p].defs[i].res = Res(p) =>
                  call[p].defs[i].hash = call[p].defs[j].hash
             /\ Changes(p, call[p].defs[j]) =>
                  Vers(p, VersionId(p)) = call[p].defs[j].hash
  BY <1>1, <1>2 DEF DefinitionsAccepted, HistoryKept, RowsPlaced
<1>3. ASSUME \A i \in Placed(p) : call[p].defs[i].res # Res(p)
      PROVE  /\ Defs(p, Res(p)) = Absent <=> db.defs[Res(p)] = Absent
             /\ Defs(p, Res(p)) # Absent =>
                  /\ Defs(p, Res(p)).hash = db.defs[Res(p)].hash
                  /\ Defs(p, Res(p)).version = db.defs[Res(p)].version
  <2>1. Defs(p, Res(p)) = NotPlaced(p, db.defs[Res(p)])
    BY <1>1, <1>3 DEF RowsPlaced
  <2>2. pc[p] \notin PurgedSteps
    BY DEF PurgedSteps
  <2>3. CASE db.defs[Res(p)] = Absent
    BY <2>1, <2>3 DEF NotPlaced
  <2>4. CASE db.defs[Res(p)] # Absent
    <3>1. db.defs[Res(p)] \in DefinitionRow
      BY <1>1, <2>4 DEF TypeInv, TypeOK, Database
    <3>2. Defs(p, Res(p)) = [db.defs[Res(p)] EXCEPT !.disabled = TRUE]
      BY <2>1, <2>2, <2>4 DEF NotPlaced
    <3> QED
      BY <2>4, <3>1, <3>2, AbsentIsNoRow DEF DefinitionRow
  <2> QED
    BY <2>3, <2>4
<1> QED
  BY <1>2, <1>3

LEMMA GetUnderway ==
  ASSUME SerialInv, NEW p \in Publishers, GetDefinition(p)
  PROVE  DefinitionsAccepted(p)' /\ HistoryKept(p)' /\ LookedAt(p)'
<1> USE DEF SerialInv, ShownInv, OwnInv, LockInv
<1> DEFINE e == Definition(p)
           row == Defs(p, Res(p))
<1>1. /\ pc[p] = "get" /\ Step(p) /\ Active(p) /\ Active(p)'
      /\ pc[p] \in DefinitionSteps /\ pc'[p] \in DefinitionSteps
      /\ pc'[p] = IF NeedsVersion(p, row) THEN "hashes" ELSE "update"
      /\ e.valid /\ ~VersionReused(p, row) /\ Claims(p, Res(p))
      /\ UNCHANGED <<db, tx, call, at>>
  <2>1. /\ pc[p] = "get" /\ e.valid /\ ~VersionReused(p, row)
        /\ ~Foreign(p, row) /\ UNCHANGED <<db, tx, call, at>>
        /\ pc'[p] = IF NeedsVersion(p, row) THEN "hashes" ELSE "update"
    BY DEF GetDefinition, Goto, TypeInv, TypeOK
  <2>2. Claims(p, Res(p))
    BY <2>1, ClaimsVisible, CurrentDefinition DEF DefinitionSteps
  <2> QED
    BY <2>1, <2>2 DEF Step, Active, DefinitionSteps
<1>2. /\ Checked(p) = Placed(p) /\ Res(p) \in Resources
      /\ e.hash \in Hashes /\ VersionId(p) = <<Res(p), call[p].version>>
  BY <1>1, AtHand, CurrentDefinition
<1>3. /\ pc'[p] = "update" => Checked(p)' = Checked(p) \cup {at[p]}
      /\ pc'[p] = "hashes" => Checked(p)' = Checked(p)
      /\ Placed(p)' = Placed(p) /\ Definition(p)' = e /\ Res(p)' = Res(p)
  BY <1>1, <1>2, NextAtHand
<1>4. \A v : Vers(p, v)' = Vers(p, v)
  BY <1>1 DEF Vers, Over
<1>5. \A r : Claims(p, r)' <=> Claims(p, r)
  BY <1>1, ClaimsStand
<1>6. CASE NeedsVersion(p, row)
  <2>1. DefinitionsAccepted(p)' /\ HistoryKept(p)'
    BY <1>1, <1>3, <1>6, SameChecked
  <2>2. \A i \in Placed(p) : call[p].defs[i].res # Res(p)
    <3> SUFFICES ASSUME NEW j \in Placed(p), call[p].defs[j].res = Res(p)
                 PROVE  FALSE
      OBVIOUS
    <3>1. row = PublishedRow(call[p], call[p].defs[j])
      BY <1>1, RowAtHand
    <3>2. row # Absent /\ row.version = call[p].version
      <4>1. row # Absent
        <5>1. call[p].defs[j] \in SnapshotDefinition /\ call[p] \in Snapshots
          BY <1>1, CurrentDefinition, SnapshotFields DEF Placed
        <5>2. PublishedRow(call[p], call[p].defs[j]) \in DefinitionRow
          BY <5>1, SnapshotFields DEF PublishedRow, DefinitionRow, SnapshotDefinition
        <5> QED
          BY <3>1, <5>2, AbsentIsNoRow
      <4> QED
        BY <3>1, <4>1 DEF PublishedRow
    <3> QED
      BY <1>1, <1>6, <3>2 DEF NeedsVersion, VersionReused
  <2>3. /\ Catalog!ChangesContent(db, e)
        /\ db.defs[Res(p)] # Absent => db.defs[Res(p)].version # call[p].version
    BY <1>1, <1>6, <2>2, RowAtHand
       DEF NeedsVersion, VersionReused, Catalog!ChangesContent, Res
  <2> QED
    BY <1>1, <1>3, <1>5, <1>6, <2>1, <2>2, <2>3 DEF LookedAt, Catalog!ChangesContent
<1>7. CASE ~NeedsVersion(p, row)
  <2>1. row # Absent /\ row.hash = e.hash
    BY <1>7 DEF NeedsVersion
  <2>2. /\ Catalog!Compatible(db, call[p], e)
        /\ \A i \in Checked(p) : call[p].defs[i].res = Res(p) =>
             call[p].defs[i].hash = e.hash
        /\ Changes(p, e) => Vers(p, VersionId(p)) = e.hash
    <3>1. CASE \E j \in Placed(p) : call[p].defs[j].res = Res(p)
      <4>1. PICK j \in Placed(p) : call[p].defs[j].res = Res(p)
        BY <3>1
      <4>2. call[p].defs[j].hash = e.hash
        BY <1>1, <2>1, <4>1, RowAtHand DEF PublishedRow
      <4>3. /\ Catalog!Compatible(db, call[p], call[p].defs[j])
            /\ \A i \in Placed(p) : call[p].defs[i].res = Res(p) =>
                 call[p].defs[i].hash = e.hash
            /\ Changes(p, call[p].defs[j]) => Vers(p, VersionId(p)) = e.hash
        BY <1>1, <4>1, <4>2, RowAtHand
      <4>4. /\ Catalog!Compatible(db, call[p], call[p].defs[j])
                 <=> Catalog!Compatible(db, call[p], e)
            /\ Changes(p, call[p].defs[j]) <=> Changes(p, e)
        BY <4>1, <4>2 DEF Catalog!Compatible, Catalog!ChangesContent,
                          Catalog!Recordable, Changes, Res
      <4> QED
        BY <1>2, <4>3, <4>4
    <3>2. CASE \A j \in Placed(p) : call[p].defs[j].res # Res(p)
      <4>1. ~Catalog!ChangesContent(db, e)
        BY <1>1, <2>1, <3>2, RowAtHand DEF Catalog!ChangesContent, Res
      <4> QED
        BY <1>2, <3>2, <4>1 DEF Catalog!Compatible, Changes
    <3> QED
      BY <3>1, <3>2
  <2>3. DefinitionsAccepted(p)' /\ HistoryKept(p)'
    BY <1>1, <1>3, <1>4, <1>7, <2>2, OneMoreChecked
  <2> QED
    BY <1>1, <1>3, <1>5, <1>7, <2>3 DEF LookedAt
<1> QED
  BY <1>6, <1>7

\* The history is consulted and the version recorded.
LEMMA HistoryUnderway ==
  ASSUME SerialInv, NEW p \in Publishers, Active(p)',
         \/ ReadHistory(p) \/ RecordVersion(p)
         \/ VersionNotInserted(p) \/ RecheckHistory(p)
  PROVE  DefinitionsAccepted(p)' /\ HistoryKept(p)' /\ LookedAt(p)'
<1> USE DEF SerialInv, ShownInv, OwnInv, LockInv
<1> DEFINE e == Definition(p)
<1>1. /\ Step(p) /\ Active(p)
      /\ pc[p] \in {"hashes", "record", "recheck"} /\ pc[p] \in DefinitionSteps
      /\ pc'[p] \in {"record", "recheck", "update", "insert"}
      /\ pc'[p] \in DefinitionSteps
      /\ UNCHANGED <<db, call, at>>
  <2>1. /\ pc[p] \in {"hashes", "record", "recheck"}
        /\ pc'[p] \in {"record", "recheck", "update", "insert"}
    BY Moves DEF Active, TypeInv
  <2> QED
    BY <2>1 DEF Step, Active, DefinitionSteps, ReadHistory, RecordVersion,
                VersionNotInserted, RecheckHistory
<1>2. /\ Checked(p) = Placed(p) /\ VersionId(p) \in VersionIds
      /\ e.hash \in Hashes /\ VersionId(p) = <<e.res, call[p].version>>
      /\ Res(p) = e.res
  BY <1>1, AtHand, CurrentDefinition DEF Res
<1>3. /\ pc'[p] \in {"update", "insert"} => Checked(p)' = Checked(p) \cup {at[p]}
      /\ pc'[p] \notin {"update", "insert"} => Checked(p)' = Checked(p)
      /\ Placed(p)' = Placed(p) /\ Definition(p)' = e /\ Res(p)' = Res(p)
  BY <1>1, <1>2, NextAtHand
<1>4. /\ e.valid /\ Claims(p, Res(p))
      /\ \A i \in Placed(p) : call[p].defs[i].res # Res(p)
      /\ Catalog!ChangesContent(db, e)
      /\ db.defs[Res(p)] # Absent => db.defs[Res(p)].version # call[p].version
  BY <1>1 DEF Underway, LookedAt
<1>5. LookedAt(p)'
  <2>1. \A r : Claims(p, r)' <=> Claims(p, r)
    BY <1>1, ClaimsStand
  <2> QED
    BY <1>1, <1>3, <1>4, <2>1 DEF LookedAt, Catalog!ChangesContent
<1>6. CASE pc'[p] \in {"record", "recheck"}
  <2>1. tx' = tx
    BY <1>6, Moves DEF ReadHistory, VersionNotInserted, RecheckHistory, TypeInv
  <2> QED
    BY <1>1, <1>3, <1>5, <1>6, <2>1, SameChecked
<1>7. CASE pc'[p] \in {"update", "insert"}
  <2>1. CASE ReadHistory(p) \/ RecheckHistory(p)
    <3>1. tx' = tx /\ Vers(p, VersionId(p)) = e.hash
      BY <1>7, <2>1 DEF ReadHistory, RecheckHistory, CheckHistory, Goto, TypeInv, TypeOK
    <3>2. db.vers[VersionId(p)] = e.hash
      BY <1>1, <1>2, <1>4, <3>1, HistoryBelow
    <3>3. Catalog!Compatible(db, call[p], e)
      BY <1>2, <1>4, <3>2 DEF Catalog!Compatible, Catalog!Recordable
    <3>4. \A v : Vers(p, v)' = Vers(p, v)
      BY <1>1, <3>1 DEF Vers, Over
    <3>5. DefinitionsAccepted(p)' /\ HistoryKept(p)'
      BY <1>1, <1>2, <1>3, <1>4, <1>7, <3>1, <3>3, <3>4, OneMoreChecked
    <3> QED
      BY <1>5, <3>5
  <2>2. CASE RecordVersion(p)
    <3> DEFINE new == [v \in {VersionId(p)} |-> e.hash]
    <3>1. IdFree(p) /\ WriteVers(p, new)
      BY <2>2 DEF RecordVersion
    <3>2. \A v \in VersionIds :
            tx'[p].vers[v] = IF v = VersionId(p) THEN e.hash ELSE tx[p].vers[v]
      <4>1. DOMAIN new = {VersionId(p)} /\ new[VersionId(p)] = e.hash
        OBVIOUS
      <4> HIDE DEF new
      <4> QED
        BY <3>1, <4>1, VersWritten DEF TypeInv
    <3>3. \A v \in SameId(VersionId(p)) : db.vers[v] = Absent
      BY <1>1, <3>1, HistoryBelow
    <3>4. Catalog!Compatible(db, call[p], e)
      <4>1. Catalog!SameId(VersionId(p)) = SameId(VersionId(p))
        BY DEF SameId, Catalog!SameId, VersionIds, Catalog!VersionIds
      <4> QED
        BY <1>2, <1>4, <3>3, <4>1 DEF Catalog!Compatible, Catalog!Recordable
    <3>5. ASSUME NEW v \in VersionIds
          PROVE  IF v = VersionId(p) /\ Changes(p, e)
                 THEN Vers(p, v)' = e.hash ELSE Vers(p, v)' = Vers(p, v)
      <4>1. Changes(p, e)
        BY <1>2, <1>4 DEF Changes
      <4> QED
        BY <1>1, <1>2, <3>2, <4>1, HashesAreNoSentinels DEF Vers, Over
    <3>6. DefinitionsAccepted(p)' /\ HistoryKept(p)'
      BY <1>1, <1>2, <1>3, <1>4, <1>7, <3>4, <3>5, OneMoreChecked
    <3> QED
      BY <1>5, <3>6
  <2>3. ~VersionNotInserted(p)
    BY <1>7, Moves DEF TypeInv
  <2> QED
    BY <2>1, <2>2, <2>3
<1> QED
  BY <1>1, <1>6, <1>7

LEMMA LookUpUnderway ==
  ASSUME SerialInv, NEW p \in Publishers, Active(p)',
         \/ GetDefinition(p) \/ ReadHistory(p) \/ RecordVersion(p)
         \/ VersionNotInserted(p) \/ RecheckHistory(p)
  PROVE  Underway(p)'
<1> USE DEF SerialInv, ShownInv, OwnInv, LockInv
<1>1. /\ Step(p) /\ Active(p)
      /\ pc[p] \in DefinitionSteps /\ pc'[p] \in DefinitionSteps
      /\ UNCHANGED <<db, call, at>>
  <2>1. pc[p] \in DefinitionSteps /\ pc'[p] \in DefinitionSteps
    BY Moves DEF TypeInv, DefinitionSteps, Active
  <2> QED
    BY <2>1 DEF Step, Active, DefinitionSteps, GetDefinition, ReadHistory,
                RecordVersion, VersionNotInserted, RecheckHistory
<1>2. DefinitionsAccepted(p)' /\ HistoryKept(p)' /\ LookedAt(p)'
  BY GetUnderway, HistoryUnderway
<1>3. tx'[p].defs = tx[p].defs
  <2>1. ~DefsWriter(p) /\ ~TxtsWriter(p) /\ ~Ending(p)
    BY <1>1, Moves, Working DEF DefsWriter, TxtsWriter, TypeInv, DefinitionSteps
  <2> QED
    BY <1>1, <2>1, OtherFrame
<1>4. RowsPlaced(p)'
  <2>1. Placed(p)' = Placed(p)
    BY <1>1, NextAtHand
  <2> QED
    BY <1>1, <1>3, <2>1, SamePlaced DEF DefinitionSteps, PurgedSteps
<1>5. TextsPlaced(p)' /\ TextsAccepted(p)' /\ Named(p)'
  BY <1>1, BeforeTheTexts DEF BeforeTexts
<1> QED
  BY <1>2, <1>4, <1>5 DEF Underway

\* The loop goes on: the definition at hand is dealt with.
LEMMA PastDefinition ==
  ASSUME TypeInv, NEW p \in Publishers, pc[p] \in DefinitionSteps,
         NextDefinition(p), call' = call
  PROVE  /\ pc'[p] \in {"get", "purge"}
         /\ Placed(p)' = Placed(p) \cup {at[p]}
         /\ Checked(p)' = Placed(p) \cup {at[p]}
<1> USE DEF TypeInv, TypeOK
<1>1. /\ at[p] \in DOMAIN call[p].defs /\ at[p] \in Nat
      /\ call[p].defs \in Seq(SnapshotDefinition)
  BY SnapshotFields DEF Position, InPlace, DefinitionSteps
<1>2. /\ at'[p] = at[p] + 1
      /\ pc'[p] = IF at[p] < Len(call[p].defs) THEN "get" ELSE "purge"
  BY DEF NextDefinition, Goto
<1>3. Placed(p) = {i \in DOMAIN call[p].defs : i < at[p]}
  BY AtHand
<1>4. /\ Placed(p)' = {i \in DOMAIN call[p].defs : pc'[p] = "get" => i < at[p] + 1}
      /\ Checked(p)' = {i \in DOMAIN call[p].defs : pc'[p] = "get" => i < at[p] + 1}
  BY <1>2 DEF Placed, Checked, DefinitionSteps
<1>5. {i \in DOMAIN call[p].defs : pc'[p] = "get" => i < at[p] + 1}
        = {i \in DOMAIN call[p].defs : i < at[p]} \cup {at[p]}
  <2>1. ASSUME NEW i \in DOMAIN call[p].defs
        PROVE  (pc'[p] = "get" => i < at[p] + 1) <=> i < at[p] \/ i = at[p]
    BY <1>1, <1>2
  <2> QED
    BY <1>1, <2>1
<1> QED
  BY <1>2, <1>3, <1>4, <1>5

LEMMA SkipUnderway ==
  ASSUME SerialInv, NEW p \in Publishers, SkipForeign(p)
  PROVE  Underway(p)'
<1> USE DEF SerialInv, ShownInv, OwnInv, LockInv
<1>1. /\ pc[p] = "get" /\ pc[p] \in DefinitionSteps /\ Definition(p).valid
      /\ Foreign(p, Defs(p, Res(p))) /\ NextDefinition(p)
      /\ UNCHANGED <<db, tx, call>>
  BY DEF SkipForeign, DefinitionSteps
<1>2. pc'[p] \in {"get", "purge"}
  BY <1>1, PastDefinition
<1>3. Step(p) /\ Active(p) /\ Active(p)'
  BY <1>1, <1>2 DEF Step, Active
<1>4. ~Claims(p, Res(p)) /\ ~Changes(p, Definition(p))
  BY <1>1, ClaimsVisible, CurrentDefinition DEF Changes, Res
<1>5. Placed(p)' = Placed(p) \cup {at[p]} /\ Checked(p)' = Checked(p) \cup {at[p]}
  BY <1>1, PastDefinition, AtHand
<1>6. \A v : Vers(p, v)' = Vers(p, v)
  BY <1>1 DEF Vers, Over
<1>7. DefinitionsAccepted(p)' /\ HistoryKept(p)'
  BY <1>1, <1>3, <1>4, <1>5, <1>6, OneMoreChecked
<1>8. RowsPlaced(p)'
  <2>1. Res(p) = call[p].defs[at[p]].res
    BY DEF Res, Definition
  <2> QED
    BY <1>1, <1>2, <1>3, <1>4, <1>5, <2>1, SamePlaced DEF PurgedSteps
<1>9. LookedAt(p)'
  BY <1>2 DEF LookedAt, DefinitionSteps
<1>10. TextsPlaced(p)' /\ TextsAccepted(p)' /\ Named(p)'
  BY <1>2, <1>3, BeforeTheTexts DEF BeforeTexts, DefinitionSteps
<1> QED
  BY <1>7, <1>8, <1>9, <1>10 DEF Underway

\* The definition is written over the row of the resource, or as a new row.
LEMMA WriteUnderway ==
  ASSUME SerialInv, Isolation = "serial", NEW p \in Publishers,
         UpdateDefinition(p) \/ InsertDefinition(p)
  PROVE  Underway(p)'
<1> USE DEF SerialInv, ShownInv, OwnInv, LockInv
<1> DEFINE e == Definition(p)
           s == call[p]
<1>1. /\ pc[p] \in {"update", "insert"} /\ pc[p] \in DefinitionSteps
      /\ NextDefinition(p) /\ UNCHANGED <<db, call>> /\ DefsWriter(p)
  BY DEF UpdateDefinition, InsertDefinition, DefinitionSteps, DefsWriter
<1>2. pc'[p] \in {"get", "purge"}
  BY <1>1, PastDefinition
<1>3. Step(p) /\ Active(p) /\ Active(p)'
  BY <1>1, <1>2 DEF Step, Active
<1>4. Placed(p)' = Checked(p) /\ Checked(p)' = Checked(p)
      /\ Checked(p) = Placed(p) \cup {at[p]}
  BY <1>1, PastDefinition, AtHand
<1>5. DefinitionsAccepted(p)' /\ HistoryKept(p)'
  BY <1>1, <1>3, <1>4, SameChecked, DefsWriterFrame
<1>6. /\ Claims(p, Res(p)) /\ Res(p) \in Resources
      /\ PublishedRow(s, e) \in DefinitionRow
  BY <1>1, <1>3, CurrentDefinition DEF Underway, LookedAt
<1>7. \A r \in Resources :
        tx'[p].defs[r] = IF r = Res(p) THEN PublishedRow(s, e) ELSE tx[p].defs[r]
  <2>1. CASE UpdateDefinition(p)
    <3>1. pc[p] = "update" /\ Defs(p, Res(p)) # Absent
      BY <2>1 DEF UpdateDefinition, FoundOwn, Owns
    <3>2. Rows(p) = {Res(p)}
      BY <3>1, RowsPicked DEF Picked
    <3> QED
      BY <2>1, <3>2, WrittenDefs DEF TypeInv
  <2>2. CASE InsertDefinition(p)
    BY <2>2, WrittenDefs DEF TypeInv
  <2> QED
    BY <2>1, <2>2
<1>8. \A r \in Resources :
        Defs(p, r)' = IF r = Res(p) THEN PublishedRow(s, e) ELSE Defs(p, r)
  BY <1>1, <1>6, <1>7, RowsAreNotClean DEF Defs, Over
<1>9. RowsPlaced(p)'
  <2>1. /\ DefinitionsAccepted(p) /\ RowsPlaced(p)
        /\ \A r : Claims(p, r)' <=> Claims(p, r)
        /\ \A r : NotPlaced(p, db.defs[r])' = NotPlaced(p, db.defs[r])
    BY <1>1, <1>2, <1>3, ClaimsStand
       DEF Underway, NotPlaced, PurgedSteps, DefinitionSteps
  <2>2. e = s.defs[at[p]] /\ Res(p) = e.res
    BY DEF Definition, Res
  <2> SUFFICES ASSUME NEW r \in Resources, Claims(p, r)
               PROVE  /\ \A i \in Checked(p) : s.defs[i].res = r =>
                           Defs(p, r)' = PublishedRow(s, s.defs[i])
                      /\ (\A i \in Checked(p) : s.defs[i].res # r) =>
                           Defs(p, r)' = NotPlaced(p, db.defs[r])
    BY <1>1, <1>4, <2>1 DEF RowsPlaced
  <2>3. CASE r = Res(p)
    <3>1. \A i \in Checked(p) : s.defs[i].res = r => s.defs[i].hash = e.hash
      BY <1>4, <2>1, <2>2, <2>3 DEF DefinitionsAccepted
    <3> QED
      BY <1>4, <1>8, <2>2, <2>3, <3>1 DEF PublishedRow
  <2>4. CASE r # Res(p)
    BY <1>4, <1>8, <2>1, <2>2, <2>4 DEF RowsPlaced
  <2> QED
    BY <2>3, <2>4
<1>10. LookedAt(p)'
  BY <1>2 DEF LookedAt, DefinitionSteps
<1>11. TextsPlaced(p)' /\ TextsAccepted(p)' /\ Named(p)'
  BY <1>2, <1>3, BeforeTheTexts DEF BeforeTexts, DefinitionSteps
<1> QED
  BY <1>5, <1>9, <1>10, <1>11 DEF Underway

\* The purge: of the source's rows only the snapshot's are left.
LEMMA PurgeUnderway ==
  ASSUME SerialInv, Isolation = "serial", NEW p \in Publishers, Purge(p)
  PROVE  Underway(p)'
<1> USE DEF SerialInv, ShownInv, OwnInv, LockInv
<1>1. /\ pc[p] = "purge" /\ pc'[p] = "texts" /\ UNCHANGED <<db, call, at>>
      /\ DefsWriter(p) /\ Step(p) /\ Active(p) /\ Active(p)'
  BY Moves DEF Purge, DefsWriter, Step, Active, TypeInv
<1>2. Placed(p)' = Placed(p) /\ Checked(p)' = Checked(p)
  BY <1>1 DEF Placed, Checked, DefinitionSteps
<1>3. DefinitionsAccepted(p)' /\ HistoryKept(p)'
  BY <1>1, <1>2, SameChecked, DefsWriterFrame
<1>4. Rows(p) = OwnDisabled(p)
  BY <1>1, RowsPicked DEF Picked
<1>5. RowsPlaced(p)'
  <2>1. RowsPlaced(p) /\ \A r : Claims(p, r)' <=> Claims(p, r)
    BY <1>1, ClaimsStand DEF Underway
  <2> SUFFICES ASSUME NEW r \in Resources, Claims(p, r)
               PROVE  /\ \A i \in Placed(p) : call[p].defs[i].res = r =>
                           Defs(p, r)' = PublishedRow(call[p], call[p].defs[i])
                      /\ (\A i \in Placed(p) : call[p].defs[i].res # r) =>
                           Defs(p, r)' = Absent
    BY <1>1, <1>2, <2>1 DEF RowsPlaced, NotPlaced, PurgedSteps
  <2>2. tx'[p].defs[r] = IF r \in OwnDisabled(p) THEN Absent ELSE tx[p].defs[r]
    BY <1>4, WrittenDefs DEF TypeInv
  <2>3. Defs(p, r)' = IF r \in OwnDisabled(p) THEN Absent ELSE Defs(p, r)
    BY <1>1, <2>2, HashesAreNoSentinels DEF Defs, Over
  <2>4. CASE \E i \in Placed(p) : call[p].defs[i].res = r
    <3>1. ~Defs(p, r).disabled
      BY <2>1, <2>4 DEF RowsPlaced, PublishedRow
    <3> QED
      BY <2>1, <2>3, <2>4, <3>1 DEF RowsPlaced, OwnDisabled
  <2>5. CASE \A i \in Placed(p) : call[p].defs[i].res # r
    <3>1. Defs(p, r) = NotPlaced(p, db.defs[r])
      BY <2>1, <2>5 DEF RowsPlaced
    <3>2. pc[p] \notin PurgedSteps
      BY <1>1 DEF PurgedSteps
    <3>3. db.defs[r] # Absent => Owns(p, Defs(p, r)) /\ Defs(p, r).disabled
      <4> SUFFICES ASSUME db.defs[r] # Absent
                   PROVE  Owns(p, Defs(p, r)) /\ Defs(p, r).disabled
        OBVIOUS
      <4>1. db.defs[r] \in DefinitionRow /\ db.defs[r].source = Source(p)
        BY DEF TypeInv, TypeOK, Database, Claims, Catalog!Claimable, Source
      <4>2. Defs(p, r) = [db.defs[r] EXCEPT !.disabled = TRUE]
        BY <3>1, <3>2 DEF NotPlaced
      <4>3. Defs(p, r) \in DefinitionRow
        BY <4>1, <4>2 DEF DefinitionRow
      <4> QED
        BY <4>1, <4>2, <4>3, AbsentIsNoRow DEF Owns, DefinitionRow
    <3> QED
      BY <2>3, <2>5, <3>1, <3>3 DEF OwnDisabled, NotPlaced
  <2> QED
    BY <2>4, <2>5
<1>6. LookedAt(p)'
  BY <1>1 DEF LookedAt, DefinitionSteps
<1>7. TextsPlaced(p)' /\ TextsAccepted(p)' /\ Named(p)'
  BY <1>1, BeforeTheTexts DEF BeforeTexts
<1> QED
  BY <1>3, <1>5, <1>6, <1>7 DEF Underway

-----------------------------------------------------------------------------
(***************************************************************************)
(* After the purge: the texts and the projection row.                      *)
(***************************************************************************)
LEMMA PurgedStepsOnly ==
  ASSUME TypeInv, NEW p \in Publishers, Begin(p) \/ Step(p) \/ Fail(p),
         pc[p] \in PurgedSteps, pc'[p] \in PurgedSteps
  PROVE  /\ \/ CheckTexts(p) \/ LookUpText(p) \/ SkipForeignText(p)
            \/ DeleteProjection(p) \/ InsertProjection(p)
            \/ DeleteTexts(p) \/ UpdateText(p) \/ InsertText(p) \/ Wait(p)
         /\ tx'[p].defs = tx[p].defs /\ tx'[p].vers = tx[p].vers
         /\ ~TxtsWriter(p) => tx'[p].txts = tx[p].txts
<1>1. \/ CheckTexts(p) \/ LookUpText(p) \/ SkipForeignText(p)
      \/ DeleteProjection(p) \/ InsertProjection(p)
      \/ DeleteTexts(p) \/ UpdateText(p) \/ InsertText(p) \/ Wait(p)
  BY Moves DEF TypeInv, PurgedSteps, Step
<1>2. ~DefsWriter(p) /\ ~Ending(p) /\ ~RecordVersion(p)
  BY Moves DEF TypeInv, PurgedSteps, DefsWriter, Ending
<1>3. CASE TxtsWriter(p)
  BY <1>1, <1>3, TxtsWriterFrame
<1>4. CASE ~TxtsWriter(p)
  <2>1. tx'[p].defs = tx[p].defs /\ tx'[p].txts = tx[p].txts
    BY <1>2, <1>4, OtherFrame
  <2>2. tx' = tx \/ \E new : WriteProj(p, new)
    <3>1. tx' = tx \/ DeleteProjection(p) \/ InsertProjection(p)
      BY <1>2, <1>4, OtherFrame
    <3> QED
      BY <3>1 DEF DeleteProjection, InsertProjection
  <2>3. tx'[p].vers = tx[p].vers
    BY <2>2, ProjWritten DEF TypeInv
  <2> QED
    BY <1>1, <2>1, <2>3
<1> QED
  BY <1>3, <1>4

\* What has been said of the definitions stays true.
LEMMA DefinitionsSettled ==
  ASSUME SerialInv, NEW p \in Publishers, Begin(p) \/ Step(p) \/ Fail(p),
         pc[p] \in PurgedSteps, pc'[p] \in PurgedSteps
  PROVE  /\ DefinitionsAccepted(p)' /\ HistoryKept(p)' /\ RowsPlaced(p)'
         /\ LookedAt(p)' /\ Active(p) /\ Active(p)'
<1> USE DEF SerialInv, ShownInv, OwnInv, LockInv
<1>1. pc[p] \notin DefinitionSteps /\ pc'[p] \notin DefinitionSteps
      /\ Active(p) /\ Active(p)'
  BY DEF PurgedSteps, DefinitionSteps, Active
<1>2. call' = call
  BY <1>1, Working
<1>3. Placed(p)' = Placed(p) /\ Checked(p)' = Checked(p)
  BY <1>1, <1>2 DEF Placed, Checked
<1>4. DefinitionsAccepted(p)' /\ HistoryKept(p)'
  BY <1>1, <1>3, SameChecked, PurgedStepsOnly
<1>5. RowsPlaced(p)'
  BY <1>1, <1>3, SamePlaced, PurgedStepsOnly
<1>6. LookedAt(p)'
  BY <1>1 DEF LookedAt, DefinitionSteps
<1> QED
  BY <1>1, <1>4, <1>5, <1>6

LEMMA TextsChecked ==
  ASSUME SerialInv, NEW p \in Publishers, Begin(p) \/ Step(p) \/ Fail(p),
         pc[p] \in PurgedSteps, pc'[p] \in PurgedSteps
  PROVE  TextsAccepted(p)'
<1> USE DEF SerialInv, ShownInv, OwnInv, LockInv
<1>1. Active(p) /\ Active(p)' /\ call' = call
  BY Working DEF PurgedSteps, Active
<1>2. CASE pc[p] = "texts"
  <2>1. CheckTexts(p)
    BY <1>2, PurgedStepsOnly, Moves DEF TypeInv, PickingSteps
  <2>2. TextsValid(call[p])
    BY <1>1, <1>2, <2>1 DEF CheckTexts, Goto, TypeInv, TypeOK, PurgedSteps
  <2> QED
    BY <1>1, <2>2 DEF TextsAccepted
<1>3. CASE pc[p] # "texts"
  BY <1>1, <1>3 DEF TextsAccepted, Underway
<1> QED
  BY <1>2, <1>3

LEMMA NamedAtLast ==
  ASSUME SerialInv, NEW p \in Publishers, Begin(p) \/ Step(p) \/ Fail(p),
         pc[p] \in PurgedSteps, pc'[p] \in PurgedSteps
  PROVE  Named(p)'
<1> USE DEF SerialInv, ShownInv, OwnInv, LockInv
<1> SUFFICES ASSUME pc'[p] = "synced"
             PROVE  Proj(p)' = [version |-> call[p].version, source |-> Source(p)]'
  BY DEF Named
<1> DEFINE row == [version |-> call[p].version, source |-> Source(p)]
           new == [c \in {Current} |-> row]
<1>1. InsertProjection(p)
  BY Moves DEF TypeInv, Step, PickingSteps
<1>2. WriteProj(p, new) /\ UNCHANGED <<db, call>> /\ pc[p] = "projinsert"
  BY <1>1 DEF InsertProjection
<1>3. tx'[p].proj[Current] = row
  <2>1. DOMAIN new = {Current} /\ new[Current] = row
    OBVIOUS
  <2> HIDE DEF new, row
  <2> QED
    BY <1>2, <2>1, ProjWritten DEF TypeInv
<1>4. row # Clean
  <2>1. row \in ProjectionRow
    BY <1>2, SnapshotFields DEF ProjectionRow, Source, TypeInv, Position, InPlace
  <2> QED
    BY <2>1, CleanIsNoCell
<1> QED
  BY <1>2, <1>3, <1>4 DEF Proj, Over, Source

\* The text at hand counts, once the loop is past it.
LEMMA NextGiven ==
  ASSUME TypeInv, NEW p \in Publishers, pc[p] \in TextSteps, NextText(p),
         call' = call, NEW id \in TextIds
  PROVE  /\ GivenBy(p, id)' = IF id = TextId(p) THEN GivenBy(p, id) \cup {at[p]}
                              ELSE GivenBy(p, id)
         /\ id = TextId(p) =>
              /\ \A i \in GivenBy(p, id) : i <= at[p]
              /\ NewText(p) = [text   |-> call[p].texts[id[1]][at[p]].text,
                               source |-> Source(p)]
<1> USE DEF TypeInv, TypeOK
<1> DEFINE w == Workspace(p)
           given == Catalog!Given(call[p], id)
<1>1. /\ at[p] \in DOMAIN call[p].texts[w] /\ at[p] \in Nat
      /\ ws[p] \in DOMAIN WorkspaceOrder /\ call[p] \in Snapshots
  BY DEF Position, InPlace, TextSteps
<1>2. call[p].texts[w] \in Seq(SnapshotText) /\ w \in Workspaces
  <2>1. w \in Workspaces
    BY <1>1 DEF Workspace, Workspaces
  <2> QED
    BY <1>1, <2>1, SnapshotFields
<1>3. TextId(p) = <<w, call[p].texts[w][at[p]].key>>
  BY DEF TextId, Text
<1>4. id = <<id[1], id[2]>>
  BY DEF TextIds
<1>5. given = {i \in DOMAIN call[p].texts[id[1]] :
                 call[p].texts[id[1]][i].key = id[2]}
  BY DEF Catalog!Given
<1>6. id[1] = w => (at[p] \in given <=> id = TextId(p))
  BY <1>1, <1>3, <1>4, <1>5
<1>7. GivenBy(p, id) = {i \in given : id[1] = w => i < at[p]}
  BY DEF GivenBy
<1>8. id[1] # w => id # TextId(p)
  BY <1>3
<1>9. id[1] = w => given \subseteq 1..Len(call[p].texts[w])
  BY <1>2, <1>5
<1>10. GivenBy(p, id)' = IF id = TextId(p) THEN GivenBy(p, id) \cup {at[p]}
                         ELSE GivenBy(p, id)
  <2>1. CASE at[p] < Len(call[p].texts[w])
    <3>1. pc'[p] \in TextSteps /\ at'[p] = at[p] + 1 /\ Workspace(p)' = w
      BY <2>1 DEF NextText, Goto, TextSteps, Workspace
    <3>2. GivenBy(p, id)' = {i \in given : id[1] = w => i < at[p] + 1}
      BY <3>1 DEF GivenBy
    <3>3. CASE id[1] = w
      <4>1. \A i \in given : i < at[p] + 1 <=> i < at[p] \/ i = at[p]
        BY <1>1, <1>2, <1>9, <3>3
      <4> HIDE DEF w, given
      <4> QED
        BY <1>6, <1>7, <3>2, <3>3, <4>1
    <3>4. CASE id[1] # w
      BY <1>7, <1>8, <3>2, <3>4
    <3> QED
      BY <3>3, <3>4
  <2>2. CASE ~(at[p] < Len(call[p].texts[w]))
    <3>1. pc'[p] \notin TextSteps
      BY <2>2, NextSteps DEF NextText, TextSteps
    <3>2. GivenBy(p, id)' = given
      BY <3>1 DEF GivenBy, Catalog!Given
    <3>3. CASE id[1] = w
      <4>1. at[p] = Len(call[p].texts[w])
        BY <1>1, <1>2, <2>2
      <4>2. \A i \in given : i < at[p] \/ i = at[p]
        BY <1>2, <1>9, <3>3, <4>1
      <4> HIDE DEF w, given
      <4> QED
        BY <1>6, <1>7, <3>2, <3>3, <4>2
    <3>4. CASE id[1] # w
      BY <1>7, <1>8, <3>2, <3>4
    <3> QED
      BY <3>3, <3>4
  <2> QED
    BY <2>1, <2>2
<1>11. ASSUME id = TextId(p)
       PROVE  /\ \A i \in GivenBy(p, id) : i <= at[p]
              /\ NewText(p) = [text   |-> call[p].texts[id[1]][at[p]].text,
                               source |-> Source(p)]
  <2>1. id[1] = w
    BY <1>3, <1>11
  <2>2. \A i \in GivenBy(p, id) : i <= at[p]
    BY <1>1, <1>2, <1>7, <1>9, <2>1
  <2> QED
    BY <2>1, <2>2 DEF NewText, Text
<1> QED
  BY <1>10, <1>11

\* A workspace a step gets done with has no texts in the snapshot, or the
\* step is the DELETE that opens it.
LEMMA SpokenNow ==
  ASSUME SerialInv, NEW p \in Publishers, Begin(p) \/ Step(p) \/ Fail(p),
         NEW id \in TextIds, Spoken(p, id)', call[p].texts[id[1]] # <<>>
  PROVE  Spoken(p, id) \/ (DeleteTexts(p) /\ id[1] = Workspace(p))
<1> USE DEF SerialInv, ShownInv
<1>1. PICK j \in DoneWith(p)' : WorkspaceOrder[j] = id[1]
  BY DEF Spoken
<1> QED
  BY <1>1, DoneNow DEF Spoken

LEMMA TextsWrittenUnderway ==
  ASSUME SerialInv, Isolation = "serial", NEW p \in Publishers,
         UpdateText(p) \/ InsertText(p)
  PROVE  TextsPlaced(p)'
<1> USE DEF SerialInv, ShownInv, OwnInv, LockInv
<1>1. /\ pc[p] \in {"textupdate", "textinsert"} /\ pc[p] \in TextSteps
      /\ NextText(p) /\ UNCHANGED <<db, call>> /\ Step(p) /\ Active(p)
  BY DEF UpdateText, InsertText, TextSteps, Step, Active
<1>2. \A id \in TextIds :
        tx'[p].txts[id] = IF id = TextId(p) THEN NewText(p) ELSE tx[p].txts[id]
  <2>1. CASE UpdateText(p)
    <3>1. pc[p] = "textupdate" /\ Txts(p, TextId(p)) # Absent
      BY <2>1 DEF UpdateText, FoundOwn, Owns
    <3>2. Rows(p) = {TextId(p)}
      BY <3>1, RowsPicked DEF Picked
    <3> QED
      BY <2>1, <3>2, WrittenTxts DEF TypeInv
  <2>2. CASE InsertText(p)
    BY <2>2, WrittenTxts DEF TypeInv
  <2> QED
    BY <2>1, <2>2
<1>3. NewText(p) # Clean
  BY <1>1, CurrentText, RowsAreNotClean
<1>4. \A id \in TextIds :
        Txts(p, id)' = IF id = TextId(p) THEN NewText(p) ELSE Txts(p, id)
  BY <1>1, <1>2, <1>3 DEF Txts, Over
<1>5. TextsPlaced(p) /\ Source(p)' = Source(p)
  BY <1>1 DEF Underway, Source
<1> SUFFICES ASSUME NEW id \in TextIds
             PROVE  /\ call[p].texts[id[1]] = <<>> => tx'[p].txts[id] = Clean
                    /\ call[p].texts[id[1]] # <<>> /\ Spoken(p, id)'
                         /\ ~Foreign(p, db.txts[id]) =>
                         \/ GivenBy(p, id)' = {} /\ Txts(p, id)' = Absent
                         \/ LastGiven(p, id, Txts(p, id))'
  BY <1>1, <1>5 DEF TextsPlaced, Foreign
<1>6. call[p].texts[id[1]] = <<>> => tx'[p].txts[id] = Clean
  <2>1. call[p].texts[Workspace(p)] # <<>>
    BY <1>1 DEF TypeInv, Position, InPlace
  <2>2. call[p].texts[id[1]] = <<>> => id # TextId(p)
    BY <2>1 DEF TextId
  <2> QED
    BY <1>2, <1>5, <2>2 DEF TextsPlaced
<1>7. ASSUME call[p].texts[id[1]] # <<>>, Spoken(p, id)', ~Foreign(p, db.txts[id])
      PROVE  \/ GivenBy(p, id)' = {} /\ Txts(p, id)' = Absent
             \/ LastGiven(p, id, Txts(p, id))'
  <2>1. CASE id = TextId(p)
    <3>1. /\ GivenBy(p, id)' = GivenBy(p, id) \cup {at[p]}
          /\ \A i \in GivenBy(p, id) : i <= at[p]
          /\ NewText(p) = [text   |-> call[p].texts[id[1]][at[p]].text,
                           source |-> Source(p)]
      BY <1>1, <2>1, NextGiven
    <3>2. at[p] <= at[p] /\ Txts(p, id)' = NewText(p)
      BY <1>4, <2>1 DEF TypeInv, TypeOK
    <3>3. \A j \in GivenBy(p, id)' : j <= at[p]
      BY <3>1, <3>2
    <3>4. at[p] \in GivenBy(p, id)'
      BY <3>1
    <3> QED
      BY <1>1, <1>5, <3>1, <3>2, <3>3, <3>4 DEF LastGiven
  <2>2. CASE id # TextId(p)
    <3>1. GivenBy(p, id)' = GivenBy(p, id) /\ Txts(p, id)' = Txts(p, id)
      BY <1>1, <1>4, <2>2, NextGiven
    <3>2. Spoken(p, id)
      BY <1>1, <1>7, SpokenNow, Moves DEF TypeInv
    <3>3. \/ GivenBy(p, id) = {} /\ Txts(p, id) = Absent
          \/ LastGiven(p, id, Txts(p, id))
      BY <1>5, <1>7, <3>2 DEF TextsPlaced
    <3> QED
      BY <1>1, <1>5, <3>1, <3>3 DEF LastGiven
  <2> QED
    BY <2>1, <2>2
<1> QED
  BY <1>6, <1>7

LEMMA TextsDeletedUnderway ==
  ASSUME SerialInv, Isolation = "serial", NEW p \in Publishers, DeleteTexts(p)
  PROVE  TextsPlaced(p)'
<1> USE DEF SerialInv, ShownInv, OwnInv, LockInv
<1>1. /\ pc[p] = "textdelete" /\ pc'[p] = "textlookup"
      /\ UNCHANGED <<db, call, at, ws>> /\ Step(p) /\ Active(p)
  BY Moves DEF DeleteTexts, Step, Active, TypeInv
<1>2. /\ at[p] = 1 /\ call[p].texts[Workspace(p)] # <<>>
      /\ call[p] \in Snapshots
  BY <1>1 DEF TypeInv, Position, InPlace
<1>3. Rows(p) = OwnTexts(p)
  BY <1>1, RowsPicked DEF Picked
<1>4. \A id \in TextIds :
        tx'[p].txts[id] = IF id \in OwnTexts(p) THEN Absent ELSE tx[p].txts[id]
  BY <1>3, WrittenTxts DEF TypeInv
<1>5. \A id \in TextIds :
        Txts(p, id)' = IF id \in OwnTexts(p) THEN Absent ELSE Txts(p, id)
  BY <1>1, <1>4, HashesAreNoSentinels DEF Txts, Over
<1>6. TextsPlaced(p) /\ Source(p)' = Source(p) /\ Workspace(p)' = Workspace(p)
  BY <1>1 DEF Underway, Source, Workspace
<1> SUFFICES ASSUME NEW id \in TextIds
             PROVE  /\ call[p].texts[id[1]] = <<>> => tx'[p].txts[id] = Clean
                    /\ call[p].texts[id[1]] # <<>> /\ Spoken(p, id)'
                         /\ ~Foreign(p, db.txts[id]) =>
                         \/ GivenBy(p, id)' = {} /\ Txts(p, id)' = Absent
                         \/ LastGiven(p, id, Txts(p, id))'
  BY <1>1, <1>6 DEF TextsPlaced, Foreign
<1>7. call[p].texts[id[1]] = <<>> => tx'[p].txts[id] = Clean
  BY <1>2, <1>4, <1>6 DEF TextsPlaced, OwnTexts
<1>8. ASSUME call[p].texts[id[1]] # <<>>, Spoken(p, id)', ~Foreign(p, db.txts[id])
      PROVE  \/ GivenBy(p, id)' = {} /\ Txts(p, id)' = Absent
             \/ LastGiven(p, id, Txts(p, id))'
  <2>1. CASE id[1] = Workspace(p)
    <3>1. GivenBy(p, id)' = {}
      <4>1. \A i \in Catalog!Given(call[p], id) : ~(i < 1)
        <5>1. id[1] \in Workspaces
          BY DEF TextIds
        <5>2. call[p].texts[id[1]] \in Seq(SnapshotText)
          BY <1>2, <5>1, SnapshotFields
        <5> QED
          BY <5>2 DEF Catalog!Given
      <4> QED
        BY <1>1, <1>2, <1>6, <2>1, <4>1 DEF GivenBy, TextSteps
    <3>2. ~Foreign(p, Txts(p, id))
      BY <1>8, ClaimsVisible
    <3>3. Txts(p, id)' = Absent
      BY <1>5, <2>1, <3>2 DEF OwnTexts, Owns, Foreign
    <3> QED
      BY <3>1, <3>3
  <2>2. CASE id[1] # Workspace(p)
    <3>1. Spoken(p, id)
      BY <1>1, <1>8, <2>2, SpokenNow
    <3>2. GivenBy(p, id)' = GivenBy(p, id) /\ Txts(p, id)' = Txts(p, id)
      BY <1>1, <1>5, <1>6, <2>2 DEF GivenBy, OwnTexts, TextSteps
    <3>3. \/ GivenBy(p, id) = {} /\ Txts(p, id) = Absent
          \/ LastGiven(p, id, Txts(p, id))
      BY <1>6, <1>8, <3>1 DEF TextsPlaced
    <3> QED
      BY <1>1, <1>6, <3>2, <3>3 DEF LastGiven
  <2> QED
    BY <2>1, <2>2
<1> QED
  BY <1>7, <1>8

LEMMA TextsReadUnderway ==
  ASSUME SerialInv, Isolation = "serial", NEW p \in Publishers,
         \/ CheckTexts(p) \/ LookUpText(p) \/ SkipForeignText(p)
         \/ DeleteProjection(p) \/ InsertProjection(p),
         pc'[p] \in PurgedSteps
  PROVE  TextsPlaced(p)'
<1> USE DEF SerialInv, ShownInv, OwnInv, LockInv
<1>1. /\ pc[p] \in PurgedSteps /\ Step(p) /\ Active(p) /\ Active(p)'
      /\ ~TxtsWriter(p)
  BY Moves DEF PurgedSteps, Step, Active, TypeInv, TxtsWriter
<1>2. tx'[p].txts = tx[p].txts /\ call' = call
  BY <1>1, PurgedStepsOnly, Working
<1> SUFFICES ASSUME NEW id \in TextIds, call[p].texts[id[1]] # <<>>, Spoken(p, id)'
             PROVE  /\ Spoken(p, id)
                    /\ Foreign(p, db.txts[id]) \/ GivenBy(p, id)' = GivenBy(p, id)
  BY <1>1, <1>2, QuietTexts
<1>3. Spoken(p, id)
  BY <1>1, SpokenNow DEF TxtsWriter
<1>4. CASE CheckTexts(p)
  <2>1. DoneWith(p) = {}
    BY <1>4 DEF CheckTexts, DoneWith, TextSteps
  <2> QED
    BY <1>3, <2>1 DEF Spoken
<1>5. CASE LookUpText(p)
  <2>1. pc[p] \in TextSteps /\ pc'[p] \in TextSteps /\ UNCHANGED <<at, ws>>
    BY <1>5, Moves DEF LookUpText, TextSteps, TypeInv
  <2> QED
    BY <1>2, <1>3, <2>1 DEF GivenBy, Catalog!Given, Workspace
<1>6. CASE SkipForeignText(p)
  <2>1. /\ pc[p] \in TextSteps /\ NextText(p)
        /\ Foreign(p, Txts(p, TextId(p)))
    BY <1>6 DEF SkipForeignText, TextSteps
  <2>2. id = TextId(p) => Foreign(p, db.txts[id])
    BY <2>1, ClaimsVisible
  <2> QED
    BY <1>2, <1>3, <2>1, <2>2, NextGiven
<1>7. CASE DeleteProjection(p) \/ InsertProjection(p)
  <2>1. pc[p] \notin TextSteps /\ pc'[p] \notin TextSteps
    BY <1>7, Moves DEF TextSteps, TypeInv
  <2> QED
    BY <1>2, <1>3, <2>1 DEF GivenBy, Catalog!Given
<1> QED
  BY <1>4, <1>5, <1>6, <1>7

LEMMA PurgedUnderway ==
  ASSUME SerialInv, Isolation = "serial", NEW p \in Publishers,
         Begin(p) \/ Step(p) \/ Fail(p),
         pc[p] \in PurgedSteps, pc'[p] \in PurgedSteps
  PROVE  Underway(p)'
<1> USE DEF SerialInv, ShownInv, OwnInv, LockInv
<1>1. ~Wait(p)
  BY NobodyWaits
<1>2. TextsPlaced(p)'
  BY <1>1, PurgedStepsOnly, TextsReadUnderway, TextsDeletedUnderway,
     TextsWrittenUnderway
<1> QED
  BY <1>2, DefinitionsSettled, TextsChecked, NamedAtLast DEF Underway

-----------------------------------------------------------------------------
(***************************************************************************)
(* Every step keeps the invariant.                                         *)
(***************************************************************************)
LEMMA OwnUnderway ==
  ASSUME SerialInv, Isolation = "serial", NEW p \in Publishers,
         Begin(p) \/ Step(p) \/ Fail(p)
  PROVE  Identified(p)' /\ Underway(p)'
<1> USE DEF SerialInv, ShownInv, OwnInv, LockInv
<1>1. ~Wait(p) /\ TypeOK
  BY NobodyWaits DEF TypeInv
<1>2. CASE ~Active(p)'
  <2>1. pc'[p] = "disable" => Begin(p)
    BY <1>1, Moves DEF Step
  <2>2. Begin(p) => (pc'[p] = "disable" => call'[p].identified)
    BY <1>1 DEF Begin, Goto, TypeOK
  <2> QED
    BY <1>2, <2>1, <2>2 DEF Identified, Underway
<1>3. CASE Active(p)'
  <2>1. Identified(p)'
    <3>1. Active(p) \/ pc[p] = "disable"
      BY <1>1, <1>3, Activated, Moves
    <3> QED
      BY <1>3, <3>1, Working DEF Identified
  <2>2. \/ Disable(p)
        \/ GetDefinition(p) \/ ReadHistory(p) \/ RecordVersion(p)
        \/ VersionNotInserted(p) \/ RecheckHistory(p)
        \/ SkipForeign(p) \/ UpdateDefinition(p) \/ InsertDefinition(p) \/ Purge(p)
        \/ pc[p] \in PurgedSteps /\ pc'[p] \in PurgedSteps
    BY <1>1, <1>3, Moves DEF Step, Active, PurgedSteps
  <2>3. Underway(p)'
    BY <1>3, <2>2, DisableUnderway, LookUpUnderway, SkipUnderway, WriteUnderway,
       PurgeUnderway, PurgedUnderway
  <2> QED
    BY <2>1, <2>3
<1> QED
  BY <1>2, <1>3

LEMMA SerialStep ==
  ASSUME SerialInv, Isolation = "serial", NEW p \in Publishers,
         Begin(p) \/ Step(p) \/ Fail(p)
  PROVE  SerialInv'
<1>1. ShownInv'
  BY ShownStep DEF SerialInv, Separated
<1> QED
  BY <1>1, OwnUnderway, OthersUnderway DEF SerialInv

LEMMA InitSerial == Init => SerialInv
<1> SUFFICES ASSUME Init PROVE SerialInv
  OBVIOUS
<1>1. \A p \in Publishers : ~Active(p) /\ pc[p] # "disable"
  BY DEF Init, Active
<1> QED
  BY <1>1, InitShown DEF SerialInv, Identified, Underway

LEMMA StutterSerial == SerialInv /\ UNCHANGED vars => SerialInv'
<1> SUFFICES ASSUME SerialInv, UNCHANGED vars PROVE SerialInv'
  OBVIOUS
<1>1. ShownInv'
  BY StutterShown DEF SerialInv
<1>2. ASSUME NEW p \in Publishers
      PROVE  Identified(p)' /\ Underway(p)'
  <2>1. Stands(p)
    BY DEF vars, Stands
  <2> QED
    BY <2>1, StandsUnderway DEF SerialInv
<1> QED
  BY <1>1, <1>2 DEF SerialInv

THEOREM SerialInvariant ==
  ASSUME Isolation = "serial"
  PROVE  Spec => []SerialInv
<1>1. SerialInv /\ [Next]_vars => SerialInv'
  BY SerialStep, StutterSerial DEF Next
<1> QED
  BY <1>1, InitSerial, PTL DEF Spec

-----------------------------------------------------------------------------
(***************************************************************************)
(* A commit publishes the snapshot.                                        *)
(***************************************************************************)
\* Everything is placed and every workspace dealt with.
LEMMA AllDone ==
  ASSUME SerialInv, NEW p \in Publishers, pc[p] = "synced"
  PROVE  /\ Placed(p) = DOMAIN call[p].defs /\ Checked(p) = DOMAIN call[p].defs
         /\ \A id \in TextIds :
              Spoken(p, id) /\ GivenBy(p, id) = Catalog!Given(call[p], id)
         /\ Active(p) /\ Underway(p) /\ Identified(p)
         /\ call[p] \in Snapshots
<1> USE DEF SerialInv, ShownInv, OwnInv, LockInv
<1>1. Placed(p) = DOMAIN call[p].defs /\ Checked(p) = DOMAIN call[p].defs
  BY DEF Placed, Checked, DefinitionSteps
<1>2. DoneWith(p) = DOMAIN WorkspaceOrder
  BY DEF DoneWith
<1>3. \A id \in TextIds :
        Spoken(p, id) /\ GivenBy(p, id) = Catalog!Given(call[p], id)
  <2> SUFFICES ASSUME NEW id \in TextIds
               PROVE  Spoken(p, id) /\ GivenBy(p, id) = Catalog!Given(call[p], id)
    OBVIOUS
  <2>1. Spoken(p, id)
    BY <1>2 DEF Spoken, TextIds, Workspaces
  <2>2. GivenBy(p, id) = Catalog!Given(call[p], id)
    BY DEF GivenBy, TextSteps
  <2> QED
    BY <2>1, <2>2
<1> QED
  BY <1>1, <1>3 DEF Active, TypeInv, Position, InPlace

LEMMA CommitAccepted ==
  ASSUME SerialInv, NEW p \in Publishers, pc[p] = "synced"
  PROVE  Catalog!Accepts(db, call[p])
<1>1. /\ Checked(p) = DOMAIN call[p].defs /\ DefinitionsAccepted(p)
      /\ TextsAccepted(p) /\ call[p].identified
  BY AllDone DEF Underway, Identified
<1>2. Catalog!TextsValid(call[p])
  BY <1>1 DEF TextsAccepted, PurgedSteps, TextsValid, Workspaces,
              Catalog!TextsValid, Catalog!Workspaces
<1>3. ASSUME NEW i \in DOMAIN call[p].defs
      PROVE  LET e == call[p].defs[i] IN
             /\ e.valid
             /\ Catalog!Claimable(db, call[p], e.res) =>
                  /\ Catalog!Consistent(call[p], e)
                  /\ Catalog!Compatible(db, call[p], e)
  BY <1>1 DEF DefinitionsAccepted, Claims, Catalog!Consistent, Catalog!Entries
<1> QED
  BY <1>1, <1>2, <1>3 DEF Catalog!Accepts

LEMMA CommitsDefinitions ==
  ASSUME SerialInv, NEW p \in Publishers, pc[p] = "synced", NEW r \in Resources
  PROVE  Defs(p, r) = Catalog!CatalogAfter(db, call[p])[r]
<1> USE DEF SerialInv, ShownInv, OwnInv
<1> DEFINE s == call[p]
<1>1. RowsPlaced(p) /\ Placed(p) = DOMAIN s.defs
  BY AllDone DEF Underway
<1>2. Catalog!CatalogAfter(db, s)[r] =
        IF ~Claims(p, r) THEN db.defs[r]
        ELSE IF Catalog!Entries(s, r) = {} THEN Absent
        ELSE Catalog!PublishedRow(s, Catalog!Entry(s, r))
  BY DEF Catalog!CatalogAfter, Claims
<1>3. CASE ~Claims(p, r)
  <2>1. tx[p].defs[r] = Clean
    BY <1>3 DEF OwnRows, Writes, Claims, Catalog!Claimable, Source
  <2> QED
    BY <1>2, <1>3, <2>1 DEF Defs, Over
<1>4. CASE Claims(p, r) /\ Catalog!Entries(s, r) = {}
  <2>1. \A i \in Placed(p) : s.defs[i].res # r
    BY <1>1, <1>4 DEF Catalog!Entries
  <2>2. Defs(p, r) = Absent
    BY <1>1, <1>4, <2>1 DEF RowsPlaced, NotPlaced, PurgedSteps
  <2> QED
    BY <1>2, <1>4, <2>2
<1>5. CASE Claims(p, r) /\ Catalog!Entries(s, r) # {}
  <2>1. PICK i \in DOMAIN s.defs :
          s.defs[i].res = r /\ Catalog!Entry(s, r) = s.defs[i]
    BY <1>5 DEF Catalog!Entries, Catalog!Entry
  <2>2. Defs(p, r) = PublishedRow(s, s.defs[i])
    BY <1>1, <1>5, <2>1 DEF RowsPlaced
  <2> QED
    BY <1>2, <1>5, <2>1, <2>2 DEF PublishedRow, Catalog!PublishedRow
<1> QED
  BY <1>3, <1>4, <1>5

LEMMA CommitsHistory ==
  ASSUME SerialInv, NEW p \in Publishers, pc[p] = "synced", NEW v \in VersionIds
  PROVE  Vers(p, v) = Catalog!HistoryAfter(db, call[p])[v]
<1> USE DEF SerialInv, ShownInv, OwnInv
<1> DEFINE s == call[p]
<1>1. /\ HistoryKept(p) /\ DefinitionsAccepted(p) /\ Checked(p) = DOMAIN s.defs
  BY AllDone DEF Underway
<1>2. Catalog!HistoryAfter(db, s)[v] =
        IF Catalog!Records(db, s, v) THEN Catalog!Entry(s, v[1]).hash ELSE db.vers[v]
  BY DEF Catalog!HistoryAfter, VersionIds, Catalog!VersionIds
<1>3. v = <<v[1], v[2]>>
  BY DEF VersionIds
<1>4. CASE \E i \in DOMAIN s.defs :
             Changes(p, s.defs[i]) /\ v = <<s.defs[i].res, s.version>>
  <2>1. PICK i \in DOMAIN s.defs :
          Changes(p, s.defs[i]) /\ v = <<s.defs[i].res, s.version>>
    BY <1>4
  <2>2. v[1] = s.defs[i].res /\ v[2] = s.version
    BY <2>1
  <2>3. Vers(p, v) = s.defs[i].hash
    BY <1>1, <2>1 DEF HistoryKept
  <2>4. PICK j \in DOMAIN s.defs :
          s.defs[j].res = v[1] /\ Catalog!Entry(s, v[1]) = s.defs[j]
    BY <2>2 DEF Catalog!Entries, Catalog!Entry
  <2>5. s.defs[j].hash = s.defs[i].hash
    BY <1>1, <2>1, <2>2, <2>4 DEF DefinitionsAccepted, Changes
  <2>6. Catalog!ChangesContent(db, Catalog!Entry(s, v[1]))
    BY <2>1, <2>2, <2>4, <2>5 DEF Changes, Catalog!ChangesContent
  <2>7. Catalog!Records(db, s, v) <=> db.vers[v] = Absent
    BY <2>1, <2>2, <2>6 DEF Catalog!Records, Changes, Claims, Catalog!Entries
  <2>8. db.vers[v] # Absent => db.vers[v] = s.defs[i].hash
    <3>1. Catalog!Recordable(db, s, s.defs[i])
      BY <1>1, <2>1 DEF DefinitionsAccepted, Changes, Catalog!Compatible
    <3>2. v \in Catalog!SameId(v)
      BY DEF Catalog!SameId, VersionIds, Catalog!VersionIds
    <3> QED
      BY <2>1, <3>1, <3>2 DEF Catalog!Recordable
  <2> QED
    BY <1>2, <2>3, <2>4, <2>5, <2>7, <2>8
<1>5. CASE \A i \in DOMAIN s.defs :
             Changes(p, s.defs[i]) => v # <<s.defs[i].res, s.version>>
  <2>1. Vers(p, v) = db.vers[v]
    BY <1>1, <1>5 DEF HistoryKept
  <2>2. ~Catalog!Records(db, s, v)
    <3> SUFFICES ASSUME Catalog!Records(db, s, v) PROVE FALSE
      OBVIOUS
    <3>1. PICK j \in DOMAIN s.defs :
            s.defs[j].res = v[1] /\ Catalog!Entry(s, v[1]) = s.defs[j]
      BY DEF Catalog!Records, Catalog!Entries, Catalog!Entry
    <3>2. Changes(p, s.defs[j]) /\ v[2] = s.version
      BY <3>1 DEF Catalog!Records, Changes, Claims
    <3> QED
      BY <1>3, <1>5, <3>1, <3>2
  <2> QED
    BY <1>2, <2>1, <2>2
<1> QED
  BY <1>4, <1>5

LEMMA CommitsTexts ==
  ASSUME SerialInv, NEW p \in Publishers, pc[p] = "synced", NEW id \in TextIds
  PROVE  Txts(p, id) = Catalog!TextsAfter(db, call[p])[id]
<1> USE DEF SerialInv, ShownInv, OwnInv, LockInv
<1> DEFINE s == call[p]
           given == Catalog!Given(s, id)
<1>1. /\ TextsPlaced(p) /\ Spoken(p, id) /\ GivenBy(p, id) = given
      /\ s \in Snapshots
  BY AllDone DEF Underway
<1>2. Catalog!TextsAfter(db, s)[id] =
        IF s.texts[id[1]] = <<>> \/ Foreign(p, db.txts[id]) THEN db.txts[id]
        ELSE IF given = {} THEN Absent
        ELSE [text |-> Catalog!FinalText(s, id).text, source |-> s.source]
  BY DEF Catalog!TextsAfter, Foreign, Source, TextIds, Catalog!TextIds,
         Workspaces, Catalog!Workspaces
<1>3. CASE s.texts[id[1]] = <<>>
  BY <1>1, <1>2, <1>3 DEF TextsPlaced, Txts, Over
<1>4. CASE Foreign(p, db.txts[id])
  <2>1. tx[p].txts[id] = Clean
    BY <1>4 DEF OwnRows, Writes, Foreign
  <2> QED
    BY <1>2, <1>4, <2>1 DEF Txts, Over
<1>5. CASE s.texts[id[1]] # <<>> /\ ~Foreign(p, db.txts[id])
  <2>1. \/ given = {} /\ Txts(p, id) = Absent
        \/ LastGiven(p, id, Txts(p, id))
    BY <1>1, <1>5 DEF TextsPlaced
  <2>2. ASSUME LastGiven(p, id, Txts(p, id))
        PROVE  Txts(p, id) = Catalog!TextsAfter(db, s)[id]
    <3>1. PICK i \in given :
            /\ \A j \in given : j <= i
            /\ Txts(p, id) = [text |-> s.texts[id[1]][i].text, source |-> Source(p)]
      BY <1>1, <2>2 DEF LastGiven
    <3> DEFINE last == CHOOSE k \in given : \A j \in given : j <= k
    <3>2. last \in given /\ \A j \in given : j <= last
      BY <3>1
    <3>3. given \subseteq Nat
      <4>1. id[1] \in Workspaces
        BY DEF TextIds
      <4>2. s.texts[id[1]] \in Seq(SnapshotText)
        BY <1>1, <4>1, SnapshotFields
      <4> QED
        BY <4>2 DEF Catalog!Given
    <3>4. last = i
      <4> HIDE DEF last, given
      <4>1. last \in Nat /\ i \in Nat /\ last <= i /\ i <= last
        BY <3>1, <3>2, <3>3
      <4> QED
        BY <4>1
    <3>5. Catalog!FinalText(s, id) = s.texts[id[1]][i]
      BY <3>4 DEF Catalog!FinalText
    <3> QED
      BY <1>2, <1>5, <3>1, <3>5 DEF Source
  <2> QED
    BY <1>2, <1>5, <2>1, <2>2
<1> QED
  BY <1>3, <1>4, <1>5

LEMMA CommitPublishes ==
  ASSUME SerialInv, NEW p \in Publishers, Commit(p)
  PROVE  /\ call[p] \in Snapshots
         /\ Catalog!Publish(call[p])
<1>1. pc[p] = "synced" /\ db' = Committed(p)
  BY DEF Commit
<1>2. [r \in Resources |-> Defs(p, r)] = Catalog!CatalogAfter(db, call[p])
  BY <1>1, CommitsDefinitions DEF Catalog!CatalogAfter
<1>3. [v \in VersionIds |-> Vers(p, v)] = Catalog!HistoryAfter(db, call[p])
  BY <1>1, CommitsHistory DEF Catalog!HistoryAfter, VersionIds, Catalog!VersionIds
<1>4. [i \in TextIds |-> Txts(p, i)] = Catalog!TextsAfter(db, call[p])
  BY <1>1, CommitsTexts DEF Catalog!TextsAfter, TextIds, Catalog!TextIds,
                            Workspaces, Catalog!Workspaces
<1>5. [c \in {Current} |-> Proj(p)] = Catalog!ProjectionAfter(call[p])
  <2>1. Proj(p) = [version |-> call[p].version, source |-> call[p].source]
    BY <1>1, AllDone DEF Underway, Named, Source
  <2> QED
    BY <2>1 DEF Catalog!ProjectionAfter, Current, Catalog!Current
<1>6. db' = Catalog!After(db, call[p])
  BY <1>1, <1>2, <1>3, <1>4, <1>5 DEF Committed, Catalog!After
<1> QED
  BY <1>1, <1>6, CommitAccepted, AllDone DEF Catalog!Publish

\* On an engine with one writer, whatever Sync calls interleave and whatever
\* fails, what is committed is a sequence of whole publications, each of a
\* snapshot that is accepted by the tables it meets.
THEOREM SerialSyncImplementsCatalog ==
  ASSUME Isolation = "serial"
  PROVE  Spec => ImplementsCatalog
<1>1. Init => Catalog!Init
  BY DEF Init, Catalog!Init, EmptyDatabase, Catalog!EmptyDatabase, VersionIds,
         Catalog!VersionIds, TextIds, Catalog!TextIds, Workspaces,
         Catalog!Workspaces, Current, Catalog!Current
<1>2. SerialInv /\ [Next]_vars => [Catalog!Next]_db
  <2> SUFFICES ASSUME SerialInv, [Next]_vars
               PROVE  Catalog!Next \/ db' = db
    OBVIOUS
  <2>1. CASE UNCHANGED vars
    BY <2>1 DEF vars
  <2>2. ASSUME NEW p \in Publishers, Commit(p)
        PROVE  Catalog!Next
    BY <2>2, CommitPublishes DEF Catalog!Next
  <2>3. ASSUME NEW p \in Publishers, Begin(p) \/ Step(p) \/ Fail(p), ~Commit(p)
        PROVE  db' = db
    BY <2>3, OnlyCommitPublishes DEF SerialInv, ShownInv, OwnInv, LockInv
  <2> QED
    BY <2>1, <2>2, <2>3 DEF Next
<1> QED
  BY <1>1, <1>2, SerialInvariant, PTL DEF Spec, ImplementsCatalog, Catalog!Spec

=============================================================================
