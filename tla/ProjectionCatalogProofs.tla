---------------------- MODULE ProjectionCatalogProofs ----------------------
(***************************************************************************)
(* Proofs about ProjectionCatalog, for any resources, versions, sources    *)
(* and snapshots.                                                          *)
(***************************************************************************)
EXTENDS ProjectionCatalog, WellFoundedInduction, TLAPS

\* What the assumption on Snapshots says of one of them.
LEMMA SnapshotFields ==
  ASSUME NEW s \in Snapshots
  PROVE  /\ s.identified \in BOOLEAN
         /\ s.version \in Versions
         /\ s.source \in Sources
         /\ s.defs \in Seq(SnapshotDefinition)
         /\ s.texts \in [Workspaces -> Seq(SnapshotText)]
BY SnapshotsTyped DEF ProjectionSnapshot

LEMMA DefinitionTyped ==
  ASSUME NEW s \in Snapshots, NEW i \in DOMAIN s.defs
  PROVE  /\ s.defs[i] \in SnapshotDefinition
         /\ s.defs[i].res \in Resources
         /\ s.defs[i].hash \in Hashes
<1>1. s.defs \in Seq(SnapshotDefinition)
  BY SnapshotFields
<1>2. s.defs[i] \in SnapshotDefinition
  BY <1>1
<1> QED
  BY <1>2 DEF SnapshotDefinition

LEMMA EntryIsEntry ==
  ASSUME NEW s, NEW r, Entries(s, r) # {}
  PROVE  \E i \in DOMAIN s.defs : s.defs[i].res = r /\ Entry(s, r) = s.defs[i]
BY DEF Entries, Entry

LEMMA EntryTyped ==
  ASSUME NEW s \in Snapshots, NEW r \in Resources, Entries(s, r) # {}
  PROVE  /\ Entry(s, r) \in SnapshotDefinition
         /\ Entry(s, r).res = r
<1>1. PICK i \in DOMAIN s.defs : s.defs[i].res = r /\ Entry(s, r) = s.defs[i]
  BY EntryIsEntry
<1> QED
  BY <1>1, DefinitionTyped

(***************************************************************************)
(* A publication leaves rows of the right types.                           *)
(***************************************************************************)
LEMMA FinalTextTyped ==
  ASSUME NEW s \in Snapshots, NEW id \in TextIds, Given(s, id) # {}
  PROVE  FinalText(s, id) \in SnapshotText
<1> DEFINE ts == s.texts[id[1]]
<1>1. ts \in Seq(SnapshotText)
  BY SnapshotFields DEF TextIds
<1>2. DOMAIN ts = 1..Len(ts) /\ Len(ts) \in Nat
  BY <1>1
<1>3. Given(s, id) \in SUBSET (1..Len(ts))
  BY <1>2 DEF Given
<1>4. \E m \in Given(s, id) : \A j \in Given(s, id) : j <= m
  <2> DEFINE Below == {Len(ts) - i : i \in Given(s, id)}
  <2>1. Below \in SUBSET Nat /\ Below # {}
    BY <1>2, <1>3
  <2>2. PICK n \in Below : \A k \in Below : <<k, n>> \notin OpToRel(<, Nat)
    BY <2>1, NatLessThanWellFounded, WFMin
  <2>3. PICK m \in Given(s, id) : n = Len(ts) - m
    OBVIOUS
  <2>4. ASSUME NEW j \in Given(s, id) PROVE j <= m
    <3>1. Len(ts) - j \in Below
      OBVIOUS
    <3>2. ~(Len(ts) - j < n)
      BY <2>1, <2>2, <3>1 DEF OpToRel
    <3>3. j \in 1..Len(ts) /\ m \in 1..Len(ts)
      BY <1>3
    <3> HIDE DEF Below, ts
    <3> QED
      BY <3>2, <3>3, <2>3, <1>2
  <2> QED
    BY <2>4
<1>5. (CHOOSE i \in Given(s, id) : \A j \in Given(s, id) : j <= i) \in 1..Len(ts)
  BY <1>3, <1>4
<1> QED
  BY <1>1, <1>2, <1>5 DEF FinalText

LEMMA PublishTyped ==
  ASSUME NEW d \in Database, NEW s \in Snapshots
  PROVE  After(d, s) \in Database
<1>1. CatalogAfter(d, s) \in [Resources -> DefinitionRow \cup {Absent}]
  <2>1. ASSUME NEW r \in Resources, Entries(s, r) # {}
        PROVE  PublishedRow(s, Entry(s, r)) \in DefinitionRow
    <3>1. Entry(s, r).hash \in Hashes
      BY <2>1, EntryTyped DEF SnapshotDefinition
    <3> QED
      BY <3>1, SnapshotFields DEF PublishedRow, DefinitionRow
  <2> QED
    BY <2>1 DEF CatalogAfter, Database
<1>2. HistoryAfter(d, s) \in [VersionIds -> Hashes \cup {Absent}]
  <2>1. ASSUME NEW id \in VersionIds, Records(d, s, id)
        PROVE  Entry(s, id[1]).hash \in Hashes
    BY <2>1, EntryTyped DEF SnapshotDefinition, Records, VersionIds
  <2> QED
    BY <2>1 DEF HistoryAfter, Database
<1>3. TextsAfter(d, s) \in [TextIds -> TextRow \cup {Absent}]
  <2>1. ASSUME NEW id \in TextIds, Given(s, id) # {}
        PROVE  [text |-> FinalText(s, id).text, source |-> s.source] \in TextRow
    BY <2>1, FinalTextTyped, SnapshotFields DEF SnapshotText, TextRow
  <2> QED
    BY <2>1 DEF TextsAfter, Database
<1>4. ProjectionAfter(s) \in [{Current} -> ProjectionRow \cup {Absent}]
  BY SnapshotFields DEF ProjectionAfter, ProjectionRow
<1> QED
  BY <1>1, <1>2, <1>3, <1>4 DEF After, Database

\* The tables only ever hold rows of their types.
THEOREM TypeCorrect == Spec => []TypeOK
<1>1. Init => TypeOK
  BY DEF Init, TypeOK, EmptyDatabase, Database
<1>2. TypeOK /\ [Next]_db => TypeOK'
  BY PublishTyped DEF TypeOK, Next, Publish
<1> QED
  BY <1>1, <1>2, PTL DEF Spec

(***************************************************************************)
(* Publishing an accepted snapshot again changes nothing.  After the first *)
(* time every definition the source may claim stands with the snapshot's   *)
(* hash, so the history is not even consulted.                             *)
(***************************************************************************)
LEMMA ClaimsPersist ==
  ASSUME NEW d, NEW s, NEW r \in Resources
  PROVE  Claimable(After(d, s), s, r) <=> Claimable(d, s, r)
BY DEF Claimable, After, CatalogAfter, PublishedRow

LEMMA ClaimedContentStands ==
  ASSUME NEW d, NEW s \in Snapshots, Accepts(d, s),
         NEW i \in DOMAIN s.defs, Claimable(d, s, s.defs[i].res)
  PROVE  ~ChangesContent(After(d, s), s.defs[i])
<1> DEFINE e == s.defs[i]
<1>1. e.res \in Resources
  BY DefinitionTyped
<1>2. i \in Entries(s, e.res)
  BY DEF Entries
<1>3. PICK j \in DOMAIN s.defs : s.defs[j].res = e.res /\ Entry(s, e.res) = s.defs[j]
  BY <1>2, EntryIsEntry
<1>4. s.defs[j].hash = e.hash
  BY <1>3 DEF Accepts, Consistent, Entries
<1>5. After(d, s).defs[e.res] = PublishedRow(s, s.defs[j])
  BY <1>1, <1>2, <1>3 DEF After, CatalogAfter
<1>6. PublishedRow(s, s.defs[j]) \in DefinitionRow
  BY SnapshotFields, DefinitionTyped DEF PublishedRow, DefinitionRow
<1>7. PublishedRow(s, s.defs[j]).hash = e.hash
  BY <1>4 DEF PublishedRow
<1>8. PublishedRow(s, s.defs[j]) # Absent
  BY <1>6, AbsentIsNoRow
<1> QED
  BY <1>5, <1>7, <1>8 DEF ChangesContent

LEMMA ReplayAccepted ==
  ASSUME NEW d, NEW s \in Snapshots, Accepts(d, s)
  PROVE  Accepts(After(d, s), s)
<1>1. ASSUME NEW i \in DOMAIN s.defs, Claimable(After(d, s), s, s.defs[i].res)
      PROVE  Consistent(s, s.defs[i]) /\ Compatible(After(d, s), s, s.defs[i])
  <2>1. s.defs[i].res \in Resources
    BY DefinitionTyped
  <2>2. Claimable(d, s, s.defs[i].res)
    BY <1>1, <2>1, ClaimsPersist
  <2>3. ~ChangesContent(After(d, s), s.defs[i])
    BY <2>2, ClaimedContentStands
  <2> QED
    BY <2>2, <2>3 DEF Accepts, Compatible
<1> QED
  BY <1>1 DEF Accepts

LEMMA ReplayUnchanged ==
  ASSUME NEW d \in Database, NEW s \in Snapshots, Accepts(d, s)
  PROVE  After(After(d, s), s) = After(d, s)
<1> DEFINE n == After(d, s)
<1>1. CatalogAfter(n, s) = CatalogAfter(d, s)
  <2>1. ASSUME NEW r \in Resources
        PROVE  CatalogAfter(n, s)[r] = CatalogAfter(d, s)[r]
    <3>1. CASE Claimable(d, s, r)
      BY <3>1, ClaimsPersist DEF CatalogAfter
    <3>2. CASE ~Claimable(d, s, r)
      <4>1. n.defs[r] = d.defs[r]
        BY <3>2 DEF After, CatalogAfter
      <4> QED
        BY <3>2, <4>1, ClaimsPersist DEF CatalogAfter
    <3> QED
      BY <3>1, <3>2
  <2> QED
    BY <2>1 DEF CatalogAfter
<1>2. HistoryAfter(n, s) = HistoryAfter(d, s)
  <2>1. ASSUME NEW id \in VersionIds, Records(n, s, id)
        PROVE  FALSE
    <3>1. id[1] \in Resources
      BY DEF VersionIds
    <3>2. PICK i \in DOMAIN s.defs :
            s.defs[i].res = id[1] /\ Entry(s, id[1]) = s.defs[i]
      BY <2>1, EntryIsEntry DEF Records
    <3>3. Claimable(d, s, s.defs[i].res)
      BY <2>1, <3>1, <3>2, ClaimsPersist DEF Records
    <3>4. ~ChangesContent(n, s.defs[i])
      BY <3>3, ClaimedContentStands
    <3> QED
      BY <2>1, <3>2, <3>4 DEF Records
  <2>2. \A id \in VersionIds : HistoryAfter(n, s)[id] = n.vers[id]
    BY <2>1 DEF HistoryAfter
  <2>3. n.vers = HistoryAfter(d, s)
    BY DEF After
  <2> QED
    BY <2>2, <2>3 DEF HistoryAfter
<1>3. TextsAfter(n, s) = TextsAfter(d, s)
  <2>1. ASSUME NEW id \in TextIds
        PROVE  TextsAfter(n, s)[id] = TextsAfter(d, s)[id]
    <3>1. n.txts[id] = TextsAfter(d, s)[id]
      BY DEF After
    <3>2. CASE \/ s.texts[id[1]] = <<>>
               \/ d.txts[id] # Absent /\ d.txts[id].source # s.source
      BY <3>1, <3>2 DEF TextsAfter
    <3>3. CASE ~(\/ s.texts[id[1]] = <<>>
                 \/ d.txts[id] # Absent /\ d.txts[id].source # s.source)
      BY <3>1, <3>3 DEF TextsAfter
    <3> QED
      BY <3>2, <3>3
  <2> QED
    BY <2>1 DEF TextsAfter
<1> QED
  BY <1>1, <1>2, <1>3 DEF After

\* An application that starts again republishes what it published before;
\* that is always accepted and never changes a row.
THEOREM ReplayIdempotent == Spec => []ReplayIsIdempotent
<1>1. TypeOK => ReplayIsIdempotent
  BY ReplayAccepted, ReplayUnchanged DEF TypeOK, ReplayIsIdempotent
<1> QED
  BY <1>1, TypeCorrect, PTL

(***************************************************************************)
(* Publications of independent sources commute.  Neither changes the rows  *)
(* or the versions that decide what the other does.                        *)
(***************************************************************************)
LEMMA IndependenceIsMutual ==
  ASSUME NEW d, NEW s \in Snapshots, NEW t \in Snapshots, Independent(d, s, t)
  PROVE  Independent(d, t, s)
BY DEF Independent

LEMMA ClaimedRowsStand ==
  ASSUME NEW d, NEW s \in Snapshots, NEW t \in Snapshots, Independent(d, s, t),
         NEW r \in Resources, Entries(t, r) # {}
  PROVE  After(d, s).defs[r] = d.defs[r]
<1>1. Entries(s, r) = {} /\ Claimable(d, t, r) /\ s.source # t.source
  BY DEF Independent, Entries
<1> QED
  BY <1>1 DEF After, CatalogAfter, Claimable

LEMMA ClaimedIdsStand ==
  ASSUME NEW d, NEW s \in Snapshots, NEW t \in Snapshots, Independent(d, s, t),
         NEW r \in Resources, Entries(t, r) # {},
         NEW v \in SameId(<<r, t.version>>)
  PROVE  After(d, s).vers[v] = d.vers[v]
<1>1. v \in VersionIds /\ IdOf[v] = IdOf[<<r, t.version>>]
  BY DEF SameId
<1>2. PICK j \in DOMAIN t.defs : t.defs[j].res = r
  BY DEF Entries
<1>3. ~Records(d, s, v)
  <2> SUFFICES ASSUME Records(d, s, v) PROVE FALSE
    OBVIOUS
  <2>1. PICK i \in DOMAIN s.defs : s.defs[i].res = v[1]
    BY DEF Records, Entries
  <2>2. v = <<s.defs[i].res, s.version>>
    BY <1>1, <2>1 DEF Records, VersionIds
  <2> QED
    BY <1>1, <1>2, <2>2 DEF Independent
<1> QED
  BY <1>1, <1>3 DEF After, HistoryAfter

LEMMA IndependentAccepted ==
  ASSUME NEW d, NEW s \in Snapshots, NEW t \in Snapshots,
         Independent(d, s, t), Accepts(d, t)
  PROVE  Accepts(After(d, s), t)
<1> DEFINE n == After(d, s)
<1>1. ASSUME NEW j \in DOMAIN t.defs, Claimable(n, t, t.defs[j].res)
      PROVE  Consistent(t, t.defs[j]) /\ Compatible(n, t, t.defs[j])
  <2> DEFINE e  == t.defs[j]
             id == <<e.res, t.version>>
  <2>1. e.res \in Resources /\ Entries(t, e.res) # {}
    BY DefinitionTyped DEF Entries
  <2>2. n.defs[e.res] = d.defs[e.res]
    BY <2>1, ClaimedRowsStand
  <2>3. \A v \in SameId(id) : n.vers[v] = d.vers[v]
    BY <2>1, ClaimedIdsStand
  <2>4. id \in SameId(id)
    BY <2>1, SnapshotFields DEF SameId, VersionIds
  <2>5. Consistent(t, e) /\ Compatible(d, t, e)
    BY <1>1, <2>2 DEF Accepts, Claimable
  <2>6. Recordable(n, t, e) <=> Recordable(d, t, e)
    BY <2>3, <2>4 DEF Recordable
  <2> QED
    BY <2>2, <2>5, <2>6 DEF Compatible, ChangesContent
<1> QED
  BY <1>1 DEF Accepts

\* What s does to a resource does not depend on what t did before.
LEMMA CatalogCommutes ==
  ASSUME NEW d, NEW s \in Snapshots, NEW t \in Snapshots, Independent(d, s, t),
         NEW r \in Resources
  PROVE  After(After(d, s), t).defs[r] = After(After(d, t), s).defs[r]
<1> DEFINE n == After(d, s)
           m == After(d, t)
<1>1. ASSUME NEW x \in Snapshots, NEW y \in Snapshots, Independent(d, x, y),
             Entries(x, r) # {}
      PROVE  After(After(d, x), y).defs[r] = After(After(d, y), x).defs[r]
  <2>1. Entries(y, r) = {} /\ Claimable(d, x, r) /\ x.source # y.source
    BY <1>1 DEF Independent, Entries
  <2>2. After(d, y).defs[r] = d.defs[r]
    BY <1>1, IndependenceIsMutual, ClaimedRowsStand
  <2>3. After(After(d, y), x).defs[r] = PublishedRow(x, Entry(x, r))
    BY <1>1, <2>1, <2>2 DEF After, CatalogAfter, Claimable
  <2>4. After(d, x).defs[r] = PublishedRow(x, Entry(x, r))
    BY <1>1, <2>1 DEF After, CatalogAfter
  <2>5. PublishedRow(x, Entry(x, r)) \in DefinitionRow
    BY <1>1, EntryTyped, SnapshotFields
       DEF PublishedRow, DefinitionRow, SnapshotDefinition
  <2>6. ~Claimable(After(d, x), y, r)
    <3> DEFINE row == PublishedRow(x, Entry(x, r))
    <3>1. row # Absent
      BY <2>5, AbsentIsNoRow
    <3>2. row.source = x.source
      BY DEF PublishedRow
    <3> QED
      BY <2>1, <2>4, <3>1, <3>2 DEF Claimable
  <2> QED
    BY <2>3, <2>4, <2>6 DEF After, CatalogAfter
<1>2. CASE Entries(s, r) # {}
  BY <1>1, <1>2
<1>3. CASE Entries(t, r) # {}
  BY <1>1, <1>3, IndependenceIsMutual
<1>4. CASE Entries(s, r) = {} /\ Entries(t, r) = {}
  BY <1>4 DEF After, CatalogAfter, Claimable
<1> QED
  BY <1>2, <1>3, <1>4

LEMMA RecordsStand ==
  ASSUME NEW d, NEW s \in Snapshots, NEW t \in Snapshots, Independent(d, s, t),
         NEW v \in VersionIds
  PROVE  /\ Records(After(d, s), t, v) <=> Records(d, t, v)
         /\ Records(d, t, v) => ~Records(d, s, v)
<1> DEFINE n == After(d, s)
<1>1. CASE Entries(t, v[1]) # {} /\ v[2] = t.version
  <2>1. v[1] \in Resources /\ v \in SameId(<<v[1], t.version>>)
    BY <1>1 DEF VersionIds, SameId
  <2>2. n.defs[v[1]] = d.defs[v[1]] /\ n.vers[v] = d.vers[v]
    BY <1>1, <2>1, ClaimedRowsStand, ClaimedIdsStand
  <2>3. Entry(t, v[1]).res = v[1]
    BY <1>1, <2>1, EntryTyped
  <2>4. Entries(s, v[1]) = {}
    BY <1>1 DEF Independent, Entries
  <2> QED
    BY <2>2, <2>3, <2>4 DEF Records, Claimable, ChangesContent
<1>2. CASE ~(Entries(t, v[1]) # {} /\ v[2] = t.version)
  BY <1>2 DEF Records
<1> QED
  BY <1>1, <1>2

LEMMA HistoryCommutes ==
  ASSUME NEW d, NEW s \in Snapshots, NEW t \in Snapshots, Independent(d, s, t),
         NEW v \in VersionIds
  PROVE  After(After(d, s), t).vers[v] = After(After(d, t), s).vers[v]
<1>1. /\ Records(After(d, s), t, v) <=> Records(d, t, v)
      /\ Records(After(d, t), s, v) <=> Records(d, s, v)
      /\ ~(Records(d, t, v) /\ Records(d, s, v))
  BY RecordsStand, IndependenceIsMutual
<1>2. /\ After(d, s).vers[v] =
           IF Records(d, s, v) THEN Entry(s, v[1]).hash ELSE d.vers[v]
      /\ After(d, t).vers[v] =
           IF Records(d, t, v) THEN Entry(t, v[1]).hash ELSE d.vers[v]
  BY DEF After, HistoryAfter
<1>3. /\ After(After(d, s), t).vers[v] =
           IF Records(After(d, s), t, v) THEN Entry(t, v[1]).hash
           ELSE After(d, s).vers[v]
      /\ After(After(d, t), s).vers[v] =
           IF Records(After(d, t), s, v) THEN Entry(s, v[1]).hash
           ELSE After(d, t).vers[v]
  <2>1. ASSUME NEW e, NEW x
        PROVE  After(e, x).vers[v] =
                 IF Records(e, x, v) THEN Entry(x, v[1]).hash ELSE e.vers[v]
    BY DEF After, HistoryAfter
  <2> QED
    BY <2>1
<1> QED
  BY <1>1, <1>2, <1>3

\* Modules may publish in any order: whatever two sources publish that share
\* neither a resource nor a version id, both orders are accepted and give the
\* same definitions and the same history.
THEOREM IndependentCommute == Spec => []IndependentSourcesCommute
<1>1. ASSUME NEW s \in Snapshots, NEW t \in Snapshots,
             Independent(db, s, t), Accepts(db, s), Accepts(db, t)
      PROVE  LET st == After(After(db, s), t)
                 ts == After(After(db, t), s)
             IN  /\ Accepts(After(db, s), t)
                 /\ st.defs = ts.defs
                 /\ st.vers = ts.vers
  <2>1. Accepts(After(db, s), t)
    BY <1>1, IndependentAccepted
  <2>2. After(After(db, s), t).defs = After(After(db, t), s).defs
    BY <1>1, CatalogCommutes DEF After, CatalogAfter
  <2>3. After(After(db, s), t).vers = After(After(db, t), s).vers
    BY <1>1, HistoryCommutes DEF After, HistoryAfter
  <2> QED
    BY <2>1, <2>2, <2>3
<1>2. IndependentSourcesCommute
  BY <1>1 DEF IndependentSourcesCommute
<1> QED
  BY <1>2, PTL

=============================================================================
