------------------------- MODULE ProjectionCatalog -------------------------
(***************************************************************************)
(* What a projection Sync promises, with no transaction and no statement   *)
(* in sight: a snapshot is accepted or rejected as a whole, and an         *)
(* accepted one takes effect in one step.                                  *)
(*                                                                         *)
(* The result is stated in closed form, row by row, not as the loop over   *)
(* the snapshot that the code runs.  SyncProjection is checked to          *)
(* implement this module.                                                  *)
(***************************************************************************)
EXTENDS MetadataSchema

VARIABLE db        \* the committed tables

(***************************************************************************)
(* A row belongs to the source that wrote it; a source may claim only      *)
(* resources that no other source holds.                                   *)
(***************************************************************************)
Claimable(d, s, r) == d.defs[r] = Absent \/ d.defs[r].source = s.source

Entries(s, r) == {i \in DOMAIN s.defs : s.defs[i].res = r}

Entry(s, r) == s.defs[CHOOSE i \in Entries(s, r) : TRUE]

\* The definition changes the resource's content, so the version history
\* is consulted for it.
ChangesContent(d, e) ==
  d.defs[e.res] = Absent \/ d.defs[e.res].hash # e.hash

\* The version is recorded with this content, or it can be: its id is free.
Recordable(d, s, e) ==
  LET id == <<e.res, s.version>> IN
  \/ d.vers[id] = e.hash
  \/ \A v \in SameId(id) : d.vers[v] = Absent

\* Mutant: the history is consulted for unchanged content too.
CompatibleAlways(d, s, e) ==
  /\ d.defs[e.res] # Absent => d.defs[e.res].version # s.version
  /\ Recordable(d, s, e)

Compatible(d, s, e) ==
  ChangesContent(d, e) =>
    /\ d.defs[e.res] # Absent => d.defs[e.res].version # s.version
    /\ Recordable(d, s, e)

Consistent(s, e) == \A j \in Entries(s, e.res) : s.defs[j].hash = e.hash

Accepts(d, s) ==
  /\ s.identified
  /\ TextsValid(s)
  /\ \A i \in DOMAIN s.defs :
       LET e == s.defs[i] IN
       /\ e.valid
       /\ Claimable(d, s, e.res) => Consistent(s, e) /\ Compatible(d, s, e)

(***************************************************************************)
(* The tables after an accepted snapshot.                                  *)
(***************************************************************************)
\* Mutant: the purge is not restricted to the source.
CatalogAfterPurge(d, s) ==
  [r \in Resources |->
     IF Entries(s, r) = {} THEN Absent
     ELSE IF ~Claimable(d, s, r) THEN d.defs[r]
     ELSE PublishedRow(s, Entry(s, r))]

CatalogAfter(d, s) ==
  [r \in Resources |->
     IF ~Claimable(d, s, r) THEN d.defs[r]
     ELSE IF Entries(s, r) = {} THEN Absent
     ELSE PublishedRow(s, Entry(s, r))]

Records(d, s, id) ==
  /\ d.vers[id] = Absent
  /\ id[2] = s.version
  /\ Claimable(d, s, id[1])
  /\ Entries(s, id[1]) # {}
  /\ ChangesContent(d, Entry(s, id[1]))

\* Mutant: the version is stored where the hash belongs.
HistoryAfterSwapped(d, s) ==
  [id \in VersionIds |->
     IF Records(d, s, id) THEN s.version ELSE d.vers[id]]

HistoryAfter(d, s) ==
  [id \in VersionIds |->
     IF Records(d, s, id) THEN Entry(s, id[1]).hash ELSE d.vers[id]]

\* Of several texts for one key the last one counts.
Given(s, id) == {i \in DOMAIN s.texts[id[1]] : s.texts[id[1]][i].key = id[2]}

FinalText(s, id) ==
  s.texts[id[1]][CHOOSE i \in Given(s, id) : \A j \in Given(s, id) : j <= i]

\* Only workspaces the snapshot mentions are touched.
TextsAfter(d, s) ==
  [id \in TextIds |->
     IF \/ s.texts[id[1]] = <<>>
        \/ d.txts[id] # Absent /\ d.txts[id].source # s.source
     THEN d.txts[id]
     ELSE IF Given(s, id) = {} THEN Absent
     ELSE [text |-> FinalText(s, id).text, source |-> s.source]]

ProjectionAfter(s) ==
  [c \in {Current} |-> [version |-> s.version, source |-> s.source]]

After(d, s) ==
  [defs |-> CatalogAfter(d, s),
   vers |-> HistoryAfter(d, s),
   txts |-> TextsAfter(d, s),
   proj |-> ProjectionAfter(s)]

-----------------------------------------------------------------------------
Init == db = EmptyDatabase

Publish(s) ==
  /\ Accepts(db, s)
  /\ db' = After(db, s)

Next == \E s \in Snapshots : Publish(s)

Spec == Init /\ [][Next]_db

-----------------------------------------------------------------------------
(***************************************************************************)
(* Properties.                                                             *)
(***************************************************************************)
TypeOK == db \in Database

\* Publishing an accepted snapshot a second time, as an application does on
\* every start, is accepted and changes nothing ("replaying the same content
\* is idempotent", README.md).
ReplayIsIdempotent ==
  \A s \in Snapshots :
    Accepts(db, s) => /\ Accepts(After(db, s), s)
                      /\ After(After(db, s), s) = After(db, s)

\* Neither source holds, or asks for, a row or a version id the other asks
\* for.
Independent(d, s, t) ==
  /\ s.source # t.source
  /\ \A i \in DOMAIN s.defs, j \in DOMAIN t.defs :
       /\ s.defs[i].res # t.defs[j].res
       /\ IdOf[<<s.defs[i].res, s.version>>] # IdOf[<<t.defs[j].res, t.version>>]
  /\ \A i \in DOMAIN s.defs : Claimable(d, s, s.defs[i].res)
  /\ \A j \in DOMAIN t.defs : Claimable(d, t, t.defs[j].res)

\* The modules of an application may publish in any order: the definitions
\* and the history come out the same, and neither makes the other fail.
IndependentSourcesCommute ==
  \A s, t \in Snapshots :
    Independent(db, s, t) /\ Accepts(db, s) /\ Accepts(db, t) =>
      LET st == After(After(db, s), t)
          ts == After(After(db, t), s)
      IN  /\ Accepts(After(db, s), t)
          /\ st.defs = ts.defs
          /\ st.vers = ts.vers

=============================================================================
