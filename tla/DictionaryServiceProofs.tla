----------------------- MODULE DictionaryServiceProofs -----------------------
(***************************************************************************)
(* Proofs about DictionaryService, for any number of calls inside and      *)
(* outside the host's transaction, any queries, publications and clock.    *)
(***************************************************************************)
EXTENDS DictionaryService, TLAPS

(***************************************************************************)
(* Where a call stands: what it has read by then has its type.             *)
(***************************************************************************)
HasContent == {"clock", "cache", "texts", "fill"}

InCall(r) ==
  /\ pc[r] # "idle" => query[r] \in Queries
  /\ pc[r] \in HasContent => content[r] \in Hashes \ Malformed
  /\ IF pc[r] = "fill" THEN labels[r] \in Readings(query[r])
     ELSE labels[r] = <<>>

TypeInv ==
  /\ TypeOK
  /\ DOMAIN past = {"committed", "draft"}
  /\ \A r \in Readers : InCall(r)

(***************************************************************************)
(* Nothing is of a later time than the clock shows.                        *)
(***************************************************************************)
Clocked ==
  /\ \A r \in Readers : started[r] <= clock
  /\ \A q \in Queries : cache[q] # NoEntry => cache[q].expires <= clock + TTL
  /\ \A where \in {"committed", "draft"} : \A txts \in DOMAIN past[where] :
       past[where][txts] <= clock

(***************************************************************************)
(* The labels a call has read could be read when it looked at the clock,   *)
(* or later; those of a cache entry, when the call that filled it did.     *)
(* Drafts are read by calls in the host's transaction alone.               *)
(***************************************************************************)
Readable == {"committed"} \cup IF HostReaders = {} THEN {} ELSE {"draft"}

ReadableSince(instant, q, t) ==
  \/ t = TextsIn(db, q)
  \/ HostReaders # {} /\ draft # NoDraft /\ t = TextsIn(draft, q)
  \/ \E where \in Readable : \E txts \in DOMAIN past[where] :
       Reading(txts, q) = t /\ past[where][txts] >= instant

ReadLabels ==
  \A r \in Readers : pc[r] = "fill" /\ query[r].locale # Blank =>
    ReadableSince(started[r], query[r], labels[r])

CachedLabels ==
  \A q \in Queries : cache[q] # NoEntry /\ q.locale # Blank =>
    ReadableSince(cache[q].expires - TTL, q, cache[q].items.labels)

LabelsInv == TypeInv /\ Clocked /\ ReadLabels /\ CachedLabels

(***************************************************************************)
(* What a call of Items can read now, and what it has read, is among the   *)
(* definitions it could have read; a cache entry's version is its          *)
(* content's.                                                              *)
(***************************************************************************)
ReadCurrent ==
  \A r \in Readers :
    /\ Asking(r) => DefinitionIn(Seen(r), query[r]) \in current[r]
    /\ pc[r] \in HasContent => content[r] \in current[r]

CachedVersions ==
  \A q \in Queries : cache[q] # NoEntry =>
    cache[q].items.version = VersionOf[cache[q].items.content]

ContentInv == TypeInv /\ ReadCurrent /\ CachedVersions

-----------------------------------------------------------------------------
(***************************************************************************)
(* What ProjectionCatalogProofs says of a publication, said of the         *)
(* publications of this module.                                            *)
(***************************************************************************)
Facts == INSTANCE ProjectionCatalogProofs WITH db <- db

LEMMA SameTables ==
  /\ Facts!Database = Database
  /\ Facts!ProjectionSnapshot = ProjectionSnapshot
  /\ Facts!VersionIds = VersionIds
  /\ Facts!Workspaces = Workspaces
BY DEF Facts!Database, Database, Facts!DefinitionRow, DefinitionRow, Facts!TextRow,
       TextRow, Facts!ProjectionRow, ProjectionRow, Facts!VersionIds, VersionIds,
       Facts!TextIds, TextIds, Facts!Workspaces, Workspaces, Facts!Current, Current,
       Facts!ProjectionSnapshot, ProjectionSnapshot, Facts!SnapshotDefinition,
       SnapshotDefinition, Facts!SnapshotText, SnapshotText

LEMMA SamePublication ==
  ASSUME NEW d, NEW s
  PROVE  Facts!After(d, s) = Catalog!After(d, s)
BY DEF Facts!After, Catalog!After, Facts!CatalogAfter, Catalog!CatalogAfter,
       Facts!Claimable, Catalog!Claimable, Facts!Entries, Catalog!Entries,
       Facts!Entry, Catalog!Entry, Facts!PublishedRow, Catalog!PublishedRow,
       Facts!HistoryAfter, Catalog!HistoryAfter, Facts!Records, Catalog!Records,
       Facts!ChangesContent, Catalog!ChangesContent, Facts!TextsAfter,
       Catalog!TextsAfter, Facts!FinalText, Catalog!FinalText, Facts!Given,
       Catalog!Given, Facts!ProjectionAfter, Catalog!ProjectionAfter,
       Facts!VersionIds, Catalog!VersionIds, Facts!TextIds, Catalog!TextIds,
       Facts!Workspaces, Catalog!Workspaces, Facts!Current, Catalog!Current

LEMMA PublicationTyped ==
  ASSUME NEW d \in Database, NEW s \in Snapshots
  PROVE  Catalog!After(d, s) \in Database
<1>1. Facts!After(d, s) \in Facts!Database
  BY SameTables, SnapshotsTyped, AbsentIsNoRow, WorkspaceOrderIsSequence,
     IdAndVersionGiveResource, Facts!PublishTyped
     DEF Facts!DefinitionRow, DefinitionRow, Facts!TextRow, TextRow,
         Facts!ProjectionRow, ProjectionRow
<1> QED
  BY <1>1, SameTables, SamePublication

-----------------------------------------------------------------------------
(***************************************************************************)
(* Type correctness.                                                       *)
(***************************************************************************)
StoreChanges ==
  \/ \E s \in Snapshots : Publish(s)
  \/ \E s \in Drafts : HostPublish(s)
  \/ HostCommit \/ HostRollback

LEMMA SeenTyped ==
  ASSUME TypeOK, NEW r \in Readers
  PROVE  Seen(r) \in Database
BY DEF TypeOK, Seen

LEMMA DefinitionInTyped ==
  ASSUME NEW d \in Database, NEW q \in Queries
  PROVE  DefinitionIn(d, q) \in Hashes \cup {Absent}
<1>1. q.dictionary \in Resources \cup {Blank}
  BY ReadersAsk DEF Query
<1> QED
  BY <1>1 DEF DefinitionIn, Database, DefinitionRow

LEMMA TextsInTyped ==
  ASSUME NEW d \in Database, NEW q \in Queries
  PROVE  TextsIn(d, q) \in Readings(q)
<1>1. /\ q.dictionary \in Resources \cup {Blank}
      /\ q.locale \in Locales \cup {Blank}
      /\ q.workspace \in Workspaces \cup {Blank}
  BY ReadersAsk DEF Query
<1>2. ASSUME NEW k \in Wanted(q)
      PROVE  <<q.workspace, k>> \in TextIds
  BY <1>1, <1>2, ContentsTyped DEF Wanted, TextIds
<1>3. ASSUME NEW k \in Wanted(q), d.txts[<<q.workspace, k>>] # Absent
      PROVE  d.txts[<<q.workspace, k>>].text \in Texts
  BY <1>2, <1>3 DEF Database, TextRow
<1> QED
  BY <1>3 DEF TextsIn, Reading, Readings

LEMMA NothingRead ==
  ASSUME NEW q \in Queries, q.locale = Blank
  PROVE  <<>> \in Readings(q)
<1>1. Wanted(q) = {}
  BY DEF Wanted
<1> QED
  BY <1>1 DEF Readings

\* A publication or a transaction of the host leaves the calls alone.
LEMMA EnvironmentStep ==
  ASSUME TypeInv, StoreChanges
  PROVE  /\ db' \in Database /\ draft' \in Database \cup {NoDraft}
         /\ UNCHANGED <<clock, calls>>
         /\ answer' = NoAnswer
         /\ Remember
<1> USE DEF TypeInv, TypeOK
<1>1. ASSUME NEW s \in Snapshots, Publish(s)
      PROVE  db' \in Database /\ draft' \in Database \cup {NoDraft}
  BY <1>1, PublicationTyped DEF Publish, Catalog!Publish
<1>2. ASSUME NEW s \in Drafts, HostPublish(s)
      PROVE  db' \in Database /\ draft' \in Database \cup {NoDraft}
  <2>1. s \in Snapshots
    BY DraftsAreSnapshots
  <2> QED
    BY <1>2, <2>1, PublicationTyped DEF HostPublish
<1>3. ASSUME HostCommit \/ HostRollback
      PROVE  db' \in Database /\ draft' \in Database \cup {NoDraft}
  BY <1>3 DEF HostCommit, HostRollback
<1> QED
  BY <1>1, <1>2, <1>3
     DEF StoreChanges, Publish, HostPublish, HostCommit, HostRollback

LEMMA NoteTyped ==
  ASSUME NEW seen, NEW d, clock \in 0 .. MaxClock,
         seen \in [DOMAIN seen -> 0 .. MaxClock]
  PROVE  /\ Note(seen, d) \in [DOMAIN Note(seen, d) -> 0 .. MaxClock]
         /\ DOMAIN Note(seen, d) = DOMAIN seen \cup {d.txts}
         /\ Note(seen, d)[d.txts] = clock
         /\ \A t \in DOMAIN seen :
              Note(seen, d)[t] = IF t = d.txts THEN clock ELSE seen[t]
BY DEF Note

LEMMA RememberTyped ==
  ASSUME TypeInv, Remember, db' \in Database, draft' \in Database \cup {NoDraft},
         UNCHANGED <<pc, query>>
  PROVE  /\ DOMAIN past' = {"committed", "draft"}
         /\ \A where \in {"committed", "draft"} :
              past'[where] \in [DOMAIN past'[where] -> 0 .. MaxClock]
         /\ current' \in [Readers -> SUBSET (Hashes \cup {Absent})]
<1> USE DEF TypeInv, TypeOK
<1>1. past'.committed = IF db'.txts = db.txts THEN past.committed
                        ELSE Note(past.committed, db)
  BY DEF Remember
<1>2. past'.draft = IF draft \in {NoDraft, draft'} THEN past.draft
                    ELSE Note(past.draft, draft)
  BY DEF Remember
<1>3. DOMAIN past' = {"committed", "draft"}
  BY DEF Remember
<1>0. /\ past.committed \in [DOMAIN past.committed -> 0 .. MaxClock]
      /\ past.draft \in [DOMAIN past.draft -> 0 .. MaxClock]
      /\ clock \in 0 .. MaxClock
  OBVIOUS
<1>4. past'.committed \in [DOMAIN past'.committed -> 0 .. MaxClock]
  <2>1. CASE db'.txts = db.txts
    BY ONLY <1>0, <1>1, <2>1
  <2>2. CASE db'.txts # db.txts
    <3>1. past'.committed = Note(past.committed, db)
      BY ONLY <1>1, <2>2
    <3>2. Note(past.committed, db)
            \in [DOMAIN Note(past.committed, db) -> 0 .. MaxClock]
      BY ONLY <1>0, NoteTyped
    <3> QED
      BY ONLY <3>1, <3>2
  <2> QED
    BY <2>1, <2>2
<1>5. past'.draft \in [DOMAIN past'.draft -> 0 .. MaxClock]
  <2>1. CASE draft \in {NoDraft, draft'}
    BY ONLY <1>0, <1>2, <2>1
  <2>2. CASE draft \notin {NoDraft, draft'}
    <3>1. past'.draft = Note(past.draft, draft)
      BY ONLY <1>2, <2>2
    <3>2. Note(past.draft, draft)
            \in [DOMAIN Note(past.draft, draft) -> 0 .. MaxClock]
      BY ONLY <1>0, NoteTyped
    <3> QED
      BY ONLY <3>1, <3>2
  <2> QED
    BY <2>1, <2>2
<1>6. ASSUME NEW r \in Readers, Asking(r)
      PROVE  DefinitionIn(Seen(r)', query[r]) \in Hashes \cup {Absent}
  <2>1. Seen(r)' \in Database
    BY DEF Seen
  <2>2. query[r] \in Queries
    BY <1>6 DEF Asking, InCall
  <2> QED
    BY <2>1, <2>2, DefinitionInTyped
<1>7. current' \in [Readers -> SUBSET (Hashes \cup {Absent})]
  BY <1>6 DEF Remember
<1> QED
  BY <1>3, <1>4, <1>5, <1>7

\* What a call that returns leaves.
LEMMA ReturnTyped ==
  ASSUME TypeInv, NEW r \in Readers, NEW outcome \in Outcomes,
         NEW items \in ItemSets \cup {NoItems}, Return(r, outcome, items),
         cache' \in [Queries -> {NoEntry} \cup
                       [items : ItemSets, expires : TTL .. MaxClock + TTL]]
  PROVE  TypeInv'
<1> USE DEF TypeInv, TypeOK
<1>1. answer' \in Answers \cup {NoAnswer}
  BY DEF Return, Answers
<1>2. TypeOK'
  <2>1. UNCHANGED environment /\ UNCHANGED <<db, draft, clock, past>>
    BY DEF Return, environment
  <2>2. /\ pc' = [pc EXCEPT ![r] = "idle"]
        /\ query' = [query EXCEPT ![r] = NoQuery]
        /\ content' = [content EXCEPT ![r] = Absent]
        /\ labels' = [labels EXCEPT ![r] = <<>>]
        /\ started' = [started EXCEPT ![r] = 0]
        /\ current' = [current EXCEPT ![r] = {}]
    BY DEF Return, Goto
  <2>3. 0 \in 0 .. MaxClock
    BY ClockRuns
  <2> QED
    BY <1>1, <2>1, <2>2, <2>3
<1>3. ASSUME NEW q \in Readers PROVE InCall(q)'
  <2>1. CASE q = r
    BY <2>1 DEF Return, Goto, InCall, HasContent
  <2>2. CASE q # r
    <3>1. /\ pc'[q] = pc[q] /\ query'[q] = query[q]
          /\ content'[q] = content[q] /\ labels'[q] = labels[q]
      BY <2>2 DEF Return, Goto
    <3> QED
      BY <3>1 DEF InCall, HasContent
  <2> QED
    BY <2>1, <2>2
<1>4. past' = past
  BY DEF Return, environment
<1> QED
  BY <1>2, <1>3, <1>4

LEMMA ItemsTyped ==
  ASSUME TypeInv, NEW r \in Readers, pc[r] = "fill"
  PROVE  /\ query[r] \in Queries
         /\ Items(r) \in ItemSets
         /\ Filled(r) \in [items : ItemSets, expires : TTL .. MaxClock + TTL]
<1> USE DEF TypeInv, TypeOK
<1>1. /\ query[r] \in Queries /\ content[r] \in Hashes \ Malformed
      /\ labels[r] \in Readings(query[r])
  BY DEF InCall, HasContent
<1>2. Items(r) \in ItemSets
  BY <1>1 DEF Items, ItemSets
<1>3. started[r] + TTL \in TTL .. MaxClock + TTL
  BY ClockRuns
<1> QED
  BY <1>1, <1>2, <1>3 DEF Filled

\* The steps of a call that stay in it.
LEMMA InsideTyped ==
  ASSUME TypeInv, NEW r \in Readers,
         \/ Ask(r) \/ ReadClock(r) \/ Miss(r) \/ ReadTexts(r)
         \/ ReadDefinition(r) /\ pc'[r] # "idle"
  PROVE  TypeInv'
<1> USE DEF TypeInv, TypeOK, Goto
<1>1. CASE Ask(r)
  <2>1. PICK q \in Queries :
          /\ query' = [query EXCEPT ![r] = q]
          /\ current' = [current EXCEPT ![r] = {DefinitionIn(Seen(r), q)}]
    BY <1>1 DEF Ask
  <2>2. DefinitionIn(Seen(r), q) \in Hashes \cup {Absent}
    BY SeenTyped, DefinitionInTyped
  <2>3. TypeOK'
    BY <1>1, <2>1, <2>2 DEF Ask, environment
  <2>4. ASSUME NEW o \in Readers PROVE InCall(o)'
    BY <1>1, <2>1 DEF Ask, InCall, HasContent
  <2> QED
    BY <1>1, <2>3, <2>4 DEF Ask, environment
<1>2. CASE ReadClock(r)
  <2>1. TypeOK'
    BY <1>2 DEF ReadClock, environment
  <2>2. ASSUME NEW o \in Readers PROVE InCall(o)'
    BY <1>2 DEF ReadClock, InCall, HasContent
  <2> QED
    BY <1>2, <2>1, <2>2 DEF ReadClock, environment
<1>3. CASE Miss(r)
  <2>1. TypeOK'
    BY <1>3 DEF Miss, environment
  <2>2. ASSUME NEW o \in Readers PROVE InCall(o)'
    BY <1>3, NothingRead DEF Miss, InCall, HasContent
  <2> QED
    BY <1>3, <2>1, <2>2 DEF Miss, environment
<1>4. CASE ReadTexts(r)
  <2>1. query[r] \in Queries
    BY <1>4 DEF ReadTexts, InCall
  <2>2. TextsIn(Seen(r), query[r]) \in Readings(query[r])
    BY <2>1, SeenTyped, TextsInTyped
  <2>3. TextsIn(Seen(r), query[r]) \in UNION {Readings(q) : q \in Queries}
    BY <2>1, <2>2
  <2>4. TypeOK'
    BY <1>4, <2>3 DEF ReadTexts, environment
  <2>5. ASSUME NEW o \in Readers PROVE InCall(o)'
    BY <1>4, <2>2 DEF ReadTexts, InCall, HasContent
  <2> QED
    BY <1>4, <2>4, <2>5 DEF ReadTexts, environment
<1>5. CASE ReadDefinition(r) /\ pc'[r] # "idle"
  <2>1. query[r] \in Queries
    BY <1>5 DEF ReadDefinition, InCall
  <2>2. /\ content' = [content EXCEPT ![r] = DefinitionIn(Seen(r), query[r])]
        /\ DefinitionIn(Seen(r), query[r]) \in Hashes \ Malformed
        /\ pc' = [pc EXCEPT ![r] = "clock"] /\ pc[r] = "definition"
        /\ answer' = NoAnswer
        /\ UNCHANGED <<environment, cache, query, labels, started, current>>
    BY <1>5, <2>1, SeenTyped, DefinitionInTyped DEF ReadDefinition, Return
  <2>3. TypeOK'
    BY <2>2 DEF environment
  <2>4. ASSUME NEW o \in Readers PROVE InCall(o)'
    BY <2>2 DEF InCall, HasContent
  <2> QED
    BY <2>2, <2>3, <2>4 DEF environment
<1> QED
  BY <1>1, <1>2, <1>3, <1>4, <1>5

\* How a call returns.
LEMMA Returns ==
  ASSUME TypeInv, NEW r \in Readers, Call(r),
         ~ \/ Ask(r) \/ ReadClock(r) \/ Miss(r) \/ ReadTexts(r)
           \/ ReadDefinition(r) /\ pc'[r] # "idle"
  PROVE  \/ Refuse(r) /\ Return(r, "refused", NoItems) /\ cache' = cache
         \/ /\ ReadDefinition(r) /\ cache' = cache
            /\ \/ DefinitionIn(Seen(r), query[r]) = Absent
                  /\ Return(r, "not_found", NoItems)
               \/ Return(r, "invalid", NoItems)
         \/ AnswerFromCache(r)
         \/ Fill(r)
         \/ FailRead(r) /\ Return(r, "error", NoItems) /\ cache' = cache
<1> USE DEF TypeInv, TypeOK
<1>1. CASE ReadDefinition(r)
  <2>1. pc'[r] = "idle"
    BY <1>1
  <2>2. pc' # [pc EXCEPT ![r] = "clock"]
    BY <2>1
  <2> QED
    BY <1>1, <2>2 DEF ReadDefinition, Goto
<1>2. CASE Refuse(r) \/ AnswerFromCache(r) \/ Fill(r) \/ FailRead(r)
  BY <1>2 DEF Refuse, FailRead
<1> QED
  BY <1>1, <1>2 DEF Call

LEMMA StepTyped == TypeInv /\ Next => TypeInv'
<1> SUFFICES ASSUME TypeInv, Next PROVE TypeInv'
  OBVIOUS
<1>1. CASE StoreChanges
  <2>1. /\ db' \in Database /\ draft' \in Database \cup {NoDraft}
        /\ UNCHANGED <<clock, calls>>
        /\ answer' = NoAnswer
        /\ Remember
    BY <1>1, EnvironmentStep
  <2>2. UNCHANGED <<cache, pc, query, content, labels, started>>
    BY <2>1 DEF calls
  <2>3. /\ DOMAIN past' = {"committed", "draft"}
        /\ \A where \in {"committed", "draft"} :
             past'[where] \in [DOMAIN past'[where] -> 0 .. MaxClock]
        /\ current' \in [Readers -> SUBSET (Hashes \cup {Absent})]
    BY <2>1, <2>2, RememberTyped
  <2>4. TypeOK'
    BY <2>1, <2>2, <2>3 DEF TypeInv, TypeOK
  <2>5. \A r \in Readers : InCall(r)'
    BY <2>2 DEF TypeInv, InCall
  <2> QED
    BY <2>3, <2>4, <2>5 DEF TypeInv
<1>2. CASE Tick
  <2>1. clock' \in 0 .. MaxClock /\ answer' = NoAnswer
        /\ UNCHANGED <<db, draft, past, current, cache, pc, query, content,
                       labels, started>>
    BY <1>2, ClockRuns DEF Tick, calls, TypeInv, TypeOK
  <2>2. TypeOK'
    BY <2>1 DEF TypeInv, TypeOK
  <2> QED
    BY <2>1, <2>2 DEF TypeInv, InCall
<1>3. ASSUME NEW r \in Readers, Call(r) PROVE TypeInv'
  <2>1. CASE \/ Ask(r) \/ ReadClock(r) \/ Miss(r) \/ ReadTexts(r)
             \/ ReadDefinition(r) /\ pc'[r] # "idle"
    BY <2>1, InsideTyped
  <2>2. ASSUME NEW outcome \in {"refused", "not_found", "invalid", "error"},
               Return(r, outcome, NoItems), cache' = cache
        PROVE  TypeInv'
    <3>1. outcome \in Outcomes
      BY DEF Outcomes
    <3> QED
      BY <2>2, <3>1, ReturnTyped DEF TypeInv, TypeOK
  <2>3. CASE AnswerFromCache(r)
    <3>1. query[r] \in Queries
      BY <2>3 DEF AnswerFromCache, TypeInv, InCall
    <3>2. cache[query[r]].items \in ItemSets
      BY <2>3, <3>1 DEF AnswerFromCache, Hit, CacheKey, TypeInv, TypeOK
    <3>3. "items" \in Outcomes
      BY DEF Outcomes
    <3> QED
      BY <2>3, <3>2, <3>3, ReturnTyped
         DEF AnswerFromCache, CacheKey, TypeInv, TypeOK
  <2>4. CASE Fill(r)
    <3>1. /\ query[r] \in Queries
          /\ Items(r) \in ItemSets
          /\ Filled(r) \in [items : ItemSets, expires : TTL .. MaxClock + TTL]
      BY <2>4, ItemsTyped DEF Fill
    <3>2. "items" \in Outcomes
      BY DEF Outcomes
    <3>3. cache' \in [Queries -> {NoEntry} \cup
                        [items : ItemSets, expires : TTL .. MaxClock + TTL]]
      BY <2>4, <3>1 DEF Fill, CacheKey, TypeInv, TypeOK
    <3> QED
      BY <2>4, <3>1, <3>2, <3>3, ReturnTyped DEF Fill
  <2> QED
    BY <1>3, <2>1, <2>2, <2>3, <2>4, Returns
<1> QED
  BY <1>1, <1>2, <1>3 DEF Next, StoreChanges

LEMMA InitTyped == Init => TypeInv
<1> SUFFICES ASSUME Init PROVE TypeInv
  OBVIOUS
<1>1. EmptyDatabase \in Database
  BY DEF EmptyDatabase, Database
<1>2. TypeOK
  BY <1>1, ClockRuns DEF Init, TypeOK
<1> QED
  BY <1>2 DEF Init, TypeInv, InCall, HasContent

LEMMA StutterTyped == TypeInv /\ UNCHANGED vars => TypeInv'
BY DEF TypeInv, TypeOK, InCall, vars

\* Every variable keeps its type: in particular no call goes on without the
\* content and the labels it needs, and what is cached is an answer.
THEOREM TypeCorrect == Spec => []TypeOK
<1>1. TypeInv /\ [Next]_vars => TypeInv'
  BY StepTyped, StutterTyped
<1>2. TypeInv => TypeOK
  BY DEF TypeInv
<1> QED
  BY <1>1, <1>2, InitTyped, PTL DEF Spec

-----------------------------------------------------------------------------
(***************************************************************************)
(* The labels.  What could be read at some time, or later, stays so: tables *)
(* that are replaced are noted with the time of their replacement.         *)
(***************************************************************************)
LEMMA NothingForgotten ==
  ASSUME TypeInv, Remember
  PROVE  \A where \in {"committed", "draft"} : \A txts \in DOMAIN past[where] :
           /\ txts \in DOMAIN past'[where]
           /\ past'[where][txts] \in {past[where][txts], clock}
<1>1. ASSUME NEW seen, NEW d, clock \in 0 .. MaxClock,
             seen \in [DOMAIN seen -> 0 .. MaxClock], NEW txts \in DOMAIN seen
      PROVE  /\ txts \in DOMAIN Note(seen, d)
             /\ Note(seen, d)[txts] \in {seen[txts], clock}
  BY <1>1 DEF Note
<1>2. /\ past.committed \in [DOMAIN past.committed -> 0 .. MaxClock]
      /\ past.draft \in [DOMAIN past.draft -> 0 .. MaxClock]
      /\ clock \in 0 .. MaxClock
  BY DEF TypeInv, TypeOK
<1>3. ASSUME NEW txts \in DOMAIN past.committed
      PROVE  /\ txts \in DOMAIN past'.committed
             /\ past'.committed[txts] \in {past.committed[txts], clock}
  <2>1. past'.committed \in {past.committed, Note(past.committed, db)}
    BY DEF Remember
  <2> QED
    BY <1>1, <1>2, <2>1
<1>4. ASSUME NEW txts \in DOMAIN past.draft
      PROVE  /\ txts \in DOMAIN past'.draft
             /\ past'.draft[txts] \in {past.draft[txts], clock}
  <2>1. past'.draft \in {past.draft, Note(past.draft, draft)}
    BY DEF Remember
  <2> QED
    BY <1>1, <1>2, <2>1
<1> QED
  BY <1>3, <1>4

\* What is replaced is noted with the time of the clock.
LEMMA ReplacedIsNoted ==
  ASSUME TypeInv, Remember
  PROVE  /\ db'.txts # db.txts =>
              /\ db.txts \in DOMAIN past'.committed
              /\ past'.committed[db.txts] = clock
         /\ draft \notin {NoDraft, draft'} =>
              /\ draft.txts \in DOMAIN past'.draft
              /\ past'.draft[draft.txts] = clock
<1>1. /\ past.committed \in [DOMAIN past.committed -> 0 .. MaxClock]
      /\ past.draft \in [DOMAIN past.draft -> 0 .. MaxClock]
      /\ clock \in 0 .. MaxClock
  BY DEF TypeInv, TypeOK
<1>2. /\ db.txts \in DOMAIN Note(past.committed, db)
      /\ Note(past.committed, db)[db.txts] = clock
  BY <1>1, NoteTyped
<1>3. /\ draft.txts \in DOMAIN Note(past.draft, draft)
      /\ Note(past.draft, draft)[draft.txts] = clock
  BY <1>1, NoteTyped
<1>4. db'.txts # db.txts => past'.committed = Note(past.committed, db)
  BY DEF Remember
<1>5. draft \notin {NoDraft, draft'} => past'.draft = Note(past.draft, draft)
  BY DEF Remember
<1> QED
  BY <1>2, <1>3, <1>4, <1>5

LEMMA ReadableStays ==
  ASSUME TypeInv, NEW instant \in Nat, instant <= clock, NEW q, NEW t,
         ReadableSince(instant, q, t),
         \/ Remember /\ clock' = clock
         \/ UNCHANGED <<db, draft, past>>
  PROVE  ReadableSince(instant, q, t)'
<1>1. CASE UNCHANGED <<db, draft, past>>
  BY <1>1 DEF ReadableSince
<1>2. CASE Remember /\ clock' = clock
  <2>0. clock \in Nat
    BY DEF TypeInv, TypeOK
  <2>1. CASE t = TextsIn(db, q)
    <3>1. CASE db'.txts = db.txts
      BY <2>1, <3>1 DEF ReadableSince, TextsIn
    <3>2. CASE db'.txts # db.txts
      <4>1. /\ db.txts \in DOMAIN past'.committed
            /\ past'.committed[db.txts] = clock
        BY <1>2, <3>2, ReplacedIsNoted
      <4>2. Reading(db.txts, q) = t /\ past'["committed"][db.txts] >= instant
        BY <2>0, <2>1, <4>1 DEF TextsIn
      <4> QED
        BY <4>1, <4>2 DEF ReadableSince, Readable
    <3> QED
      BY <3>1, <3>2
  <2>2. CASE HostReaders # {} /\ draft # NoDraft /\ t = TextsIn(draft, q)
    <3>1. CASE draft' = draft
      BY <2>2, <3>1 DEF ReadableSince, TextsIn
    <3>2. CASE draft' # draft
      <4>1. /\ draft.txts \in DOMAIN past'.draft
            /\ past'.draft[draft.txts] = clock
        BY <1>2, <2>2, <3>2, ReplacedIsNoted
      <4>2. Reading(draft.txts, q) = t /\ past'["draft"][draft.txts] >= instant
        BY <2>0, <2>2, <4>1 DEF TextsIn
      <4> QED
        BY <2>2, <4>1, <4>2 DEF ReadableSince, Readable
    <3> QED
      BY <3>1, <3>2
  <2>3. ASSUME NEW where \in Readable, NEW txts \in DOMAIN past[where],
               Reading(txts, q) = t, past[where][txts] >= instant
        PROVE  ReadableSince(instant, q, t)'
    <3>0. where \in {"committed", "draft"}
      BY DEF Readable
    <3>1. /\ txts \in DOMAIN past'[where]
          /\ past'[where][txts] \in {past[where][txts], clock}
      BY <1>2, <3>0, NothingForgotten
    <3>2. past'[where][txts] >= instant
      BY <2>0, <2>3, <3>1
    <3> QED
      BY <2>3, <3>1, <3>2 DEF ReadableSince
  <2> QED
    BY <2>1, <2>2, <2>3 DEF ReadableSince
<1> QED
  BY <1>1, <1>2

\* What a step does to the readers and the cache, for these proofs.
LEMMA EnvironmentLeavesCalls ==
  ASSUME TypeInv, StoreChanges \/ Tick \/ UNCHANGED vars
  PROVE  /\ UNCHANGED <<cache, pc, query, content, labels, started>>
         /\ \/ Remember /\ clock' = clock
            \/ UNCHANGED <<db, draft, past>>
         /\ clock' \in Nat /\ clock' >= clock
<1>0. clock \in Nat
  BY DEF TypeInv, TypeOK
<1>1. CASE StoreChanges
  BY <1>0, <1>1, EnvironmentStep DEF calls
<1>2. CASE Tick
  BY <1>0, <1>2 DEF Tick, calls
<1>3. CASE UNCHANGED vars
  BY <1>0, <1>3 DEF vars
<1> QED
  BY <1>1, <1>2, <1>3

LEMMA CallLeavesEnvironment ==
  ASSUME NEW r \in Readers, Call(r)
  PROVE  UNCHANGED <<db, draft, clock, past>>
BY DEF Call, Ask, Refuse, ReadDefinition, ReadClock, AnswerFromCache, Miss,
       ReadTexts, Fill, FailRead, Return, environment

\* The other readers are where they were.
LEMMA CallIsItsReaders ==
  ASSUME TypeInv, NEW r \in Readers, Call(r), NEW o \in Readers, o # r
  PROVE  /\ pc'[o] = pc[o] /\ query'[o] = query[o] /\ labels'[o] = labels[o]
         /\ started'[o] = started[o] /\ content'[o] = content[o]
         /\ current'[o] = current[o]
<1> USE DEF TypeInv, TypeOK, Goto
<1>1. CASE Ask(r) \/ ReadClock(r) \/ Miss(r) \/ ReadTexts(r)
  BY <1>1 DEF Ask, ReadClock, Miss, ReadTexts
<1>2. CASE ReadDefinition(r) \/ Refuse(r)
  BY <1>2 DEF ReadDefinition, Refuse, Return
<1>3. CASE AnswerFromCache(r) \/ Fill(r) \/ FailRead(r)
  BY <1>3 DEF AnswerFromCache, Fill, FailRead, Return
<1> QED
  BY <1>1, <1>2, <1>3 DEF Call

\* Only Fill writes the cache, and only the entry of its query.
LEMMA OnlyFillsCache ==
  ASSUME TypeInv, NEW r \in Readers, Call(r)
  PROVE  \/ cache' = cache
         \/ /\ pc[r] = "fill" /\ query[r] \in Queries
            /\ cache' = [cache EXCEPT ![query[r]] = Filled(r)]
<1>1. CASE Fill(r)
  BY <1>1, ItemsTyped DEF Fill, CacheKey
<1>2. CASE ~Fill(r)
  BY <1>2 DEF Call, Ask, Refuse, ReadDefinition, ReadClock, AnswerFromCache, Miss,
              ReadTexts, FailRead
<1> QED
  BY <1>1, <1>2

\* How a call comes to stand before the cache.
LEMMA StaysInQuery ==
  ASSUME TypeInv, NEW r \in Readers, Call(r), pc'[r] = "fill"
  PROVE  query'[r] = query[r]
BY DEF Call, Ask, Refuse, ReadDefinition, ReadClock, AnswerFromCache, Miss,
       ReadTexts, Fill, FailRead, Return, Goto, TypeInv, TypeOK

LEMMA ReachesFill ==
  ASSUME TypeInv, NEW r \in Readers, Call(r), pc'[r] = "fill", query[r].locale # Blank
  PROVE  /\ query'[r] = query[r] /\ started'[r] = started[r]
         /\ labels'[r] = TextsIn(Seen(r), query[r])
<1> USE DEF TypeInv, TypeOK, Goto
<1>1. CASE ReadTexts(r)
  BY <1>1 DEF ReadTexts
<1>2. CASE Miss(r)
  BY <1>2 DEF Miss
<1>3. CASE Ask(r) \/ ReadClock(r) \/ ReadDefinition(r)
  BY <1>3 DEF Ask, ReadClock, ReadDefinition, Return
<1>4. CASE Refuse(r) \/ AnswerFromCache(r) \/ Fill(r) \/ FailRead(r)
  BY <1>4 DEF Refuse, AnswerFromCache, Fill, FailRead, Return
<1> QED
  BY <1>1, <1>2, <1>3, <1>4 DEF Call

LEMMA ClockedStep ==
  ASSUME TypeInv, Clocked, [Next]_vars
  PROVE  Clocked'
<1>0. /\ clock \in Nat /\ TTL \in Nat
      /\ \A r \in Readers : started[r] \in Nat
      /\ \A q \in Queries : cache[q] # NoEntry => cache[q].expires \in Nat
      /\ \A where \in {"committed", "draft"} : \A txts \in DOMAIN past[where] :
           past[where][txts] \in Nat
  <2>1. 0 .. MaxClock \in SUBSET Nat /\ TTL .. MaxClock + TTL \in SUBSET Nat
    BY ClockRuns
  <2>2. ASSUME NEW q \in Queries, cache[q] # NoEntry
        PROVE  cache[q].expires \in TTL .. MaxClock + TTL
    BY <2>2 DEF TypeInv, TypeOK
  <2>3. ASSUME NEW where \in {"committed", "draft"}, NEW txts \in DOMAIN past[where]
        PROVE  past[where][txts] \in 0 .. MaxClock
    BY DEF TypeInv, TypeOK
  <2> QED
    BY <2>1, <2>2, <2>3, ClockRuns DEF TypeInv, TypeOK
<1>1. CASE StoreChanges \/ Tick \/ UNCHANGED vars
  <2>1. /\ UNCHANGED <<cache, pc, query, content, labels, started>>
        /\ \/ Remember /\ clock' = clock
           \/ UNCHANGED <<db, draft, past>>
        /\ clock' >= clock
    BY <1>1, EnvironmentLeavesCalls
  <2>2. clock' \in Nat
    BY <1>1, EnvironmentLeavesCalls
  <2>3. \A r \in Readers : started'[r] <= clock'
    BY <1>0, <2>1, <2>2 DEF Clocked
  <2>4. \A q \in Queries : cache'[q] # NoEntry => cache'[q].expires <= clock' + TTL
    BY <1>0, <2>1, <2>2 DEF Clocked
  <2>5. ASSUME NEW where \in {"committed", "draft"}, NEW txts \in DOMAIN past'[where]
        PROVE  past'[where][txts] <= clock'
    <3>1. CASE UNCHANGED past
      BY <1>0, <2>1, <2>2, <3>1 DEF Clocked
    <3>2. CASE Remember /\ clock' = clock
      <4>1. ASSUME NEW seen, NEW d, NEW t \in DOMAIN Note(seen, d)
            PROVE  \/ Note(seen, d)[t] = clock
                   \/ t \in DOMAIN seen /\ Note(seen, d)[t] = seen[t]
        BY DEF Note
      <4>2. \E d : past'[where] \in {past[where], Note(past[where], d)}
        BY <3>2 DEF Remember
      <4>3. \/ past'[where][txts] = clock
            \/ txts \in DOMAIN past[where] /\ past'[where][txts] = past[where][txts]
        BY <4>1, <4>2
      <4> QED
        BY <1>0, <3>2, <4>3 DEF Clocked
    <3> QED
      BY <2>1, <3>1, <3>2
  <2> QED
    BY <2>3, <2>4, <2>5 DEF Clocked
<1>2. ASSUME NEW r \in Readers, Call(r)
      PROVE  Clocked'
  <2>1. UNCHANGED <<clock, past>>
    BY <1>2, CallLeavesEnvironment
  <2>2. ASSUME NEW o \in Readers
        PROVE  started'[o] <= clock
    <3>1. CASE o # r
      BY <1>2, <3>1, CallIsItsReaders DEF Clocked
    <3>2. CASE o = r
      <4>1. started'[r] \in {started[r], clock, 0}
        BY <1>2 DEF Call, Ask, Refuse, ReadDefinition, ReadClock, AnswerFromCache,
                    Miss, ReadTexts, Fill, FailRead, Return, TypeInv, TypeOK
      <4> QED
        BY <1>0, <3>2, <4>1 DEF Clocked
    <3> QED
      BY <3>1, <3>2
  <2>3. ASSUME NEW q \in Queries, cache'[q] # NoEntry
        PROVE  cache'[q].expires <= clock + TTL
    <3>1. CASE cache' = cache
      BY <2>3, <3>1 DEF Clocked
    <3>2. CASE cache' = [cache EXCEPT ![query[r]] = Filled(r)]
      <4>1. cache \in [Queries -> {NoEntry} \cup
                         [items : ItemSets, expires : TTL .. MaxClock + TTL]]
        BY DEF TypeInv, TypeOK
      <4>2. cache'[q] = IF q = query[r] THEN Filled(r) ELSE cache[q]
        BY <3>2, <4>1
      <4>3. started[r] + TTL <= clock + TTL
        BY <1>0 DEF Clocked
      <4> QED
        BY <2>3, <4>2, <4>3 DEF Clocked, Filled
    <3> QED
      BY <1>2, <3>1, <3>2, OnlyFillsCache
  <2> QED
    BY <2>1, <2>2, <2>3 DEF Clocked
<1> QED
  BY <1>1, <1>2 DEF Next, StoreChanges

LEMMA ReadLabelsStep ==
  ASSUME TypeInv, Clocked, ReadLabels, [Next]_vars
  PROVE  ReadLabels'
<1>0. \A r \in Readers : started[r] \in Nat /\ started[r] <= clock
  BY DEF TypeInv, TypeOK, Clocked
<1>1. CASE StoreChanges \/ Tick \/ UNCHANGED vars
  <2>1. /\ UNCHANGED <<pc, query, labels, started>>
        /\ \/ Remember /\ clock' = clock
           \/ UNCHANGED <<db, draft, past>>
    BY <1>1, EnvironmentLeavesCalls
  <2>2. ASSUME NEW r \in Readers, pc'[r] = "fill", query'[r].locale # Blank
        PROVE  ReadableSince(started[r], query[r], labels[r])'
    <3>1. ReadableSince(started[r], query[r], labels[r])
      BY <2>1, <2>2 DEF ReadLabels
    <3> DEFINE i == started[r]
               q == query[r]
               t == labels[r]
    <3>2. i' = i /\ q' = q /\ t' = t /\ i \in Nat /\ i <= clock
      BY <1>0, <2>1
    <3>3. ASSUME NEW instant \in Nat, instant <= clock, NEW k, NEW x,
                 ReadableSince(instant, k, x)
          PROVE  ReadableSince(instant, k, x)'
      BY <2>1, <3>3, ReadableStays
    <3> QED
      BY <3>1, <3>2, <3>3 DEF ReadableSince
  <2> QED
    BY <2>2 DEF ReadLabels
<1>2. ASSUME NEW r \in Readers, Call(r)
      PROVE  ReadLabels'
  <2>1. UNCHANGED <<db, draft, past>>
    BY <1>2, CallLeavesEnvironment
  <2>2. ASSUME NEW o \in Readers, pc'[o] = "fill", query'[o].locale # Blank
        PROVE  ReadableSince(started[o], query[o], labels[o])'
    <3>1. CASE o # r
      <4>1. /\ pc'[o] = pc[o] /\ query'[o] = query[o]
            /\ labels'[o] = labels[o] /\ started'[o] = started[o]
        BY <1>2, <3>1, CallIsItsReaders
      <4>2. ReadableSince(started[o], query[o], labels[o])
        BY <2>2, <4>1 DEF ReadLabels
      <4> QED
        BY <2>1, <4>1, <4>2 DEF ReadableSince
    <3>2. CASE o = r
      <4>1. query'[r] = query[r]
        BY <1>2, <2>2, <3>2, StaysInQuery
      <4>2. /\ started'[r] = started[r]
            /\ labels'[r] = TextsIn(Seen(r), query[r])
        BY <1>2, <2>2, <3>2, <4>1, ReachesFill
      <4>3. \/ Seen(r) = db
            \/ HostReaders # {} /\ draft # NoDraft /\ Seen(r) = draft
        BY DEF Seen
      <4> QED
        BY <2>1, <3>2, <4>1, <4>2, <4>3 DEF ReadableSince
    <3> QED
      BY <3>1, <3>2
  <2> QED
    BY <2>2 DEF ReadLabels
<1> QED
  BY <1>1, <1>2 DEF Next, StoreChanges

\* A fill caches the labels the call has read, under the time it started.
LEMMA CachedLabelsStep ==
  ASSUME TypeInv, Clocked, ReadLabels, CachedLabels, [Next]_vars
  PROVE  CachedLabels'
<1>0. \A q \in Queries : cache[q] # NoEntry =>
        cache[q].expires - TTL \in Nat /\ cache[q].expires - TTL <= clock
  <2>1. ASSUME NEW q \in Queries, cache[q] # NoEntry
        PROVE  cache[q].expires \in TTL .. MaxClock + TTL
    BY <2>1 DEF TypeInv, TypeOK
  <2>2. clock \in Nat
    BY DEF TypeInv, TypeOK
  <2> QED
    BY <2>1, <2>2, ClockRuns DEF Clocked
<1>1. CASE StoreChanges \/ Tick \/ UNCHANGED vars
  <2>1. /\ cache' = cache
        /\ \/ Remember /\ clock' = clock
           \/ UNCHANGED <<db, draft, past>>
    BY <1>1, EnvironmentLeavesCalls
  <2>2. ASSUME NEW instant \in Nat, instant <= clock, NEW q, NEW t,
               ReadableSince(instant, q, t)
        PROVE  ReadableSince(instant, q, t)'
    BY <2>1, <2>2, ReadableStays
  <2>3. ASSUME NEW q \in Queries, cache[q] # NoEntry, q.locale # Blank
        PROVE  ReadableSince(cache[q].expires - TTL, q, cache[q].items.labels)'
    <3> DEFINE i == cache[q].expires - TTL
               t == cache[q].items.labels
    <3>1. i \in Nat /\ i <= clock /\ ReadableSince(i, q, t) /\ i' = i /\ t' = t
      BY <1>0, <2>1, <2>3 DEF CachedLabels
    <3> QED
      BY <2>2, <3>1 DEF ReadableSince
  <2> QED
    BY <2>1, <2>3 DEF CachedLabels
<1>2. ASSUME NEW r \in Readers, Call(r)
      PROVE  CachedLabels'
  <2>1. UNCHANGED <<db, draft, past>>
    BY <1>2, CallLeavesEnvironment
  <2>2. CASE cache' = cache
    BY <2>1, <2>2 DEF CachedLabels, ReadableSince
  <2>3. CASE /\ pc[r] = "fill" /\ query[r] \in Queries
             /\ cache' = [cache EXCEPT ![query[r]] = Filled(r)]
    <3>1. ASSUME NEW q \in Queries, cache'[q] # NoEntry, q.locale # Blank
          PROVE  ReadableSince(cache[q].expires - TTL, q, cache[q].items.labels)'
      <4>1. cache \in [Queries -> {NoEntry} \cup
                         [items : ItemSets, expires : TTL .. MaxClock + TTL]]
        BY DEF TypeInv, TypeOK
      <4>2. CASE q # query[r]
        <5>1. cache'[q] = cache[q]
          BY <2>3, <4>1, <4>2
        <5> QED
          BY <2>1, <3>1, <5>1 DEF CachedLabels, ReadableSince
      <4>3. CASE q = query[r]
        <5>1. cache'[q] = Filled(r)
          BY <2>3, <4>1, <4>3
        <5>2. started[r] \in Nat
          BY DEF TypeInv, TypeOK
        <5>3. /\ cache'[q].expires - TTL = started[r]
              /\ cache'[q].items.labels = labels[r]
          BY <5>1, <5>2, ClockRuns DEF Filled, Items
        <5>4. ReadableSince(started[r], q, labels[r])
          BY <2>3, <3>1, <4>3 DEF ReadLabels
        <5> QED
          BY <2>1, <5>3, <5>4 DEF ReadableSince
      <4> QED
        BY <4>2, <4>3
    <3> QED
      BY <3>1 DEF CachedLabels
  <2> QED
    BY <1>2, <2>2, <2>3, OnlyFillsCache
<1> QED
  BY <1>1, <1>2 DEF Next, StoreChanges

LEMMA InitLabels == Init => LabelsInv
<1> SUFFICES ASSUME Init PROVE LabelsInv
  OBVIOUS
<1>1. TypeInv
  BY InitTyped
<1>2. Clocked
  BY ClockRuns DEF Init, Clocked
<1> QED
  BY <1>1, <1>2 DEF Init, LabelsInv, ReadLabels, CachedLabels

LEMMA LabelsStep == LabelsInv /\ [Next]_vars => LabelsInv'
BY StepTyped, StutterTyped, ClockedStep, ReadLabelsStep, CachedLabelsStep
   DEF LabelsInv

(***************************************************************************)
(* Who answers: a call of Items, in its last step.                         *)
(***************************************************************************)
LEMMA WhoAnswers ==
  ASSUME TypeInv, Next, NEW r \in Readers, NEW outcome, Gives(r, outcome)
  PROVE  /\ Call(r)
         /\ outcome = "items" =>
              \/ AnswerFromCache(r) /\ answer'.items = cache[query[r]].items
              \/ Fill(r) /\ answer'.items = Items(r)
         /\ outcome = "not_found" =>
              ReadDefinition(r) /\ DefinitionIn(Seen(r), query[r]) = Absent
<1>1. ~StoreChanges /\ ~Tick
  BY EnvironmentStep DEF Tick, Gives
<1>2. PICK o \in Readers : Call(o)
  BY <1>1 DEF Next, StoreChanges
<1>3. ~ \/ Ask(o) \/ ReadClock(o) \/ Miss(o) \/ ReadTexts(o)
        \/ ReadDefinition(o) /\ pc'[o] # "idle"
  <2>1. ASSUME ReadDefinition(o), pc'[o] # "idle"
        PROVE  answer' = NoAnswer
    BY <2>1 DEF ReadDefinition, Return, Goto, TypeInv, TypeOK
  <2> QED
    BY <2>1 DEF Gives, Ask, ReadClock, Miss, ReadTexts
<1>4. \/ Return(o, "refused", NoItems)
      \/ /\ ReadDefinition(o) /\ DefinitionIn(Seen(o), query[o]) = Absent
         /\ Return(o, "not_found", NoItems)
      \/ Return(o, "invalid", NoItems)
      \/ AnswerFromCache(o) /\ Return(o, "items", cache[query[o]].items)
      \/ Fill(o) /\ Return(o, "items", Items(o))
      \/ Return(o, "error", NoItems)
  <2>1. \/ Refuse(o) /\ Return(o, "refused", NoItems) /\ cache' = cache
        \/ /\ ReadDefinition(o) /\ cache' = cache
           /\ \/ DefinitionIn(Seen(o), query[o]) = Absent
                 /\ Return(o, "not_found", NoItems)
              \/ Return(o, "invalid", NoItems)
        \/ AnswerFromCache(o)
        \/ Fill(o)
        \/ FailRead(o) /\ Return(o, "error", NoItems) /\ cache' = cache
    BY <1>2, <1>3, Returns
  <2> QED
    BY <2>1 DEF AnswerFromCache, Fill, CacheKey
<1>5. o = r
  BY <1>4 DEF Gives, Return
<1> QED
  BY <1>2, <1>4, <1>5 DEF Gives, Return

\* Labels that could be read from an instant on are recent at any later one
\* that is less than the lifetime of an entry after it.
LEMMA ReadableIsRecent ==
  ASSUME TypeInv, NEW instant \in Nat, NEW now \in Nat, now < instant + TTL,
         NEW q, NEW t, ReadableSince(instant, q, t)
  PROVE  \/ t = TextsIn(db, q)
         \/ WereSince(now, past.committed, q, t)
         \/ /\ HostReaders # {}
            /\ \/ draft # NoDraft /\ t = TextsIn(draft, q)
               \/ WereSince(now, past.draft, q, t)
<1>1. ASSUME NEW where \in Readable, NEW txts \in DOMAIN past[where],
             Reading(txts, q) = t, past[where][txts] >= instant
      PROVE  WereSince(now, past[where], q, t)
  <2>1. past[where][txts] \in Nat
    <3>1. past[where][txts] \in 0 .. MaxClock
      BY DEF TypeInv, TypeOK, Readable
    <3> QED
      BY <3>1, ClockRuns
  <2>2. past[where][txts] + TTL > now
    BY <1>1, <2>1, ClockRuns
  <2> QED
    BY <1>1, <2>2 DEF WereSince
<1> QED
  BY <1>1 DEF ReadableSince, Readable

LEMMA AnswersAreReadable ==
  ASSUME LabelsInv, Next, NEW r \in Readers, Gives(r, "items"),
         query[r].locale # Blank
  PROVE  \E instant \in Nat :
           /\ started[r] < instant + TTL
           /\ ReadableSince(instant, query[r], answer'.items.labels)
<1> USE DEF LabelsInv
<1> DEFINE q == query[r]
           t == answer'.items.labels
<1>1. started[r] \in Nat /\ TTL \in Nat \ {0}
  BY ClockRuns DEF TypeInv, TypeOK
<1>2. CASE Fill(r) /\ answer'.items = Items(r)
  <2>1. pc[r] = "fill" /\ t = labels[r]
    BY <1>2 DEF Fill, Items
  <2>2. ReadableSince(started[r], q, t)
    BY <2>1 DEF ReadLabels
  <2> QED
    BY <1>1, <2>2
<1>3. CASE AnswerFromCache(r) /\ answer'.items = cache[query[r]].items
  <2>1. /\ q \in Queries /\ cache[q] # NoEntry
        /\ started[r] < cache[q].expires
    BY <1>3 DEF AnswerFromCache, Hit, CacheKey, TypeInv, InCall
  <2>2. cache[q].expires \in TTL .. MaxClock + TTL
    BY <2>1 DEF TypeInv, TypeOK
  <2>3. ReadableSince(cache[q].expires - TTL, q, t)
    BY <1>3, <2>1 DEF CachedLabels
  <2>4. /\ cache[q].expires - TTL \in Nat
        /\ started[r] < (cache[q].expires - TTL) + TTL
    BY <1>1, <2>1, <2>2, ClockRuns
  <2> QED
    BY <2>3, <2>4
<1> QED
  BY <1>2, <1>3, WhoAnswers

LEMMA AnswersAreRecent ==
  ASSUME LabelsInv, Next, NEW r \in Readers, Gives(r, "items"),
         query[r].locale # Blank
  PROVE  LET q == query[r]
             t == answer'.items.labels
         IN  \/ t = TextsIn(db, q)
             \/ WereSince(started[r], past.committed, q, t)
             \/ /\ HostReaders # {}
                /\ \/ draft # NoDraft /\ t = TextsIn(draft, q)
                   \/ WereSince(started[r], past.draft, q, t)
<1>1. started[r] \in Nat
  BY ClockRuns DEF LabelsInv, TypeInv, TypeOK
<1> QED
  BY <1>1, AnswersAreReadable, ReadableIsRecent DEF LabelsInv

\* No answer holds labels that ended to be readable, committed or, if calls are
\* made in it, in the host's transaction, a cache lifetime or more before the
\* call looked at the clock: however many calls fill the cache, in whatever
\* order, and however long their reads take.
THEOREM LabelsAreRecent == Spec => LabelsRecent
<1>1. LabelsInv /\ [Next]_vars =>
        [\A r \in Readers :
           Gives(r, "items") /\ query[r].locale # Blank =>
             LET q == query[r]
                 t == answer'.items.labels
             IN  \/ t = TextsIn(db, q)
                 \/ WereSince(started[r], past.committed, q, t)
                 \/ /\ HostReaders # {}
                    /\ \/ draft # NoDraft /\ t = TextsIn(draft, q)
                       \/ WereSince(started[r], past.draft, q, t)]_vars
  BY AnswersAreRecent
<1> QED
  BY <1>1, InitLabels, LabelsStep, PTL DEF Spec, LabelsRecent

-----------------------------------------------------------------------------
(***************************************************************************)
(* The definition.  Distinct dictionaries have distinct versions: the      *)
(* service compares 31-bit hashes, which does not make it so, and a        *)
(* collision would serve one dictionary's cached items as another's.       *)
(***************************************************************************)
VersionsDiffer ==
  \A h, o \in Hashes \ Malformed : VersionOf[h] = VersionOf[o] => h = o

LEMMA ReadCurrentStep ==
  ASSUME TypeInv, ReadCurrent, [Next]_vars
  PROVE  ReadCurrent'
<1>1. CASE StoreChanges
  <2>1. Remember /\ UNCHANGED <<pc, query, content>>
    BY <1>1, EnvironmentStep DEF calls
  <2>2. ASSUME NEW r \in Readers
        PROVE  current'[r] = IF Asking(r)
                             THEN current[r] \cup {DefinitionIn(Seen(r)', query[r])}
                             ELSE current[r]
    BY <2>1 DEF Remember
  <2>3. ASSUME NEW r \in Readers, pc[r] # "idle"
        PROVE  DefinitionIn(Seen(r), query[r])' \in current'[r]
    BY <2>1, <2>2, <2>3 DEF Asking, DefinitionIn
  <2> QED
    BY <2>1, <2>2, <2>3 DEF ReadCurrent, Asking, HasContent
<1>2. CASE Tick \/ UNCHANGED vars
  <2>1. UNCHANGED <<db, draft, pc, query, content, current>>
    BY <1>2 DEF Tick, calls, vars
  <2> QED
    BY <2>1 DEF ReadCurrent, Asking, Seen, DefinitionIn
<1>3. ASSUME NEW r \in Readers, Call(r)
      PROVE  ReadCurrent'
  <2>1. UNCHANGED <<db, draft>>
    BY <1>3, CallLeavesEnvironment
  <2>2. \A o \in Readers : Seen(o)' = Seen(o)
    BY <2>1 DEF Seen
  <2>3. ASSUME NEW o \in Readers, o # r
        PROVE  /\ Asking(o)' => DefinitionIn(Seen(o), query[o])' \in current'[o]
               /\ pc'[o] \in HasContent => content'[o] \in current'[o]
    <3>1. /\ pc'[o] = pc[o] /\ query'[o] = query[o]
          /\ content'[o] = content[o] /\ current'[o] = current[o]
      BY <1>3, <2>3, CallIsItsReaders
    <3> QED
      BY <2>2, <3>1 DEF ReadCurrent, Asking, DefinitionIn
  <2>4. /\ Asking(r)' => DefinitionIn(Seen(r), query[r])' \in current'[r]
        /\ pc'[r] \in HasContent => content'[r] \in current'[r]
    <3> USE DEF TypeInv, TypeOK, Goto, HasContent
    <3>1. CASE Ask(r)
      BY <1>3, <2>2, <3>1 DEF Ask, DefinitionIn
    <3>2. CASE ReadClock(r) \/ Miss(r) \/ ReadTexts(r)
      BY <2>2, <3>2 DEF ReadClock, Miss, ReadTexts, ReadCurrent, Asking, DefinitionIn
    <3>3. CASE ReadDefinition(r) /\ pc'[r] # "idle"
      <4>1. /\ pc[r] = "definition" /\ pc'[r] = "clock"
            /\ content'[r] = DefinitionIn(Seen(r), query[r])
            /\ UNCHANGED <<query, current>>
        BY <3>3 DEF ReadDefinition, Return
      <4> QED
        BY <2>2, <4>1 DEF ReadCurrent, Asking, DefinitionIn
    <3>4. CASE pc'[r] = "idle"
      BY <3>4 DEF Asking
    <3>5. CASE Refuse(r) \/ AnswerFromCache(r) \/ Fill(r) \/ FailRead(r)
      <4>1. pc'[r] = "idle"
        BY <3>5 DEF Refuse, AnswerFromCache, Fill, FailRead, Return
      <4> QED
        BY <3>4, <4>1
    <3> QED
      BY <1>3, <3>1, <3>2, <3>3, <3>4, <3>5 DEF Call
  <2> QED
    BY <2>3, <2>4 DEF ReadCurrent
<1> QED
  BY <1>1, <1>2, <1>3 DEF Next, StoreChanges

LEMMA CachedVersionsStep ==
  ASSUME TypeInv, CachedVersions, [Next]_vars
  PROVE  CachedVersions'
<1>1. CASE StoreChanges \/ Tick \/ UNCHANGED vars
  <2>1. cache' = cache
    BY <1>1, EnvironmentLeavesCalls
  <2> QED
    BY <2>1 DEF CachedVersions
<1>2. ASSUME NEW r \in Readers, Call(r)
      PROVE  CachedVersions'
  <2>1. cache' = cache \/ cache' = [cache EXCEPT ![query[r]] = Filled(r)]
    BY <1>2, OnlyFillsCache
  <2>2. Filled(r).items.version = VersionOf[Filled(r).items.content]
    BY DEF Filled, Items
  <2>3. cache \in [Queries -> {NoEntry} \cup
                     [items : ItemSets, expires : TTL .. MaxClock + TTL]]
    BY DEF TypeInv, TypeOK
  <2> QED
    BY <2>1, <2>2, <2>3 DEF CachedVersions
<1> QED
  BY <1>1, <1>2 DEF Next, StoreChanges

LEMMA InitContent == Init => ContentInv
BY InitTyped DEF Init, ContentInv, ReadCurrent, CachedVersions, Asking, HasContent

LEMMA ContentStep == ContentInv /\ [Next]_vars => ContentInv'
BY StepTyped, StutterTyped, ReadCurrentStep, CachedVersionsStep DEF ContentInv

LEMMA AnswersAreCurrent ==
  ASSUME VersionsDiffer, ContentInv, Next, NEW r \in Readers
  PROVE  /\ Gives(r, "items") => answer'.items.content \in current[r]
         /\ Gives(r, "not_found") => Absent \in current[r]
<1> USE DEF ContentInv
<1>1. ASSUME Gives(r, "not_found")
      PROVE  Absent \in current[r]
  <2>1. ReadDefinition(r) /\ DefinitionIn(Seen(r), query[r]) = Absent
    BY <1>1, WhoAnswers
  <2>2. Asking(r)
    BY <2>1 DEF ReadDefinition, Asking
  <2> QED
    BY <2>1, <2>2 DEF ReadCurrent
<1>2. ASSUME Gives(r, "items")
      PROVE  answer'.items.content \in current[r]
  <2>1. CASE Fill(r) /\ answer'.items = Items(r)
    <3>1. pc[r] \in HasContent
      BY <2>1 DEF Fill, HasContent
    <3> QED
      BY <2>1, <3>1 DEF ReadCurrent, Items
  <2>2. CASE AnswerFromCache(r) /\ answer'.items = cache[query[r]].items
    <3>1. /\ query[r] \in Queries /\ cache[query[r]] # NoEntry
          /\ cache[query[r]].items.version = VersionOf[content[r]]
          /\ pc[r] \in HasContent
      BY <2>2 DEF AnswerFromCache, Hit, CacheKey, HasContent, TypeInv, InCall
    <3>2. /\ content[r] \in Hashes \ Malformed
          /\ content[r] \in current[r]
      BY <3>1 DEF TypeInv, InCall, ReadCurrent
    <3>3. cache[query[r]].items.content \in Hashes \ Malformed
      BY <3>1 DEF TypeInv, TypeOK, ItemSets
    <3>4. cache[query[r]].items.content = content[r]
      BY <3>1, <3>2, <3>3 DEF VersionsDiffer, CachedVersions
    <3> QED
      BY <2>2, <3>2, <3>4
  <2> QED
    BY <1>2, <2>1, <2>2, WhoAnswers
<1> QED
  BY <1>1, <1>2

\* As long as no two versions collide, an answer is made of a definition that
\* the dictionary had at a moment of the call, cached or not, and a dictionary
\* is reported missing only when it was missing at a moment of the call.
THEOREM DefinitionsAreOfTheCall ==
  ASSUME VersionsDiffer
  PROVE  Spec => DefinitionOfThisCall
<1>1. ContentInv /\ [Next]_vars =>
        [\A r \in Readers :
           /\ Gives(r, "items") => answer'.items.content \in current[r]
           /\ Gives(r, "not_found") => Absent \in current[r]]_vars
  BY AnswersAreCurrent
<1> QED
  BY <1>1, InitContent, ContentStep, PTL DEF Spec, DefinitionOfThisCall

-----------------------------------------------------------------------------
(***************************************************************************)
(* Labels that are published.  When no call of Items runs in the host's    *)
(* transaction, all that is read, and so all that is cached, has been      *)
(* committed.                                                              *)
(***************************************************************************)
Committed(q, t) == t = TextsIn(db, q) \/ WereOnce(past.committed, q, t)

CommittedInv ==
  /\ TypeInv
  /\ \A r \in Readers : pc[r] = "fill" /\ query[r].locale # Blank =>
       Committed(query[r], labels[r])
  /\ \A q \in Queries : cache[q] # NoEntry /\ q.locale # Blank =>
       Committed(q, cache[q].items.labels)

LEMMA CommittedStays ==
  ASSUME TypeInv, NEW q, NEW t, Committed(q, t),
         \/ Remember /\ clock' = clock
         \/ UNCHANGED <<db, draft, past>>
  PROVE  Committed(q, t)'
<1>1. CASE UNCHANGED <<db, draft, past>>
  BY <1>1 DEF Committed
<1>2. CASE Remember
  <2>1. CASE t = TextsIn(db, q) /\ db'.txts = db.txts
    BY <2>1 DEF Committed, TextsIn
  <2>2. CASE t = TextsIn(db, q) /\ db'.txts # db.txts
    BY <1>2, <2>2, ReplacedIsNoted DEF Committed, TextsIn, WereOnce
  <2>3. CASE WereOnce(past.committed, q, t)
    BY <1>2, <2>3, NothingForgotten DEF Committed, WereOnce
  <2> QED
    BY <2>1, <2>2, <2>3 DEF Committed
<1> QED
  BY <1>1, <1>2

LEMMA CommittedStep ==
  ASSUME HostReaders = {}, CommittedInv, [Next]_vars
  PROVE  CommittedInv'
<1> USE DEF CommittedInv
<1>1. TypeInv'
  BY StepTyped, StutterTyped
<1>2. CASE StoreChanges \/ Tick \/ UNCHANGED vars
  <2>1. /\ UNCHANGED <<cache, pc, query, labels>>
        /\ \/ Remember /\ clock' = clock
           \/ UNCHANGED <<db, draft, past>>
    BY <1>2, EnvironmentLeavesCalls
  <2>2. ASSUME NEW q, NEW t, Committed(q, t) PROVE Committed(q, t)'
    BY <2>1, <2>2, CommittedStays
  <2>3. ASSUME NEW r \in Readers, pc[r] = "fill", query[r].locale # Blank
        PROVE  Committed(query[r], labels[r])'
    BY <2>1, <2>2, <2>3 DEF Committed
  <2>4. ASSUME NEW q \in Queries, cache[q] # NoEntry, q.locale # Blank
        PROVE  Committed(q, cache[q].items.labels)'
    BY <2>1, <2>2, <2>4 DEF Committed
  <2> QED
    BY <1>1, <2>1, <2>3, <2>4
<1>3. ASSUME NEW r \in Readers, Call(r)
      PROVE  CommittedInv'
  <2>1. UNCHANGED <<db, draft, past>>
    BY <1>3, CallLeavesEnvironment
  <2>2. ASSUME NEW o \in Readers, pc'[o] = "fill", query'[o].locale # Blank
        PROVE  Committed(query[o], labels[o])'
    <3>1. CASE o # r
      BY <1>3, <2>1, <2>2, <3>1, CallIsItsReaders DEF Committed
    <3>2. CASE o = r
      <4>1. query'[r] = query[r] /\ labels'[r] = TextsIn(db, query[r])
        <5>1. query'[r] = query[r]
          BY <1>3, <2>2, <3>2, StaysInQuery
        <5> QED
          BY <1>3, <2>2, <3>2, <5>1, ReachesFill DEF Seen
      <4> QED
        BY <2>1, <3>2, <4>1 DEF Committed, TextsIn
    <3> QED
      BY <3>1, <3>2
  <2>3. ASSUME NEW q \in Queries, cache'[q] # NoEntry, q.locale # Blank
        PROVE  Committed(q, cache[q].items.labels)'
    <3>1. CASE cache' = cache
      BY <2>1, <2>3, <3>1 DEF Committed
    <3>2. CASE /\ pc[r] = "fill" /\ query[r] \in Queries
               /\ cache' = [cache EXCEPT ![query[r]] = Filled(r)]
      <4>1. cache'[q] = IF q = query[r] THEN Filled(r) ELSE cache[q]
        BY <3>2 DEF TypeInv, TypeOK
      <4>2. Filled(r).items.labels = labels[r]
        BY DEF Filled, Items
      <4> QED
        BY <2>1, <2>3, <3>2, <4>1, <4>2 DEF Committed
    <3> QED
      BY <1>3, <3>1, <3>2, OnlyFillsCache
  <2> QED
    BY <1>1, <2>2, <2>3
<1> QED
  BY <1>2, <1>3 DEF Next, StoreChanges

\* If no call of Items runs in a host's transaction, nobody is served labels
\* that were never committed, though hosts publish in transactions of their
\* own and roll some back: the calls inside are what breaks the promise.
THEOREM PublishedWithoutHostCalls ==
  ASSUME HostReaders = {}
  PROVE  Spec => LabelsPublished
<1>1. Init => CommittedInv
  BY InitTyped DEF Init, CommittedInv
<1>2. ASSUME CommittedInv, Next, NEW r \in Readers, Gives(r, "items"),
             query[r].locale # Blank
      PROVE  Committed(query[r], answer'.items.labels)
  <2> USE DEF CommittedInv
  <2>1. CASE Fill(r) /\ answer'.items = Items(r)
    BY <1>2, <2>1 DEF Fill, Items
  <2>2. CASE AnswerFromCache(r) /\ answer'.items = cache[query[r]].items
    <3>1. query[r] \in Queries /\ cache[query[r]] # NoEntry
      BY <1>2, <2>2 DEF AnswerFromCache, Hit, CacheKey, TypeInv, InCall
    <3> QED
      BY <1>2, <2>2, <3>1
  <2> QED
    BY <1>2, <2>1, <2>2, WhoAnswers
<1>3. CommittedInv /\ [Next]_vars =>
        [\A r \in Readers \ HostReaders :
           Gives(r, "items") /\ query[r].locale # Blank =>
             LET q == query[r]
                 t == answer'.items.labels
             IN  t = TextsIn(db, q) \/ WereOnce(past.committed, q, t)]_vars
  BY <1>2 DEF Committed
<1> QED
  BY <1>1, <1>3, CommittedStep, PTL DEF Spec, LabelsPublished

=============================================================================
