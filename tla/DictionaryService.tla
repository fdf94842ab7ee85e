-------------------------- MODULE DictionaryService --------------------------
(***************************************************************************)
(* DictionaryService.Items: the items of a dictionary in a locale, built   *)
(* from two reads of the store and kept in a cache of the process, while   *)
(* sources publish and time passes.                                        *)
(*                                                                         *)
(* The mutex is held only around each access to the cache, so a call is a  *)
(* sequence of steps that other calls and publications fall between: read  *)
(* the definition, read the clock, look in the cache, read the localized   *)
(* texts, fill the cache.  Publications are those of ProjectionCatalog.    *)
(*                                                                         *)
(* Both reads use the transaction in the context, if there is one: a host  *)
(* that has published a snapshot in its own transaction, and not committed *)
(* it, reads its draft.  The cache makes no difference between the two.    *)
(*                                                                         *)
(* The items are represented by what they are made of: the content of the  *)
(* definition (its hash) and the localized texts (see DictionaryMerge).    *)
(***************************************************************************)
EXTENDS MetadataSchema

CONSTANTS
  Readers,         \* concurrent calls of Items
  HostReaders,     \* those made with the host's transaction in the context
  Queries,         \* what they ask for
  Drafts,          \* snapshots the host publishes in a transaction of its own
  Blank,           \* an empty string
  Locales,
  ItemTexts,       \* ItemTexts[r, l]: keys of r's items' texts in locale l
  VersionOf,       \* VersionOf[h]: 31-bit FNV-1a of a schema hash
  Malformed,       \* contents that are JSON, but not of a dictionary
  TTL,             \* DictionaryItemsCacheTTL
  MaxClock,        \* bound: the last instant modelled
  NoDraft,         \* the host has no transaction with a publication
  NoEntry,         \* nothing is cached
  NoItems,         \* the call returns no items
  NoQuery,         \* the reader is not in Items
  NoAnswer         \* no call returned in the last step

Query == [workspace : Workspaces \cup {Blank}, dictionary : Resources \cup {Blank},
          locale : Locales \cup {Blank}]

ASSUME ReadersAsk == Queries \subseteq Query /\ HostReaders \subseteq Readers

ASSUME DraftsAreSnapshots == Drafts \subseteq Snapshots

ASSUME BlankIsNoName == Blank \notin Workspaces \cup Resources \cup Locales

ASSUME ContentsTyped ==
  /\ ItemTexts \in [Resources \X Locales -> SUBSET TextKeys]
  /\ VersionOf \in [Hashes -> Nat]
  /\ Malformed \subseteq Hashes

ASSUME ClockRuns == TTL \in Nat \ {0} /\ MaxClock \in Nat

VARIABLES
  db,              \* the committed tables
  draft,           \* the tables as the host's open transaction sees them
  clock,           \* time.Now(); the readings are monotonic
  cache,           \* cache[q]: the entry of a cache key
  pc, query,       \* each reader's next step, and its query
  content, labels, \* what it read: the definition and the texts
  started,         \* its reading of the clock
  answer,          \* the call that returned in the last step, and what
  past,            \* history: when texts were last committed, or in a draft
  current          \* history: definitions the reader could have read

environment == <<db, draft, clock, past>>
vars == <<db, draft, clock, cache, pc, query, content, labels, started,
          answer, past, current>>

Catalog == INSTANCE ProjectionCatalog WITH db <- db

-----------------------------------------------------------------------------
(***************************************************************************)
(* What the store answers.                                                 *)
(***************************************************************************)
\* Definitions.Get, of enabled definitions.
DefinitionIn(d, q) ==
  IF q.dictionary = Blank \/ d.defs[q.dictionary] = Absent THEN Absent
  ELSE IF d.defs[q.dictionary].disabled THEN Absent
  ELSE d.defs[q.dictionary].hash

\* Localization.List, cut down to the items of the dictionary; without a
\* locale it is not called.
Wanted(q) ==
  IF Blank \in {q.workspace, q.dictionary, q.locale} THEN {}
  ELSE ItemTexts[q.dictionary, q.locale]

Reading(txts, q) ==
  [k \in Wanted(q) |->
     IF txts[<<q.workspace, k>>] = Absent THEN Absent
     ELSE txts[<<q.workspace, k>>].text]

TextsIn(d, q) == Reading(d.txts, q)

Readings(q) == [Wanted(q) -> Texts \cup {Absent}]

\* The tables a reader's statements see.
\* Mutant: those of the open transaction, whoever reads.
SeenByAll(r) == IF draft # NoDraft THEN draft ELSE db

Seen(r) == IF r \in HostReaders /\ draft # NoDraft THEN draft ELSE db

-----------------------------------------------------------------------------
(***************************************************************************)
(* The cache.  Its keys are workspace, dictionary and locale.              *)
(***************************************************************************)
CacheKey(q) == q

Items(r) == [version |-> VersionOf[content[r]], content |-> content[r],
             labels |-> labels[r]]

\* Mutant: the version is not compared.
HitAnyVersion(r) ==
  LET entry == cache[CacheKey(query[r])] IN
  entry # NoEntry /\ started[r] < entry.expires

Hit(r) ==
  LET entry == cache[CacheKey(query[r])] IN
  /\ entry # NoEntry
  /\ started[r] < entry.expires
  /\ entry.items.version = VersionOf[content[r]]

\* Mutant: the entry lives from when it is stored.
FilledLate(r) == [items |-> Items(r), expires |-> clock + TTL]

Filled(r) == [items |-> Items(r), expires |-> started[r] + TTL]

-----------------------------------------------------------------------------
ItemSets ==
  [version : {VersionOf[h] : h \in Hashes}, content : Hashes \ Malformed,
   labels : UNION {Readings(q) : q \in Queries}]

Outcomes == {"items", "refused", "not_found", "invalid", "error"}

Answers == [reader : Readers, outcome : Outcomes, items : ItemSets \cup {NoItems}]

TypeOK ==
  /\ db \in Database
  /\ draft \in Database \cup {NoDraft}
  /\ clock \in 0 .. MaxClock
  /\ cache \in [Queries -> {NoEntry} \cup
                   [items : ItemSets, expires : TTL .. MaxClock + TTL]]
  /\ pc \in [Readers -> {"idle", "definition", "clock", "cache", "texts",
                         "fill"}]
  /\ query \in [Readers -> Queries \cup {NoQuery}]
  /\ content \in [Readers -> Hashes \cup {Absent}]
  /\ labels \in [Readers -> {<<>>} \cup UNION {Readings(q) : q \in Queries}]
  /\ started \in [Readers -> 0 .. MaxClock]
  /\ answer \in Answers \cup {NoAnswer}
  /\ \A where \in {"committed", "draft"} :
       past[where] \in [DOMAIN past[where] -> 0 .. MaxClock]
  /\ current \in [Readers -> SUBSET (Hashes \cup {Absent})]

Init ==
  /\ db = EmptyDatabase
  /\ draft = NoDraft
  /\ clock = 0
  /\ cache = [q \in Queries |-> NoEntry]
  /\ pc = [r \in Readers |-> "idle"]
  /\ query = [r \in Readers |-> NoQuery]
  /\ content = [r \in Readers |-> Absent]
  /\ labels = [r \in Readers |-> <<>>]
  /\ started = [r \in Readers |-> 0]
  /\ answer = NoAnswer
  /\ past = [committed |-> <<>>, draft |-> <<>>]
  /\ current = [r \in Readers |-> {}]

-----------------------------------------------------------------------------
(***************************************************************************)
(* The environment: sources publish, the host opens and ends transactions, *)
(* time passes.  While the host has a draft nobody else publishes: every   *)
(* publication deletes and inserts the one row of the projection, which    *)
(* the host's transaction has written and keeps locked until it ends (on   *)
(* SQLite, which has one writer, already the first write waits).  So the   *)
(* tables the host sees and the committed ones differ by the host's        *)
(* snapshots alone.                                                        *)
(***************************************************************************)
Asking(r) == pc[r] # "idle"

Note(seen, d) ==
  [t \in DOMAIN seen \cup {d.txts} |-> IF t = d.txts THEN clock ELSE seen[t]]

Remember ==
  /\ past' =
       [committed |-> IF db'.txts = db.txts THEN past.committed
                      ELSE Note(past.committed, db),
        draft |-> IF draft \in {NoDraft, draft'} THEN past.draft
                  ELSE Note(past.draft, draft)]
  /\ current' = [r \in Readers |->
       IF Asking(r)
       THEN current[r] \cup {DefinitionIn(Seen(r)', query[r])} ELSE current[r]]

calls == <<cache, pc, query, content, labels, started>>

Publish(s) ==
  /\ draft = NoDraft
  /\ Catalog!Publish(s)
  /\ draft' = draft
  /\ Remember
  /\ answer' = NoAnswer
  /\ UNCHANGED <<clock, calls>>

HostPublish(s) ==
  LET before == IF draft = NoDraft THEN db ELSE draft IN
  /\ Catalog!Accepts(before, s)
  /\ draft' = Catalog!After(before, s)
  /\ db' = db
  /\ Remember
  /\ answer' = NoAnswer
  /\ UNCHANGED <<clock, calls>>

HostCommit ==
  /\ draft # NoDraft
  /\ db' = draft
  /\ draft' = NoDraft
  /\ Remember
  /\ answer' = NoAnswer
  /\ UNCHANGED <<clock, calls>>

HostRollback ==
  /\ draft # NoDraft
  /\ draft' = NoDraft
  /\ db' = db
  /\ Remember
  /\ answer' = NoAnswer
  /\ UNCHANGED <<clock, calls>>

Tick ==
  /\ clock < MaxClock
  /\ clock' = clock + 1
  /\ answer' = NoAnswer
  /\ UNCHANGED <<db, draft, past, current, calls>>

-----------------------------------------------------------------------------
(***************************************************************************)
(* A call of Items.                                                        *)
(***************************************************************************)
Goto(r, step) == pc' = [pc EXCEPT ![r] = step]

Return(r, outcome, items) ==
  /\ answer' = [reader |-> r, outcome |-> outcome, items |-> items]
  /\ Goto(r, "idle")
  /\ query' = [query EXCEPT ![r] = NoQuery]
  /\ content' = [content EXCEPT ![r] = Absent]
  /\ labels' = [labels EXCEPT ![r] = <<>>]
  /\ started' = [started EXCEPT ![r] = 0]
  /\ current' = [current EXCEPT ![r] = {}]
  /\ UNCHANGED environment

Ask(r) ==
  /\ pc[r] = "idle"
  /\ \E q \in Queries :
       /\ query' = [query EXCEPT ![r] = q]
       /\ current' = [current EXCEPT ![r] = {DefinitionIn(Seen(r), q)}]
  /\ Goto(r, "definition")
  /\ answer' = NoAnswer
  /\ UNCHANGED <<environment, cache, content, labels, started>>

Refuse(r) ==
  /\ pc[r] = "definition"
  /\ Blank \in {query[r].workspace, query[r].dictionary}
  /\ Return(r, "refused", NoItems)
  /\ UNCHANGED cache

\* Mutant: a payload that is no dictionary is an empty one.
ReadDefinitionLeniently(r) ==
  LET found == DefinitionIn(Seen(r), query[r]) IN
  /\ pc[r] = "definition"
  /\ Blank \notin {query[r].workspace, query[r].dictionary}
  /\ \/ found = Absent /\ Return(r, "not_found", NoItems)
     \/ /\ found # Absent
        /\ content' = [content EXCEPT ![r] = found]
        /\ Goto(r, "clock")
        /\ answer' = NoAnswer
        /\ UNCHANGED <<environment, query, labels, started, current>>
  /\ UNCHANGED cache

ReadDefinition(r) ==
  LET found == DefinitionIn(Seen(r), query[r]) IN
  /\ pc[r] = "definition"
  /\ Blank \notin {query[r].workspace, query[r].dictionary}
  /\ \/ found = Absent /\ Return(r, "not_found", NoItems)
     \/ found \in Malformed /\ Return(r, "invalid", NoItems)
     \/ /\ found \notin Malformed \cup {Absent}
        /\ content' = [content EXCEPT ![r] = found]
        /\ Goto(r, "clock")
        /\ answer' = NoAnswer
        /\ UNCHANGED <<environment, query, labels, started, current>>
  /\ UNCHANGED cache

ReadClock(r) ==
  /\ pc[r] = "clock"
  /\ started' = [started EXCEPT ![r] = clock]
  /\ Goto(r, "cache")
  /\ answer' = NoAnswer
  /\ UNCHANGED <<environment, cache, query, content, labels, current>>

AnswerFromCache(r) ==
  /\ pc[r] = "cache"
  /\ Hit(r)
  /\ Return(r, "items", cache[CacheKey(query[r])].items)
  /\ UNCHANGED cache

Miss(r) ==
  /\ pc[r] = "cache"
  /\ ~Hit(r)
  /\ Goto(r, IF query[r].locale = Blank THEN "fill" ELSE "texts")
  /\ answer' = NoAnswer
  /\ UNCHANGED <<environment, cache, query, content, labels, started, current>>

ReadTexts(r) ==
  /\ pc[r] = "texts"
  /\ labels' = [labels EXCEPT ![r] = TextsIn(Seen(r), query[r])]
  /\ Goto(r, "fill")
  /\ answer' = NoAnswer
  /\ UNCHANGED <<environment, cache, query, content, started, current>>

\* Whatever another call has put there meanwhile is replaced.
Fill(r) ==
  /\ pc[r] = "fill"
  /\ cache' = [cache EXCEPT ![CacheKey(query[r])] = Filled(r)]
  /\ Return(r, "items", Items(r))

\* Either read may fail; nothing is cached then.
FailRead(r) ==
  /\ pc[r] \in {"definition", "texts"}
  /\ Blank \notin {query[r].workspace, query[r].dictionary}
  /\ Return(r, "error", NoItems)
  /\ UNCHANGED cache

Call(r) ==
  \/ Ask(r) \/ Refuse(r) \/ ReadDefinition(r) \/ ReadClock(r)
  \/ AnswerFromCache(r) \/ Miss(r) \/ ReadTexts(r) \/ Fill(r)
  \/ FailRead(r)

Next ==
  \/ \E s \in Snapshots : Publish(s)
  \/ \E s \in Drafts : HostPublish(s)
  \/ HostCommit \/ HostRollback \/ Tick
  \/ \E r \in Readers : Call(r)

Spec == Init /\ [][Next]_vars

-----------------------------------------------------------------------------
(***************************************************************************)
(* Properties.                                                             *)
(***************************************************************************)
Gives(r, outcome) ==
  answer' # NoAnswer /\ answer'.reader = r /\ answer'.outcome = outcome

\* The query's texts were t at some time, or until less than TTL before an
\* instant, in tables that are no longer to be read.
WereOnce(seen, q, t) == \E txts \in DOMAIN seen : Reading(txts, q) = t

WereSince(instant, seen, q, t) ==
  \E txts \in DOMAIN seen :
    Reading(txts, q) = t /\ seen[txts] + TTL > instant

\* The labels of an answer are those of that workspace, dictionary and locale
\* that could be read, in the committed tables or, if there are calls in the
\* host's transaction, in that, less than TTL before the call looked at the
\* clock, or later: whichever call filled the cache, however long its reads
\* took, and in whatever order the fills reached the cache.
LabelsRecent ==
  [][\A r \in Readers :
       Gives(r, "items") /\ query[r].locale # Blank =>
         LET q == query[r]
             t == answer'.items.labels
         IN  \/ t = TextsIn(db, q)
             \/ WereSince(started[r], past.committed, q, t)
             \/ /\ HostReaders # {}
                /\ \/ draft # NoDraft /\ t = TextsIn(draft, q)
                   \/ WereSince(started[r], past.draft, q, t)]_vars

\* The definition an answer is made of was the dictionary's at a moment of
\* the call, cached or not; and a dictionary is not found only when it was
\* missing at a moment of the call.
DefinitionOfThisCall ==
  [][\A r \in Readers :
       /\ Gives(r, "items") => answer'.items.content \in current[r]
       /\ Gives(r, "not_found") => Absent \in current[r]]_vars

\* A caller outside the host's transaction is served labels that have been
\* published, not ones of a publication that is not committed ("resolution
\* ... over the published revision", capability/agent/dictionary.md).
LabelsPublished ==
  [][\A r \in Readers \ HostReaders :
       Gives(r, "items") /\ query[r].locale # Blank =>
         LET q == query[r]
             t == answer'.items.labels
         IN  t = TextsIn(db, q) \/ WereOnce(past.committed, q, t)]_vars

=============================================================================
