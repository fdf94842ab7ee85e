# domainry-metadata in TLA+

A model of domainry-metadata: the catalog of definitions and localized texts
that source owners publish, the version history behind it, the dictionary
service that reads it through a cache, the coverage of the catalog by localized
texts, and the HTTP adapter that answers clients with caches of their own. The
modules are translated from the Go source; `PROJECT.json` maps each definition
to the lines it stands for. Every safety property that the runs check is also
proved for all values of the constants.

## The system

| Component | State | Operations | Talks to |
| --- | --- | --- | --- |
| Projection sync (`definition_store.go`, `definition_version_store.go`, `localized_text_store.go`) | a transaction, its own or the host's | `SyncProjection`: disable, then per definition look up, compare, record the version, update or insert; purge; per workspace replace the texts; replace the projection row | the database, statement by statement |
| Catalog (the same tables, seen from outside) | `_metadata_definitions`, `_metadata_definition_versions`, `_metadata_localized_texts`, `_metadata_projection` | `Get`, `List`, `Snapshot`, `ListLocalizedTexts`, `ProjectionName` | read by every service, through the transaction in the context if there is one |
| Dictionary service (`dictionary_service.go`) | a cache of the process, under a mutex | `Items` | two catalog reads and the clock |
| Dictionary merge (`dictionary_service.go`) | none | select by locale, merge, normalize, sort, localize | called by `Items` |
| Localization coverage (`localization_application_service.go`, `localization_service.go`) | none | `Coverage` | three catalog reads |
| HTTP adapter (`adapter.go`) | none; the client keeps answers for 5 s | five read routes, two exports, policy evaluation, ETag | all services |
| Assembly, SDK binding, capability, OpenAPI, actions, dialect profiles | fixed at start | constructors, static tables | |

What makes them correct, and what makes that hard:

* **Sync.** Several processes publish at once, each source on every start. A
  Sync is some ten statements per definition; at PostgreSQL's default isolation
  they interleave with other publishers' and each sees a different snapshot. It
  must be all or nothing, never rewrite history, never touch another source's
  rows, leave exactly what the snapshot says, and return.
* **Catalog.** Replay must change nothing, and the order in which independent
  modules publish must not matter.
* **Dictionary service.** Definition, clock, cache and texts are four separate
  accesses. Answers may be stale, but by less than TTL in their texts and not at
  all in their definition; what a transaction has not committed is nobody
  else's business, but the cache does not know of transactions.
* **Merge.** Blank fields are inherited through several loops and a map; the
  result must be what one would describe without them.
* **Coverage.** What must be translated is computed from payloads, what is shown
  is looked up by `Items`; the two must mean the same texts. A fallback is shown
  but is no translation.
* **HTTP.** Deny policies win wherever they stand; no route, tag or cache shows a
  client another workspace's texts; a coverage is read in three statements; the
  client's cache adds its age to the server's, and a 304 renews it.

`PROJECT.json` lists the hazards at their lines with the properties that cover
them.

## Modules

```
MetadataSchema                       tables, rows, snapshots
   +-- ProjectionCatalog             what a publication promises (abstract)
   |      +-- ProjectionCatalogProofs, MCCatalog
   +-- SyncProjection                how it is done, statement by statement
   |      |   INSTANCE ProjectionCatalog WITH db <- db (ImplementsCatalog)
   |      +-- MCSync
   |      +-- SyncProjectionProofs  types, the version history
   |             +-- SyncLockProofs  row locks, disabled rows, conflicts
   |                    +-- SyncOwnershipProofs   whose rows, what a commit leaves
   |                           +-- SyncRefinementProofs  one writer: ImplementsCatalog
   +-- DictionaryService             Items, its cache, the host's transaction
          |   INSTANCE ProjectionCatalog WITH db <- db (publications)
          +-- MCDictionary, DictionaryServiceProofs
          +-- MetadataHTTP           requests, authorization, client caches
                 +-- MCHTTP
                 +-- MetadataHTTPProofs  (extends DictionaryServiceProofs)
DictionaryMerge                      the pure part of Items
   +-- LocalizationCoverage          the pure part of Coverage
          +-- Resolution             a catalog that grows, resolved and covered
                 +-- MCResolution
                 +-- ResolutionProofs
```

### MetadataSchema

A table is a function from natural keys to rows or `Absent`. The primary keys
are computed from the natural keys, so this is also what the UNIQUE constraints
say. `Sources` stands for pairs of source kind and id, which the code always
compares together. A content is its hash. A snapshot's `identified` and `valid`
flags stand for the validations that end a Sync. `IdOf` gives the id under which
a version is recorded: the code joins type, key and version with colons, so two
resources may share one (`a` + `b:c`, `a:b` + `c`), but one resource's versions
never do (`IdAndVersionGiveResource`). Names, timestamps, payload bytes and the
default locale are left out because no decision reads them.

### ProjectionCatalog

One variable, `db`, and one action, `Publish(s)`. `After(d, s)` gives the tables
after an accepted snapshot in closed form, row by row: rows of other sources
stay, the source's rows become the snapshot's, a version is recorded where the
content changed. `Accepts(d, s)` says when there is such a step; a version that
is not recorded needs a free id (`Recordable`).

### SyncProjection

One action per statement of `SyncProjection` and per outcome of it; the program
counter `pc[p]` names the next statement. `tx[p]` holds the cells the
transaction wrote, which are also its row locks; reads see them over the
committed tables. Two engines:

* `"serial"`: SQLite, one write transaction at a time. The first statement of a
  Sync writes, so holding the write lock and being in a Sync are the same.
* `"read_committed"`: PostgreSQL's default, which `BeginTx(ctx, nil)` asks for.
  An UPDATE or DELETE picks its rows as of its start, waits for the locked ones
  (`Wait`, `target`), and then writes those that still satisfy its WHERE clause
  (`Rows`). Rows inserted meanwhile are not seen. A row that disappears and
  comes back while a statement waits is another row (`born`, `Commit`).

`ON CONFLICT DO NOTHING` waits for the other transaction and then either
inserts (`RecordVersion`) or, if anyone has recorded the id, does not
(`VersionNotInserted`, `RecheckHistory`); without a row for the version itself
the Sync ends in a conflict. Every
statement may fail (`Fail`), every INSERT may hit a constraint
(`UniqueViolation`). A transaction of the host differs from the store's own only
in who rolls back; the host is taken to roll back when Sync returns an error.

### DictionaryService

The steps of `Items` between two accesses to something shared. `clock` is
`time.Now()`, whose readings are monotonic. `draft` is what the host's open
transaction sees after a Sync in it; calls by `HostReaders` read it. An item
list is represented by what determines it: the content of the definition and the
texts. `answer` is the call that returned in the last step and what it returned.
Two variables record history for the properties: `past` (when texts were last
committed, or last in the host's draft) and `current` (definitions the reader
could have read during the call). Here a publication is one step; the disabled
rows of a Sync in progress are not visible outside it (`NoDisabledRows`). While
the host has a draft nobody else publishes: every Sync ends by deleting and
inserting the one projection row (`localized_text_store.go:85-100`), which the
host's transaction has written, so that on PostgreSQL another Sync waits there
until the host's transaction ends (on SQLite it waits at its first write).

### DictionaryMerge

`mergeDictionaryItems` as two folds over a map (`Put`, `PutLocalized`), the loop
of `dictionaryItemsForLocale` as a third (`Select`), the sort as `InOrder`: each
element at the place that those before it leave. And a closed form: an item is
described by a chain of positions, the last default for its key followed by the
items in the locale. Fields are grouped by the rule that applies to them: value
and description (also parent key, icon, tags, metadata) are inherited when
blank, a label is not, a sort order of 0 is unset, a colour may come from the UI
or Config map. Whitespace and letter case of locales are left out. The closed
form shows what the loops hide: a localized item's colour in its UI map does not
replace the default's colour, one in its colour field does.

### LocalizationCoverage

`localizedTextExpectedItems` as a sequence of entities (type, key, property)
with a default text, one case per definition type; `ResolveText` is the order
requested locale, fallback locale, default, humanized key. The code joins names
with dots, and a name may have dots of its own. A key is therefore the sequence
of the segments between its dots (`Split`), in which a dot at an end leaves a
blank segment: `Join` puts two names together and trims the outer dots (`Trim`),
and `Within` is the test for the dictionary's prefix by which `Items` passes
over a text. Definitions have keys that are not all dots (`ResourceKeys`). A
dictionary whose payload is none (`readable`) has nothing to translate, not even
its name. `Line` is an answer with its sort key, in which `Place` gives the
place of the entity. `Types` are the types the store accepts, `Displayed` those
that have a text to translate. A payload is cut down to what is displayed, and
the payload fields that play the same part for different types share a name
(`title` is a name, message or label; `parts` are options or payload fields).
`TextsOfItems` is the look-up that `Items` makes for the same texts, so that the
two can be compared.

### Resolution

The two as a system that can be checked and proved about: a catalog with one
dictionary grows by an item or a definition at a time, in one locale and with
one table of texts, and its resolution and coverage are looked at after each. The
program has no such variables; they quantify over its inputs, and the
properties are about the operators above. `CoverageSpeaksOfItems` does not
demand that `Items` shows the text of an item whose trimmed key no longer starts
with its dictionary's: the code passes over it. `NewKeyLowersCoverage` does not
demand that a dictionary that cannot be read lowers the coverage: the code
expects nothing of it, and `Items` answers with an error.

### MetadataHTTP

A request is authorized first (`Admitted`) and then answered from one read, but
for two routes: the coverage takes three steps (`CoverageTexts`,
`CoverageDefinitions`, `CoverageName`), and the items of a dictionary are a call
of `DictionaryService.Items`, whose steps this module runs (`AnswerItems`). The
adapter has the service, and the cache, that the host and the rest of the
process have: beside the clients, `Environment` publishes, opens, commits and
rolls back the host's transaction, lets time pass, and runs the calls of `Items`
of the readers that are no clients, those in the host's transaction
(`HostReaders`) and others. A client's calls are made outside any transaction
(`ClientsAsk`). A bundle's policies are a sequence; `Verdict` is the loop over
them, whose rounds are `ApplyPolicy`, in which a deny stays as the early return
makes it. A client acts in one workspace (`Home`) and keeps one answer for
`MaxAge`, the `max-age=5` of the headers; it may send the answer's tag along
(`Tags`), and a 304 gives the answer it keeps a new age. Bodies are the rows
they are made of, those of the exports included, and a tag is the body it is the
hash of; timestamps in rows are left out, so that a 304 may stand for a 200 with
the same rows and other timestamps. `held` records when tables were last the
committed ones. `Bodies`, `Pending` and `KeptAnswer` are the types of what is
read, worked on and kept; `MarkersAreNoValues` says that "no request" and the
like are none of them.

## Runs

| Run | Question | Result |
| --- | --- | --- |
| `catalog` | replay is idempotent; independent sources commute | holds |
| `sync_shared` | two publishers of any of two sources: history immutable, published hashes recorded, no disabled row committed, conflicts justified | holds |
| `sync_own_sources` | each publisher its own source: nobody takes over rows, a commit leaves nothing of the source's earlier snapshots (definitions and texts), and every Sync returns, although resources are locked in opposite orders | holds |
| `sync_serial` | one writer: Sync implements ProjectionCatalog, with every kind of rejection | holds |
| `version_rewrite` | the content published under a version is the recorded one | **violated** |
| `sync_leftover` | two replicas of one source: a commit leaves nothing but its snapshot | **violated** |
| `dictionary` | texts served are less than TTL old and of the right workspace, definitions served were current during the call | holds |
| `dictionary_host` | served texts have been published | **violated** |
| `resolution` | the merge is what the closed form says; no locale is empty; the coverage speaks of what `Items` shows; a fallback is no translation; a new key lowers the coverage, unless it is that of a dictionary that cannot be read | holds |
| `resolution_disabled` | disabled items resolve to their label | **violated** |
| `http` | every route: who is answered, with texts of which workspace, exports included; what a client shows is at most as old as both caches and the time to answer allow | holds |
| `http_host` | items beside a host that publishes and calls `Items` in its transactions: a client may be shown labels of the transaction, but nothing else uncommitted, and nothing older | holds |

`CommitShowsSnapshot`, which `sync_own_sources` checks, speaks in one direction:
rows of the source are rows of the snapshot. That none of the snapshot is
missing, as far as other sources leave room, is shown with one writer, by
`sync_serial` (`ImplementsCatalog`).

Bounds. Two publishers are enough for every race in question: each hazard is one
transaction's statement between two of another's. Two versions and two contents
allow a version to be reused and content to come back. One resource suffices
except for lock order and for whole snapshots, where there are two; two text
keys allow a snapshot to repeat one and replace another. Publishers call again
and again, so histories are as long as the sets of versions allow. `sync_serial`
uses ten hand-picked snapshots, among them one of each way to be rejected, a
repeated definition, repeated texts in two workspaces, and two resources whose
versions share an id; `sync_own_sources` uses five, in which both sources claim
both resources, in opposite orders, and one of the texts. The clock runs for
`MaxClock` instants and TTL is 1 (2 in `http`), so an entry can be filled, be
hit, expire and be refilled; a late store is wrong by one instant. Dictionaries
have up to four items, which is a default, two items in the locale and one of
another key or locale; a definition of another type takes the place of two, so
that a catalog has up to two of them. `dictionary` has one call in the host's
transaction and one outside; `http` has one client, since clients share nothing
but the server's cache, whose races `dictionary` covers; two publications, the
second of which puts a payload that is no dictionary in the dictionary's place;
all routes; and a principal for each way to be refused. In `http` TTL, MaxAge
and `MaxClock` are 2, so that the ages of the two caches add up: labels are
replaced in the instant in which they were read, served from the server's cache
an instant later, and shown by the client an instant after that. (A bound
without the sum fails there.) `http_host` has a client and a caller in the
host's transaction, and items as the only route; TTL, MaxAge and `MaxClock` are
1 there, and an entry that lives an instant too long, or a label that nobody
could read, breaks the property. In `resolution` a dictionary may be unreadable,
and names may start with a dot, end with one, or be one.

Symmetry is used for publishers, sources, contents and versions where the
instance treats them alike, and only with safety properties.

Fairness (`sync_own_sources`). `SF(Step(p))`: a publisher whose next statement is
possible again and again executes it; PostgreSQL queues those who wait for a row
lock. `WF(Deadlocked(p) /\ Fail(p))`: the engine aborts a transaction in a cycle
of waits. Nothing makes a publisher begin, and no other failure is forced.

### What the violations show

* `version_rewrite`: v1 with content A, v2 with content B, v1 with content B.
  The last is accepted because the current row already has content B, so the
  history is not consulted (`definition_store.go:126`); the catalog then says v1
  has B where the history says A. The README of the repository promises
  `definition_version_conflict`. Publishers that keep a version's content are
  safe (`AgreesUnlessVersionsReused`).
* `sync_leftover`: one replica disables nothing, because the other has not yet
  committed; the other commits; the first commits its own definition. Both
  snapshots' definitions are now the source's. One writer at a time, or one
  publisher per source, is enough to exclude it (`sync_own_sources`,
  `sync_serial`, `CommitsShowTheirSnapshot`). With shared sources
  `OwnershipStable` fails as well: between one replica's look-up of a definition
  and its UPDATE, the other replica purges the row and a second source claims
  the resource, and the UPDATE, which names no source, takes it.
* `dictionary_host`: the host publishes in its transaction and resolves a
  dictionary in it; the cache keeps the labels, and a caller outside gets them
  before they are committed, and also if they never are. That caller may be a
  client of the HTTP adapter, as `FreshAnswersAreRecent` has to admit
  (`http_host`). Without calls in the host's transaction it cannot happen
  (`PublishedWithoutHostCalls`).
* `resolution_disabled`: only active items are returned, though the guide says
  that a disabled one still resolves to its label.

## Proofs

`tlapm` checks eight modules. The theorems hold for every value of the constants
that satisfies the ASSUMEs: typed snapshots, one of the two engines, version ids
that tell one resource's versions apart, a positive TTL and MaxAge, markers that
are no rows or values, and for the resolution: keys and sort keys that can be
compared, a key that is a word, names made of segments, stored texts that are
not blank (a Sync that brings one is rejected). What a theorem assumes beyond
that is in its statement. TLC checked each inductive invariant on the instance
of the run named in brackets before it was proved.

### SyncProjectionProofs [sync_shared]

* `TypeCorrect`: `Spec => []TypeOK`. `TypeInv` strengthens it with facts
  about positions: a publisher past the loop head looks at an existing definition
  or text.
* `PublishedHashRecorded`: `Spec => []CatalogHashRecorded`. The property says
  nothing about open transactions, so it is not inductive. `HistoryInv` adds
  that every enabled or disabled row a transaction sees has its hash among the
  versions *it* sees, that a transaction writes only versions no one else has
  recorded or locked, and that a publisher about to write a definition has
  checked or recorded the version it publishes.
* `RecordedVersionsImmutable`: `Spec => HistoryImmutable`. From `HistoryInv`: a
  transaction that wrote a version found it absent, and nobody else could commit
  one while it held the lock.

### SyncLockProofs [sync_shared]

* `LockInvariant`: a row is written by one transaction at a time, the rows a
  transaction inserted are among those it wrote, and who has not reached its
  first statement wrote nothing.
* `DisabledNeverCommitted`: `Spec => []NoDisabledRows`. A purge that waits
  writes only rows it picked before it waited; that it still deletes every row
  its transaction disabled needs that those are its source's (`DisabledAreOwn`),
  that they are all picked (`PurgePicked`), and that a commit by another takes
  none of them off the list, because they are locked.
* `ConflictsAreJustified`: `Spec => ConflictMeansOtherContent`. The INSERT that
  lost the race and the SELECT that rereads the history are two statements;
  `LostRace` says that what stopped the first is still there for the second.

### SyncOwnershipProofs [sync_own_sources, sync_shared]

Two of its theorems assume `Separated == SourcesApart \/ Isolation = "serial"`: a
source has one publisher, or the engine one writer. The code enforces neither,
and `sync_leftover` shows that the second theorem fails without it.

* `RowsBelongToTheirSource`: `Separated` gives `Spec => OwnershipStable`. `OwnInv`
  says that what a transaction wrote, and what it wrote over, is its source's,
  and that a row found to be the source's own still is when its UPDATE, which
  names no source, comes.
* `CommitsShowTheirSnapshot`: `Separated` gives `Spec => CommitShowsSnapshot`.
  `ShownInv` follows what is visible of the source through the statements: after
  the first one every row is disabled or of the snapshot, after the purge all are
  of the snapshot, and texts are right in the workspaces dealt with. It is
  about what must not be left; that none of the snapshot is missing is part of
  `SerialSyncImplementsCatalog`.
* `AgreesUnlessVersionsReused`: `Spec => []CatalogAgreesWithHistory` if no two
  contents of a definition are offered under one version
  (`VersionsKeepContent`). The catalog and the history then hold only what was
  offered under its version. So the publishers, and not the store, keep the
  promise that `version_rewrite` refutes.

### SyncRefinementProofs [sync_serial]

* `SerialSyncImplementsCatalog`: with `Isolation = "serial"`,
  `Spec => ImplementsCatalog`. A commit is a publication that
  `ProjectionCatalog` accepts and has exactly its result; every other step
  changes nothing committed. `SerialInv` is `ShownInv` and, for the one
  publisher at work, what its position says of the closed form `After`:
  definitions placed so far, versions checked or recorded, the claims still to
  come, the workspaces written. `SerialInvariant` states it as a theorem.

### ProjectionCatalogProofs [catalog]

* `TypeCorrect`, and `ReplayIdempotent`: `Spec => []ReplayIsIdempotent`. The
  argument is about the closed form: after an accepted snapshot each claimable
  resource has the snapshot's hash, so a second one changes no content and
  consults no history.
* `IndependentCommute`: `Spec => []IndependentSourcesCommute`. One source's
  publication leaves the rows and the version ids the other asks for as they were
  (`ClaimedRowsStand`, `ClaimedIdsStand`), so the other accepts and writes the
  same. This needs version *ids*, not only versions, to be disjoint.

### DictionaryServiceProofs [dictionary]

* `TypeCorrect`: `Spec => []TypeOK`.
* `LabelsAreRecent`: `Spec => LabelsRecent`. `LabelsInv` says of the cache that an
  entry's labels could be read at its expiry minus TTL or later, and of a call
  about to fill it that its labels could be read when it looked at the clock
  or later; texts that are replaced are noted with the time (`past`). Where
  the host makes no calls in its transaction, all of this is about the committed
  texts alone.
* `DefinitionsAreOfTheCall`: `Spec => DefinitionOfThisCall` if versions of
  different contents differ (`VersionsDiffer`). The code folds a hash to 31 bits,
  which does not make it so; a collision serves other content until the entry
  expires. The hypothesis is about the contents only, not about the races.
* `PublishedWithoutHostCalls`: `Spec => LabelsPublished` if no call of `Items`
  runs in a host's transaction (`HostReaders = {}`). This is what the instance of
  `dictionary_host` lacks; TLC checked `CommittedInv` on that of `dictionary`
  without the host's reader.

### MetadataHTTPProofs [http, http_host]

* `RequestsAndAnswersTyped`: `HTTPSpec => []TypeInvariant`. The invariant
  relates the adapter to the service: a request waits for items just when a call
  of `Items` runs for its client, with the query its URL and workspace give.
* `ClientsShowRecentAnswers`: `HTTPSpec => []FreshAnswersAreRecent`, if
  `VersionsDiffer`. What a client shows may have been kept by it, renewed by a
  304, and taken from the server's cache before. `HTTPInv` bounds every part of
  a kept answer, and of what the server has read for a request so far, by the
  moment the request was sent: it is of tables that were committed then or
  later, or, for labels, less than TTL before. The host publishes and calls `Items`
  meanwhile; if it does so in its transaction (`HostReaders`), labels may be
  those of the transaction, within the same time, and only labels may. The bound
  needs that the tag sent along is that of the answer still kept (a 304 then
  renews what was just read and found the same), and, from
  `DictionaryServiceProofs`, `LabelsInv` and `ContentInv`, which the steps of
  `MetadataHTTP` preserve because each is a step of the service or leaves it
  alone.

* `OnlyTheEntitledAreAnswered`: `HTTPSpec => AuthorizedAnswers`, for bundles of
  any length. What the loop over the policies returns after n of them is
  "denied" if one of these denies, and else "allowed" if one allows. The texts of
  an answer are of the workspace its principal acts in (`OwnTexts`), because the
  workspace named in the URL was compared with it, or is not read.

### ResolutionProofs [resolution]

What is proved here is what loops and sorts compute for inputs of every length.
The induction theorems of the library take an operator as a parameter, which no
prover at hand can instantiate, but its theorem that a well-founded order has
minimal elements (`WFMin`) is about sets: a set of numbers with 0, and with each
number the next, has them all, or there would be a least one missing
(`AllNumbers`, `AllUpTo`). Three groups of lemmas rest on it:

* Loops (`FoldsExist`, `RoundsOfAFold`): the recursive function in the
  definition of a fold exists, so that the fold is the last of a sequence of
  rounds, each made from the one before.
* Sequences of sequences (`FlattenRounds`, `CountOfConcat`): what they are put
  together from, and how many of their elements are of a kind.
* Order (`OrderLists`): in a finite set with a strict order no two elements have
  the same number of elements before them, so that `InOrder` lists them all.

The theorems:

* `AnswersAreAsDescribed`: `Spec => []ResolvesAsDescribed`. The invariant of the
  loops (`MergedIsDescribed`): after n items, the map has an entry for a key just
  when the chain up to n is not empty, and the entry fits what that chain
  describes. The step is a lemma without loops, `MoreIsDescribed`: to inherit
  from what a chain describes is to be described by the longer chain.
* `EveryLocaleHasItems`: `Spec => []NoLocaleIsEmpty`. Some key is described, and
  no item of its chain is disabled.
* `NoFallbackTranslates`: `Spec => []FallbackIsNoTranslation`. The missing lines
  are as many as the expected texts that the locale does not have (`Covers`),
  which no fallback enters, and they are an initial segment of the list.
* `CoverageAndItemsAgree`: `Spec => []CoverageSpeaksOfItems`. An item that is
  shown stems from an item of the dictionary with its key (`ResolvedHaveItems`),
  for which the walk over the definitions expects a label under that key
  (`ItemsAreExpected`), and both look the same text up.
* `NewKeysLowerCoverage`: `Spec => []NewKeyLowersCoverage`. A catalog with one
  more item or definition expects what it did before and the texts of the new one
  (`OneMoreItem`, `OneMoreDefinition`), among them one for its own key.

### Only model-checked

* `SyncReturns`: liveness and ENABLED are outside what the prover supports.

## Not modelled

* Several Syncs in one host transaction, and a host that commits after a failed
  Sync.
* MySQL's repeatable read; its locks differ from both engines here.
* Versions of different contents that fold to one 31-bit number: the cache then
  answers with the other content until the entry expires, by construction. The
  definition is read before the clock, so its age is not bounded by TTL then.
* One revision per answer. Definition and texts of `Items`, and the three parts
  of a coverage, come from statements of their own and may be of different
  publications; no document promises otherwise, and the properties bound each
  part by itself.
* A definition whose key is made of dots only: joined with a name of dots, nothing
  is left of it, and the texts of that name are not expected.
* A text of a localized item inside a dictionary's payload. The coverage does
  not count it as a translation, only stored texts are.
* The construction of the mux, path parsing, CSV and XLSX rendering, the `source`
  filter of `List`: formatting, or without a caller.
* Assembly, capability documents, OpenAPI, static action tables, dialect
  profiles, the reserved server: no state.

## Plan

1. Done: schema, catalog, sync with both engines, version ids as the code builds
   them, dictionary service and merge, coverage, HTTP adapter and
   authorization, the client's cache composed with the server's; proofs of every
   safety property.
2. Proofs: under `Separated` on PostgreSQL, that a commit's definitions are those
   `ProjectionCatalog` gives its snapshot, row by row, although commits between
   its statements keep it from being a refinement.
3. A third engine: MySQL's repeatable read with gap locks.
4. A host that runs several Syncs in one transaction.
