\* One client, every route, and no host; labels and answers are kept long enough
\* for the ages of the two caches to add up.
SPECIFICATION HTTPSpec
CONSTANTS
  a = a
  dict = dict
  h1 = h1
  h2 = h2
  v1 = v1
  v2 = v2
  w1 = w1
  w2 = w2
  en = en
  k1 = k1
  t1 = t1
  t2 = t2
  client = client
  host = host
  dictionary = dictionary
  every = every
  Resources = {dict}
  Versions = {v1, v2}
  Hashes = {h1, h2}
  Malformed = {h2}
  Sources = {a}
  WorkspaceOrder <- MCWorkspaceOrder
  TextKeys = {k1}
  Texts = {t1, t2}
  Locales = {en}
  ItemTexts <- MCItemTexts
  VersionOf <- MCVersionOf
  IdOf <- MCIdOf
  Snapshots <- MCSnapshots
  Drafts = {}
  Queries <- MCQueries
  Readers = {client}
  Clients = {client}
  HostReaders = {}
  Kinds = {dictionary}
  KindOf <- MCKindOf
  Filters = {every}
  Filtered <- MCFiltered
  Home <- MCHome
  Requests <- MCRequests
  MaxClock = 2
  TTL = 2
  MaxAge = 2
  Absent = Absent
  Blank = Blank
  NoDraft = NoDraft
  NoEntry = NoEntry
  NoItems = NoItems
  NoQuery = NoQuery
  NoAnswer = NoAnswer
  NoBundle = NoBundle
  NoBody = NoBody
  NoRequest = NoRequest
  NoReply = NoReply
INVARIANTS TypeInvariant FreshAnswersAreRecent
PROPERTIES AuthorizedAnswers
