\* The items of a dictionary, which a host asks for too, in the transaction in
\* which it publishes.
SPECIFICATION HTTPSpec
CONSTANTS
  a = a
  dict = dict
  h1 = h1
  h2 = h2
  v1 = v1
  v2 = v2
  w1 = w1
  w2 = w2
  en = en
  k1 = k1
  t1 = t1
  t2 = t2
  client = client
  host = host
  dictionary = dictionary
  every = every
  Resources = {dict}
  Versions = {v1, v2}
  Hashes = {h1, h2}
  Malformed = {}
  Sources = {a}
  WorkspaceOrder <- MCWorkspaceOrder
  TextKeys = {k1}
  Texts = {t1, t2}
  Locales = {en}
  ItemTexts <- MCItemTexts
  VersionOf <- MCVersionOf
  IdOf <- MCIdOf
  Snapshots <- ItemsSnapshots
  Drafts <- HostDrafts
  Queries <- ItemsQueries
  Readers = {client, host}
  Clients = {client}
  HostReaders = {host}
  Kinds = {dictionary}
  KindOf <- MCKindOf
  Filters = {every}
  Filtered <- MCFiltered
  Home <- MCHome
  Requests <- ItemsRequests
  MaxClock = 1
  TTL = 1
  MaxAge = 1
  Absent = Absent
  Blank = Blank
  NoDraft = NoDraft
  NoEntry = NoEntry
  NoItems = NoItems
  NoQuery = NoQuery
  NoAnswer = NoAnswer
  NoBundle = NoBundle
  NoBody = NoBody
  NoRequest = NoRequest
  NoReply = NoReply
INVARIANTS FreshAnswersAreRecent
