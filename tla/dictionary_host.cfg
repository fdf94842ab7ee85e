\* One call inside the host transaction and one outside it.
SPECIFICATION Spec
CONSTANTS
  a = a
  dict = dict
  h1 = h1
  h2 = h2
  v1 = v1
  v2 = v2
  w1 = w1
  w2 = w2
  en = en
  k1 = k1
  t1 = t1
  t2 = t2
  host = host
  reader1 = reader1
  Resources = {dict}
  Versions = {v1, v2}
  Hashes = {h1, h2}
  Malformed = {}
  Sources = {a}
  WorkspaceOrder <- MCWorkspaceOrder
  TextKeys = {k1}
  Texts = {t1, t2}
  Locales = {en}
  ItemTexts <- MCItemTexts
  VersionOf <- MCVersionOf
  IdOf <- MCIdOf
  Snapshots <- MCSnapshots
  Drafts <- MCSnapshots
  Queries <- MCQueries
  Readers = {reader1, host}
  HostReaders = {host}
  MaxClock = 1
  TTL = 1
  Absent = Absent
  Blank = Blank
  NoDraft = NoDraft
  NoEntry = NoEntry
  NoItems = NoItems
  NoQuery = NoQuery
  NoAnswer = NoAnswer
PROPERTIES LabelsPublished
