\* Two publishers of either source on PostgreSQL, one resource.
SPECIFICATION Spec
CONSTANTS
  a = a
  b = b
  r1 = r1
  r2 = r2
  h1 = h1
  h2 = h2
  v1 = v1
  v2 = v2
  w1 = w1
  w2 = w2
  k1 = k1
  k2 = k2
  t1 = t1
  t2 = t2
  p1 = p1
  p2 = p2
  Resources = {r1}
  Versions = {v1, v2}
  Hashes = {h1, h2}
  Sources = {a, b}
  WorkspaceOrder <- NoWorkspaces
  TextKeys = {}
  Texts = {}
  IdOf <- OwnIds
  Snapshots <- DefSnapshots
  Publishers = {p1, p2}
  Offers <- SharedSources
  Isolation = "read_committed"
  Absent = Absent
  Clean = Clean
  NoCall = NoCall
  NoStatement = NoStatement
SYMMETRY Symmetry
INVARIANTS TypeOK CatalogHashRecorded NoDisabledRows
PROPERTIES HistoryImmutable ConflictMeansOtherContent
