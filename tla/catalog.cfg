\* Whole publications of two sources.
SPECIFICATION Spec
CONSTANTS
  Resources = {r1, r2}
  Versions = {v1, v2}
  Hashes = {h1, h2}
  Sources = {a, b}
  r1 = r1
  r2 = r2
  v1 = v1
  v2 = v2
  w1 = w1
  k1 = k1
  WorkspaceOrder <- MCWorkspaceOrder
  TextKeys = {k1}
  Texts = {t1, t2}
  IdOf <- MCIdOf
  Snapshots <- MCSnapshots
  Absent = Absent
SYMMETRY Symmetry
INVARIANTS TypeOK ReplayIsIdempotent IndependentSourcesCommute
