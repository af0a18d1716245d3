SPECIFICATION Spec
CONSTANTS
  Jobs = {j1, j2}
  MaxFaults = 1
  None = None
  Uploads = {u1}
  Videos = {}
  Downloads = {d1}
  Addresses = {a1}
  Requests = {q1}
  MaxActive = 1
  MAX_RETRIES = 1
  Workers = {w1, w2}
  Stalls = TRUE
SYMMETRY Symmetry
INVARIANTS
  ProgressShown
PROPERTIES
  RecordSpec
