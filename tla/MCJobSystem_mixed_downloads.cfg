SPECIFICATION Spec
CONSTANTS
  Jobs = {j1}
  MaxFaults = 2
  None = None
  Uploads = {}
  Videos = {v1}
  Downloads = {d1, d2}
  Addresses = {a1}
  Requests = {q1}
  MaxActive = 1
  MAX_RETRIES = 1
  Workers = {w1, w2}
  Stalls = TRUE
SYMMETRY Symmetry
INVARIANTS
  StemMatchesMix
