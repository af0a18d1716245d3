SPECIFICATION Spec
CONSTANTS
  Jobs = {j1}
  MaxFaults = 2
  None = None
  Uploads = {}
  Videos = {v1}
  Downloads = {d1}
  Addresses = {a1}
  Requests = {q1}
  MaxActive = 1
  MAX_RETRIES = 2
  Workers = {w1}
  Stalls = FALSE
SYMMETRY Symmetry
PROPERTIES
  LostMeansKilled
