SPECIFICATION Spec
CONSTANTS
  Jobs = {j1}
  MaxFaults = 3
  None = None
  Uploads = {u1}
  Videos = {v1}
  Downloads = {d1, d2}
  Addresses = {a1}
  Requests = {q1}
  MaxActive = 1
  MAX_RETRIES = 2
  Workers = {w1, w2}
  Stalls = FALSE
SYMMETRY Symmetry
INVARIANTS
  FilesStored
  StemMatchesMix
  AttemptOwnsRow
  AttemptsBounded
