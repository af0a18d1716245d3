SPECIFICATION Spec
CONSTANTS
  Jobs = {j1, j2}
  MaxFaults = 0
  None = None
  Uploads = {u1, u2}
  Videos = {}
  Downloads = {d1}
  Addresses = {a1, a2}
  Requests = {q1, q2}
  MaxActive = 1
  MAX_RETRIES = 1
  Workers = {w1}
  Stalls = FALSE
SYMMETRY Symmetry
INVARIANTS
  OneLivePerSong
  ActiveLimit
