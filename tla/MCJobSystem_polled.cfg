SPECIFICATION FairSpec
CONSTANTS
  Jobs = {j1}
  MaxFaults = 2
  None = None
  Uploads = {u1}
  Videos = {v1}
  Downloads = {d1}
  Addresses = {a1}
  Requests = {q1}
  MaxActive = 1
  MAX_RETRIES = 1
  Workers = {w1}
  Stalls = FALSE
PROPERTIES
  PolledJobEnds
