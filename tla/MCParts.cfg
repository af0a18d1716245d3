SPECIFICATION PartsSpec
CONSTANTS
  Songs <- MCSongs
  Tuning <- MCTuning
  Window = 5
  costs <- MCCosts
  Percents = {5, 40, 100, 250}
  BarLengths = {0, 9}
  MaxRedraws = 2
  Predictions <- MCPredictions
  MIN_CONFIDENCE = 10
  GHOST_LEAD = 5
  VoicingWindow = 5
  Ratio = 80
  AloneOnly = TRUE
  Grids <- MCGrids
  Durations = {0, 7, 11}
  FrameStep = 2
  Second = 3
  Symbols = {"C", "Am"}
  beats_per_bar = 4
  None = None
  Docs <- MCDocs
  Times = {0, 1, 2, 3, 4, 6, 8}
  Widths = {5, 10}
  MIN_LIT = 1
  StringsDrawn = {0, 1}
  MIN_RUN = 3
  MAX_GAP = 2
  NegativeInfinity <- MCNegativeInfinity
  PositiveInfinity = 99
  MAX_DRIFT = 1
  MAX_LEAD = 5
  MaxAge = 2
  SeekTargets = {0, 3}
  MaxTicks = 3
  MaxEvents = 2
  Clients = {web, ios}
  MaxBytes = 2
  MaxDuration = 2
  Nothing = Nothing
  Videos = {"v1", "v2"}
  NoVideo = NoVideo
  RawLinks <- MCRawLinks
  MaxUpload = 3
  Allowance = 1
  MaxLinkBody = 2
  Chunks = {1, 2}
  Unanswered = Unanswered
  Callers = {k1, k2, k3}
  Ids = {1, 2, 3}
  Hashes = {h1, h2}
  Addresses = {a1, a2}
  MaxActive = 1
  Rounds = 2
  Nobody = Nobody
INVARIANTS
  MapperRight
  SeparationRight
  GhostsLeaveBases
  ChordsHold
  ViewsRight
  ClockNear
  BlamedRight
  AcceptedSound
  
  BodyBounded
PROPERTIES
  NeverBack
  CreateAtomic
