SPECIFICATION Spec
CONSTANTS
  None = None
  Attempts = {a1, a2}
  Fractions <- EveryFraction
  Takes = {t1, t2}
  Fallback = {t2}
  Noteless = {t2}
SYMMETRY Symmetry
INVARIANTS
  CompleteEntry
  HonestDocument
  TakesKept
PROPERTIES
  PercentRises
