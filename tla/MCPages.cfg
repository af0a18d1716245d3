SPECIFICATION FairSpec
CONSTANTS
  Jobs = {j1, j2}
  None = None
  Submitted <- MCSubmitted
  Texts <- MCTexts
  Ends <- MCEnds
  First = j1
  Begun = {j1}
  Losses <- MCLosses
  Refusals <- MCRefusals
  MaxAttempts <- MCAttempts
  MaxVisits = 2
CHECK_DEADLOCK FALSE
INVARIANTS ShowsItsJob PollGoesOn
PROPERTIES NeverOlder NoPullBack PageSettles
