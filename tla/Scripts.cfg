\* A program and two more scripts, which may be programs in their turn.
SPECIFICATION FairSpec
CONSTANTS
  ad = ad
  blob = blob
  Contents = {ad, blob}
  Unhandled = {blob}
  MaxEvals = 3
  MaxContents = 2
  MaxAsks = 1
INVARIANTS
    SomebodyAnswers
PROPERTIES
    StopHitsItsProgram
    StopEnds
CHECK_DEADLOCK FALSE
