\* Four LEDs in three segments: requests, restored values, fades and restarts.
SPECIFICATION Spec
CONSTANTS
  NumLeds = 4
  NumBoundaries = 2
  MinLength = 1
  InitBoundaries <- TwoBoundaries
  InitActive = 4
  BoundaryFade = TRUE
  ActiveFade = TRUE
  Levels = {dark, lit}
  Dark = dark
  Mixed = mixed
  Requests <- AnyRequest
  OldPreferences <- OutOfRange
  SetupOrder <- ActiveFirst
  Unset = unset
INVARIANTS
  Partition
  TransitionInStrip
  LoneChangeSurvives
  SegmentsShowTheirLight
