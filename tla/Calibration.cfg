\* Both kinds of chips and of detectors, and up to two failing calls.
SPECIFICATION FairSpec
CONSTANTS
  GainPackets = 2
  BufferSize = 3
  MaxFaults = 2
INVARIANTS
  FileHasOneUser
PROPERTIES
  PausedTrafficResumes
  SwitchSettles
