\* Every mode, a task too many to detect, and up to two failing calls.
SPECIFICATION FairSpec
CONSTANTS
  Tasks = {t1, t2}
  Modes <- AllModes
  MaxFaults = 2
INVARIANTS
  OneTask
  ResourceOutlivesTask
PROPERTIES
  StableLinkIsSensed
  LostLinkGoesQuiet
