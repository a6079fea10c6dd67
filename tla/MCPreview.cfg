SPECIFICATION PreviewFairSpec
CONSTANTS
    MaxVersion = 2
    MaxPolls = 2
    MaxTimers = 2
    MaxFaults = 1
    MaxReloads = 1
INVARIANTS
  NeverBlank
PROPERTIES
  NewestAppIsShown
