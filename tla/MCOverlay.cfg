SPECIFICATION FairSpec
CONSTANTS
    MaxVotes = 2
INVARIANTS
  OverlayCurrent
  PanelsAgree
PROPERTIES
  TallyIsShown
