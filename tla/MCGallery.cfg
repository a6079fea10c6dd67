SPECIFICATION LiveSpec
CONSTANTS
  Files = {f1, f2}
  MaxGeneration = 3
  MaxWinners = 3
  MaxFaults = 2
  MaxJobs = 2
INVARIANTS
  MirrorExtendsRemote
  NewProjectIsNew
  NoLinkUnderBuild
PROPERTIES
  RevertKeepsFiles
  ArmGivesStageBack
CHECK_DEADLOCK FALSE
