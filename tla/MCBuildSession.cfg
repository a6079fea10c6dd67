SPECIFICATION FairSpec
CONSTANTS
  t1 = t1
  t2 = t2
  Task = {t1, t2}
  NoTask = NoTask
  HandedMax = 1
  MaxCopies = 1
  MaxJobs = 1
  MaxRepeats = 1
INVARIANTS
  OnePlace
  HaltReachesBuild
PROPERTIES
  StageGivenBack
  BuildEventuallySettles
