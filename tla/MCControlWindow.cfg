SPECIFICATION FairSpec
CONSTANTS
  d1 = d1
  d2 = d2
  Donor = {d1, d2}
  NoDonor = NoDonor
  Amounts <- MCAmounts
  NotANumber = NotANumber
  TicksPerUnit = 1
  MinDuration = 1
  MaxDuration = 2
  Cooldown = 3
  MaxWindows = 2
PROPERTIES
  CooldownHolds
  PaidTimeIsExact
  WindowEventuallyEnds
