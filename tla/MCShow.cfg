SPECIFICATION Spec
CONSTANTS
  s1 = s1
  s2 = s2
  x = x
  p = p
  NoTask = NoTask
  Suggestion = {s1, s2}
  Chaos = {x}
  Paid = {p}
  VoteQueueMax = 1
  EarlyCloseSize = 2
  StartedMax = 1
  MaxActs = 3
INVARIANTS
  TypeOK
  OnePhaseTimer
  OverIsGone
  QueueBounded
  CadenceRuns
  WinnersNotStranded
CHECK_DEADLOCK FALSE
