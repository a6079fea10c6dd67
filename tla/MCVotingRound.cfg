SPECIFICATION Spec
CONSTANTS
  c1 = c1
  Candidate = {c1, c2, c3}
  Voter = {v1, v2, v3}
  SubmittedAt <- MCSubmittedAt
  MaxOptions = 2
  MaxPool = 2
  Duration = 2
  MaxRounds = 1
  MaxCopies = 0
INVARIANTS
  TallyMatchesLedger
  NoSuggestionTwice
PROPERTIES
  HaltCostsNoVotingTime
  ImplementsPublicBallot
