SPECIFICATION FairSpec
CONSTANTS
  c1 = c1
  Candidate = {c1, c2}
  Voter = {}
  SubmittedAt <- MCSubmittedAt
  MaxOptions = 2
  MaxPool = 2
  Duration = 1
  MaxRounds = 2
  MaxCopies = 1
INVARIANTS
  NoSuggestionTwice
PROPERTIES
  RoundEventuallyDecided
