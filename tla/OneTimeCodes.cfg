SPECIFICATION OtpSpec
CONSTANTS
  Requester = {q1, q2}
  MaxChallengesPerWindow = 2
  MaxAttemptsPerChallenge = 2
  MaxAttemptsPerWindow = 2
  MaxIssued = 4
  MaxCrossings = 2
  NoChallengeRow = NoChallengeRow
SYMMETRY Interchangeable
INVARIANTS
  OtpTypeOK
  CodeWorksOnce
  AttemptsBounded
\* Once every challenge was made and used or expired, nothing is left to ask for.
CHECK_DEADLOCK FALSE
