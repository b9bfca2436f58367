SPECIFICATION Spec
CONSTANTS
  MaxChanges = 2
  Criteria = {audit}
  MaxTime = 2
  CardEnds = 2
INVARIANTS
  AssessedAtOnce
  VerifiedBytesArePublished
  ScoreStood
