SPECIFICATION RaceSpec
CONSTANTS
  MaxVersions = 2
  MaxReviews = 2
  MaxNumber = 2
  Sessions = {s1, s2}
  Operations <- SubmitOperations
  Edits = {"gap", "stepsA"}

INVARIANT OneOpenReview
CHECK_DEADLOCK FALSE
