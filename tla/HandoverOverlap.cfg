SPECIFICATION RaceSpec
CONSTANTS
  MaxVersions = 3
  MaxReviews = 2
  MaxNumber = 3
  Sessions = {s1, s2}
  Operations <- AllOperations
  Edits = {"gap", "stepsA"}
SYMMETRY SessionSymmetry
INVARIANTS PendingHasOpenReview UncrossedReviewsHold
