SPECIFICATION Spec
CONSTANTS
  MaxVersions = 4
  MaxReviews = 3
  MaxNumber = 5
INVARIANTS
  ReviewTracksSubmission
  PointersAgree
  ScopeIsReviewed
PROPERTIES
  SubmittedVersionsImmutable
  FollowsLifecycle
