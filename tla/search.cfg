\* Four searches, enough for two that are late to overlap a third.
SPECIFICATION FairSpec
CONSTANTS
  q1 = q1
  q2 = q2
  noTags = noTags
  Query = {q1, q2}
  NoTags = noTags
  MaxSearches = 4
INVARIANTS LoadedIsLatest SearchingHasRequest
PROPERTY AutoSearchCatchesUp
\* The bound on the searches stops the user.
CHECK_DEADLOCK FALSE
