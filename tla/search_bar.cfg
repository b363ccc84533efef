\* A text and a system tag, two tags in the search, one restart.
SPECIFICATION BarSpec
CONSTANTS
  t1 = t1
  sys = sys
  Text = {t1, sys}
  System = sys
  Found <- MCFound
  MaxTags = 2
  MaxMinus = 1
  MaxCrashes = 1
INVARIANTS SuggestionsAreForInput LastTagsKept
CHECK_DEADLOCK FALSE
