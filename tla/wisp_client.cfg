\* One stream, two writers: everything that can end a call.
SPECIFICATION FairSpec
CONSTANTS
  Stream = {s1}
  Everyone = conn
  Writer = {w1, w2}
  WriteQueueLen = 1
  ReadChLen = 1
  WireCap = 1
  MaxData = 2
  MaxWrites = 2
INVARIANTS NeverPanics ReadInOrder CreditsSpentOnce
PROPERTIES CloseFreesCallers LoopGoesOn
\* A client that is closed stops.
CHECK_DEADLOCK FALSE
