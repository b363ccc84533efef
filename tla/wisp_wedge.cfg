\* Three packets for a peer that refuses the first of them.
SPECIFICATION FairSpec
CONSTANTS
  Stream = {s1}
  Everyone = conn
  WriteQueueLen = 4
  WireCap = 1
  MaxReads = 0
  MaxFrames = 4
PROPERTY HandlerGoesOn
\* A connection that is over stops.
CHECK_DEADLOCK FALSE
