\* One stream, with enough data for both buffers to be used again.
SPECIFICATION FairSpec
CONSTANTS
  Stream = {s1}
  Everyone = conn
  WriteQueueLen = 2
  WireCap = 1
  MaxReads = 3
  MaxFrames = 3
INVARIANTS NeverSendsOnClosed ClosedOnce NoOrphans
PROPERTIES InOrder ConnsClosed
\* A connection that is over stops.
CHECK_DEADLOCK FALSE
