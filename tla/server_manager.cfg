\* The plain and the internal listener, both front ends: commands, a signal
\* and requests in any order.
SPECIFICATION ServerFairSpec
CONSTANTS
  Listeners = {"http", "internal"}
  FrontEnds = {"cli", "gui"}
  Request = {r1, r2}
  MaxCommands = 4
INVARIANT SavedServes
PROPERTIES OnlyPastFailuresPanic CloseReturns
\* A server that is closed stops.
CHECK_DEADLOCK FALSE
