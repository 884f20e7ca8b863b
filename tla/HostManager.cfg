\* Three requests: concurrent misses, and two timers racing a third request.
CONSTANTS
  Requests = {r1, r2, r3}
  NoHost = NoHost
SPECIFICATION FairSpec
PROPERTY TrafficReturns
\* all requests are eventually answered
CHECK_DEADLOCK FALSE
