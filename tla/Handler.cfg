\* Two requests for services of the same name in two namespaces; the first may find no
\* endpoint once, so that a report may be dropped for one of either namespace.
CONSTANTS
  Requests <- MCRequests
  Calls <- MCCalls
  Services <- MCServices
  Svc <- MCSvc
  Namespace <- MCNamespace
  NoMutex = NoMutex
  Chars <- MCChars
  Invalid = Invalid
  MaxTries <- MCMaxTries
  RuleLists <- MCRuleLists
  HTTPRequests <- MCHTTPRequests
SPECIFICATION HandlerFairSpec
INVARIANTS ProbeExact ProbeIsSilent TargetAnswerStands RecordedUnlessLate ReleasesOwnMutex
PROPERTIES MutexDeleted OperatorTold
\* every request is answered and every call ends
CHECK_DEADLOCK FALSE
