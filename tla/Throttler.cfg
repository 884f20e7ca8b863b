\* Requests for two services share one unit of the breaker and keep it while they sleep.
CONSTANTS
  Requests = {"web", "api"}
  Services = {"web", "api"}
  Service <- EachService
  TotalSlots = 2
  Capacity = 1
SPECIFICATION ThrottlerFairSpec
INVARIANTS ProxiedOnce AnswerIsTrue
PROPERTY EveryRequestAnswered
