SPECIFICATION Spec
CONSTANTS
  NumServers = 3
  ParQueries = 2
  Settings <- SomeSettings
  MaxTimeout = 1
  GlobalTimeout = 2
INVARIANTS Accounted EventsMatched BestKept
PROPERTY GivesUpLast
