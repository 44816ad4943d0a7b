SPECIFICATION FairSpec
CONSTANTS SendLimit = 2
          RecvLimit = 2
          MaxLen = 2
          MaxBytes = 3
          Room = 2
CHECK_DEADLOCK FALSE
INVARIANT OperationsTracked
PROPERTIES StreamSpec Answered
