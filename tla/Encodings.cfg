SPECIFICATION Spec
CONSTANTS
  r1 = r1
  r2 = r2
 
INVARIANT RequestsReadAsSent
INVARIANT ReportsAreRight
INVARIANT SignalsReachTheirOwner
INVARIANT BatchesAreAnswered
CHECK_DEADLOCK FALSE
