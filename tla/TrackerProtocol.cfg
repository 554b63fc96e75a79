SPECIFICATION FairSpec
CONSTANTS
  Task = {t1, t2, t3}
  FirstGuess = 0
  Unreported = Unreported
  Free = Free
INVARIANT CallbackIsLast
PROPERTY ImplementsBarrier
PROPERTY CallbackRuns
