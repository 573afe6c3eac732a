SPECIFICATION FairSpec
CONSTANTS
  Runs = {1, 2}
  NoRun = NoRun
  MaxSteps <- MCMaxSteps
  Granted = {1, 2}
  MaxMishaps = 1
INVARIANTS OnePending NoOrphans TraceInOrder
PROPERTIES ThreadLeaves QueuedIsPicked
CHECK_DEADLOCK FALSE
