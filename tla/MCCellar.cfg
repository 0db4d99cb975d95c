CONSTANTS
  c1 = c1  c2 = c2  h1 = h1  h2 = h2  w1 = w1  w2 = w2
  CellID = {c1, c2}
  Named = {c2}
  Handler = {h1, h2}
  StepsOf <- MCStepsOf
  Builds <- MCBuilds
  Batches <- MCBatches
  Workers = {w1, w2}
  MaxTime = 1
  MaxDisturb = 2
SPECIFICATION FairSpec
INVARIANTS TypeOK ExclusiveClaim TokensConserved NoSilentOrphan CleanReturn
PROPERTIES ImplementsLifecycle StopReturns FailureEndsRun AcceptedWorkCompletes
