\* The shipped topology: one worker; a job that kills it, one that does not, one nothing handles.
CONSTANTS
  a = a
  b = b
  c = c
  w1 = w1
  w2 = w2
  NoJob = NoJob
  Jobs <- ThreeJobs
  Workers <- OneWorker
  MaxAttempts = 2
  DrainLimit = 2
  Poison <- PoisonA
  Unhandled <- UnhandledC
  Timely = FALSE
  MaxCrashes = 1
SPECIFICATION FairSpec
INVARIANTS AttemptBudget DoneMeansFinished StartsBounded
PROPERTIES ImplementsLifecycle EveryJobSettles
