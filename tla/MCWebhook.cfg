\* One endpoint, two jobs of either kind, two workers and the dead letters of
\* both, with a test delivery; the runs of one job may overrun.  The system
\* may stop: every job can have ended.
SPECIFICATION Spec
CONSTANTS
  j1 = j1
  j2 = j2
  w1 = w1
  w2 = w2
  Jobs <- MCJobs
  Workers <- MCWorkers
  Overrun <- MCOverrun
  Attempts = 2
  MaxTests = 1
  MaxFaults = 1
SYMMETRY Symmetry
CHECK_DEADLOCK FALSE
INVARIANTS
  OneEntryPerReplay
  PostsBounded
  MarkedForCause
  CompletedIsDelivered
