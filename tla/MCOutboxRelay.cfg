\* Two processes whose passes overlap, and two faults.
SPECIFICATION FairSpec
CONSTANTS
  Events = {1, 2}
  TypeOf <- MCTypes2
  Relays = {r1, r2}
  BatchSize = 2
  MaxFaults = 2
INVARIANTS PublishedReached DuplicatesBounded DeadLetteredOnceADay
PROPERTY DeliversAtLeastOnce
\* When every row is published there is nothing to do.
CHECK_DEADLOCK FALSE
