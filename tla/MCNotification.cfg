\* One job of any kind, processed by one worker at a time or by two at once.
SPECIFICATION MCSpec
CONSTANTS
  j1 = j1
  w1 = w1
  w2 = w2
  Jobs = {j1}
  Workers = {w1, w2}
  Attempts = 3
  DailyLimit = 1
INVARIANTS UsageBacked CountedOnce QuotaHeld MessagesBounded
PROPERTIES SentStays JobsEnd
\* When the job has ended there is nothing to do.
CHECK_DEADLOCK FALSE
