\* Three requests, duplicates of each other or under two keys.
SPECIFICATION KeysSpec
CONSTANTS
  k1 = k1
  k2 = k2
  r1 = r1
  r2 = r2
  r3 = r3
  Keys = {k1, k2}
  Requests = {r1, r2, r3}
INVARIANTS ExecutedOnce AnswersAgree
PROPERTIES KeysFreed
