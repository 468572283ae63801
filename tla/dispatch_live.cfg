\* Two Dispatchers write, retract and catch up on one delivery; one of them may die.
CONSTANTS
  p1 = p1
  p2 = p2
  t1 = t1
  t2 = t2
  Procs = {p1, p2}
  Records = {r1}
  Targets = {t1}
  Registered <- AllRegistered
  Attempts = {a1, a2, a3}
  NoAttempt = NoAttempt
  Payloads = {x}
  NoPayload = NoPayload
  Unknown = Unknown
  NChunks = 2
  MaxCrashes = 1
SPECIFICATION FairSpec
PROPERTY
  InvalidatedCleaned
