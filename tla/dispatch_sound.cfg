\* No crash, no failure is needed: an outcome logged between a removal and its receipt.
CONSTANTS
  p1 = p1
  p2 = p2
  t1 = t1
  t2 = t2
  Procs = {p1, p2}
  Records = {r1}
  Targets = {t1}
  Registered <- AllRegistered
  Attempts = {a1, a2}
  NoAttempt = NoAttempt
  Payloads = {x}
  NoPayload = NoPayload
  Unknown = Unknown
  NChunks = 2
  MaxCrashes = 0
SYMMETRY Symmetry
SPECIFICATION Spec
INVARIANT
  PossiblyWrittenSound
