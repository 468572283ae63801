\* Two Dispatchers race on the two deliveries of a record; p2 has no writer for t2, and one of them may die.
CONSTANTS
  p1 = p1
  p2 = p2
  t1 = t1
  t2 = t2
  Procs = {p1, p2}
  Records = {r1}
  Targets = {t1, t2}
  Registered <- PartlyRegistered
  Attempts = {a1, a2}
  NoAttempt = NoAttempt
  Payloads = {x, y}
  NoPayload = NoPayload
  Unknown = Unknown
  NChunks = 1
  MaxCrashes = 1
SYMMETRY Symmetry
SPECIFICATION Spec
INVARIANTS
  TypeOK
  AttemptsApart
  BoundPayloadOnly
  SoundUnlessRaced
  DeliveredComplete
  NothingUnsealedHeld
PROPERTY
  RemovedOnlyIfInvalidated
