CONSTANTS
  Attempts = {a1, a2, a3}
  NoAttempt = NoAttempt
  Payloads = {x}
  NoPayload = NoPayload
  Unknown = Unknown
  MaxEvents = 6
CHECK_DEADLOCK FALSE
SPECIFICATION Spec
INVARIANTS
  TypeOK
  PossiblyWrittenMeaning
  ExplainNeverUnderstates
PROPERTY
  UnwrittenFailureNeutral
