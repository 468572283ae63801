\* Two clients record, fail and invalidate two runs, which may share a bundle in the archive; one fault.
CONSTANTS
  Clients = {c1, c2}
  Runs = {r1, r2}
  Contents = {x, y}
  Gone = Gone
  MaxFaults = 1
  MaxEvents = 2
SYMMETRY Symmetry
SPECIFICATION Spec
INVARIANTS
  TypeOK
  SealedIsRunOutput
  ReturnedSealed
  LeftPendingOnlyByFault
  ChainMatchesTable
  SealedArchived
PROPERTY
  Lifecycle
