\* Two processes open a ledger of any version; then it is written, published, edited and verified.
CONSTANTS
  r1 = r1
  r2 = r2
  Records = {r1, r2}
  Deliveries = {d}
  Replays = {y}
  Runs = {u1, u2}
  Openers = {o1, o2}
  OldVersions <- MCVersions
  Absent = Absent
  Genesis = Genesis
  Forged = Forged
  Malformed = Malformed
  MaxEvents = 2
  MaxTampers = 1
  MaxMoves = 1
CHECK_DEADLOCK FALSE
SYMMETRY Symmetry
SPECIFICATION Spec
INVARIANTS
  HonestAccepted
  CleanMeansKept
  LoggedOnce
  MigratedArchived
