\* One call on each kind of backend; the input changes once, and one interrupt or failing store.
CONSTANTS
  a = a
  b = b
  i1 = i1
  i2 = i2
  link = link
  Names = {a, b}
  Inodes = {i1, i2}
  Links = {link}
  NoInode = NoInode
  Inputs <- MCInputs
  Hosts <- MCHosts
  Needs <- MCNeeds
  MaxFiles = 1
  MaxChanges = 1
  MaxFaults = 1
CHECK_DEADLOCK FALSE
SPECIFICATION FairSpec
INVARIANTS
  SucceededIsWhole
  FailedLeavesNothing
  OverWhenReturned
PROPERTY
  RunEnds
