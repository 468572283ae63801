\* Violation: a put returns an object that a power loss then takes.
CONSTANTS
  f = f
  t = t
  Tree = Tree
  File = File
  S1 = S1
  S2 = S2
  SM = SM
  Clients = {c1, c2}
  Blobs = {f, t}
  Snaps = {Tree, File}
  Parts <- MCParts
  Root <- MCRoot
  Shards = {S1, S2, SM}
  ShardOf <- MCShardOf
  Beside <- MCBeside
  Places = {x}
  Ops = {"bundle"}
  Absent = Absent
  Torn = Torn
  Damaged = Damaged
  MaxFaults = 1
SYMMETRY Symmetry
SPECIFICATION Spec
PROPERTY ReturnedIsDurable
