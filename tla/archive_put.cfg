\* Two clients archive a tree and its file, which are in shards beside each other, and export; one fault.
CONSTANTS
  f = f
  t = t
  Tree = Tree
  File = File
  S1 = S1
  S2 = S2
  SM = SM
  Clients = {c1, c2}
  Blobs = {f, t}
  Snaps = {Tree, File}
  Parts <- MCParts
  Root <- MCRoot
  Shards = {S1, S2, SM}
  ShardOf <- MCShardOf
  Beside <- MCBeside
  Places = {x}
  Ops = {"snapshot", "bundle", "certify", "export"}
  Absent = Absent
  Torn = Torn
  Damaged = Damaged
  MaxFaults = 1
SYMMETRY Symmetry
SPECIFICATION Spec
INVARIANTS
  TypeOK
  NeverPartial
  ExportsIntact
  QuietIsOnDisk
PROPERTIES
  CertifiesIntact
  KeepsContract
