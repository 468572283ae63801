\* A campaign of two documents on two lanes, its report, its sign-off and a check; one fault.
CONSTANTS
  d1 = d1
  d2 = d2
  d3 = d3
  bwrap = bwrap
  oci = oci
  v1 = v1
  v2 = v2
  Link = Link
  Gone = Gone
  Out = Out
  Near = Near
  Far = Far
  NoRecord = NoRecord
  NoLimit = NoLimit
  ReportBlob = ReportBlob
  Paths <- MCPaths
  LaneOrder <- MCLanes
  Disks <- MCDisks
  Versions <- MCVersions
  Others = {Link, Gone}
  Plans <- MCPlans
  Ledgers <- MCLedgers
  Json <- MCJson
  Parsed <- MCParsed
  JsonFiles <- MCJsonFiles
  IgnoreKeys <- MCIgnoreKeys
  KeyTol <- MCKeyTol
  DefaultTol <- MCDefaultTol
  Specs <- MCPolicies
  ReRuns <- MCReRuns
  Waivers <- MCWaivers
  MaxFailures = 50
  KeepOutputs = TRUE
  MaxFaults = 1
CHECK_DEADLOCK FALSE
SPECIFICATION Spec
INVARIANTS
  SignedCovers
  StaleTold
