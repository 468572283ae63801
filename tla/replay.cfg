\* A pass over the records before and during a campaign of one document on two lanes; one fault.
CONSTANTS
  d1 = d1
  d2 = d2
  bwrap = bwrap
  oci = oci
  v1 = v1
  v2 = v2
  Link = Link
  Gone = Gone
  Out = Out
  Near = Near
  Far = Far
  NoRecord = NoRecord
  Paths <- MCDocument
  LaneOrder <- MCLanes
  Disks <- MCDisk
  Versions <- MCVersions
  Others = {Link, Gone}
  Plans <- MCPlan
  Ledgers <- MCRecords
  Json <- MCJson
  Parsed <- MCParsed
  JsonFiles <- MCJsonFiles
  IgnoreKeys <- MCIgnoreKeys
  KeyTol <- MCKeyTol
  DefaultTol <- MCDefaultTol
  Specs <- MCSpecs
  ReRuns <- MCReRuns
  KeepOutputs = TRUE
  MaxFaults = 1
CHECK_DEADLOCK FALSE
SPECIFICATION FairReplaySpec
INVARIANTS
  ObservedOnce
  JournalReopens
  ReplayJustified
PROPERTY
  CampaignCompletes
