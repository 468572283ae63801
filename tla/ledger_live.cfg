\* Every record leaves pending: two clients, one record, one fault.
CONSTANTS
  Clients = {c1, c2}
  Runs = {r1}
  Contents = {x, y}
  Gone = Gone
  MaxFaults = 1
  MaxEvents = 3
SPECIFICATION FairSpec
PROPERTY
  LeavesPending
