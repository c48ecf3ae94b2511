\* One bucket from its uploads to the end of its tombstone.
SPECIFICATION Spec
CONSTANTS
  Sources = {s1}
  Ids = {u1, u2}
  Requests = {r1}
  Lifetimes = {1, 2}
  Grace = 1
  ConfirmWait = 1
  ConfirmLife = 1
  Week = 3
  Retry = 1
  MaxTransfer = 2
  ZoneOffset = 0
  MaxFaults = 1
  None = None
INVARIANTS TypeOK  GrantsOutlived
PROPERTIES DeletionCompletes  
