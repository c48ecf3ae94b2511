\* Receipts compared as local text, refuted west of Greenwich.
SPECIFICATION Spec
CONSTANTS
  Sources = {s1}
  Ids = {u1}
  Requests = {r1}
  Lifetimes = {3}
  Grace = 1
  ConfirmWait = 1
  ConfirmLife = 1
  Week = 2
  Retry = 1
  MaxTransfer = 1
  ZoneOffset <- West
  MaxFaults = 0
  None = None
SYMMETRY Symmetry
INVARIANTS GrantsOutlived
