\* Two administrators whose updates overlap; additions and bucket requests run alone.
SPECIFICATION Spec
CONSTANTS
  MaxSources = 3
  Priorities = {1, 2}
  Buckets = {b1, b2}
  Admins = {a1, a2}
  Ops = {"add", "update", "bucket"}
  Alone = {"add", "bucket"}
  None = None
SYMMETRY Symmetry
INVARIANTS TypeOK SerialKeepsPrimary RuntimeMatchesTable
