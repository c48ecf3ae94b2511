\* One key of an S3 or a WebDAV source, one alias, two handlers.
SPECIFICATION Spec
CONSTANTS
  Keys = {k1}
  Slugs = {s1}
  Requests = {r1, r2}
  Kinds = {TRUE, FALSE}
  MaxFiles = 3
  MaxCaps = 2
  None = None
SYMMETRY Symmetry
INVARIANTS TypeOK AliasFollowsItsObject 
CHECK_DEADLOCK FALSE
