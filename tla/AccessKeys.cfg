\* Two handlers at a time over three bucket ids drawn on two slugs, two keys.
SPECIFICATION Spec
CONSTANTS
  Slugs = {s1, s2}
  Tokens = {t1}
  Requests = {r1, r2}
  MaxBuckets = 3
  MaxKeys = 2
  Admin = Admin
  None = None
SYMMETRY Symmetry
INVARIANTS TypeOK OneBucketPerToken LiveKeysOpenLiveBuckets KeysStayHome
