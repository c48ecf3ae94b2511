\* A rotation racing the commit of a replacement.
SPECIFICATION Spec
CONSTANTS
  Bucket = bkt
  Keys = {k1}
  Payloads = {v1, v2}
  Requests = {r1, r2}
  Ops = {"rotate"}
  MaxUploads = 2
  MaxFinals = 3
  MaxPuts = 2
  MaxFaults = 0
  Gone = Gone
  Partial = Partial
  S3 = S3
  None = None
  Unlimited = Unlimited
SYMMETRY Symmetry
INVARIANTS MappedIntact
