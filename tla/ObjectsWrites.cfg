\* Uploads, replacements, expiry and deletes, two requests at a time, one failure.
SPECIFICATION Spec
CONSTANTS
  Bucket = bkt
  Keys = {k1}
  Payloads = {v1, v2}
  Requests = {r1, r2}
  Ops = {"delete"}
  MaxUploads = 2
  MaxFinals = 3
  MaxPuts = 2
  MaxFaults = 1
  Gone = Gone
  Partial = Partial
  S3 = S3
  None = None
  Unlimited = Unlimited
SYMMETRY Symmetry
INVARIANTS TypeOK MappedIntact NoOrphans
PROPERTIES  PromiseSpec
