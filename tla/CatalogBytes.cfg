\* Two buckets share a finite or unlimited source; three keys pass the limit of one.
SPECIFICATION Spec
CONSTANTS
  Buckets = {b1, b2}
  Keys = {k1, k2, k3}
  Sources = {s1}
  Legacy = Legacy
  None = None
  Unlimited = Unlimited
  Quotas = {1}
  Capacities = {1}
  Sizes = {1}
  TotalLimit = 1
  MaxObjects = 1
  MaxPending = 2
  MaxInt = 100
SYMMETRY Symmetry
INVARIANTS TypeOK Accounting RowsHaveParents TotalQuota KeyCountBound
PROPERTIES ExcessNeedsStaleReservation DeletingOnlyShrinks
