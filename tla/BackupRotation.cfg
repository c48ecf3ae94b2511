\* One source that replaces files atomically and one that may tear them.
SPECIFICATION Spec
CONSTANTS
  Sources = {s3, dav}
  Tearing = {dav}
  Retention = 3
  MaxClock = 4
  None = None
  Torn = Torn
INVARIANTS TypeOK StatusTellsOfASnapshot SnapshotsRotate
