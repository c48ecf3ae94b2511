\* A folder with two keys and a key of its own name, between two other names.
SPECIFICATION ListingSpec
CONSTANTS
  MaxName = 5
  Last <- TreeLast
  Keys = {2, 3, 4, 5}
  Folders = {2}
  Prefixes = {0, 2}
  Limits = {1, 2}
  MaxBuckets = 2
INVARIANTS ListingTypeOK ListingsCover ListingsHonest
