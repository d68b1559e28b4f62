\* Two services, one directory, one snapshot at a time, two moments.
CONSTANTS
  d1 = d1
  dbsync = dbsync
  postgres = postgres
  Dirs = {d1}
  Services = {dbsync, postgres}
  MaxNow = 2
  MaxSnapshots = 1
SPECIFICATION Spec
INVARIANTS TypeOK AtRest Restored NeverMixed BackedUp Initialized
PROPERTY ComesBack
SYMMETRY Symmetry
