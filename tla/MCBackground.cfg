\* Two runs of onDbSetup and one of onClose, every fault.  A settled process rests.
CONSTANTS
  s1 = s1
  s2 = s2
  Setups = {s1, s2}
SPECIFICATION FairSpec
INVARIANTS TypeOK MigrationsExclusive NeverStranded
PROPERTY Stabilises
CHECK_DEADLOCK FALSE
