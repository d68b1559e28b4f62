\* A chain whose tip mints nothing: the cache is not flushed.
CONSTANTS
  a1 = a1
  a2 = a2
  a3 = a3
  Assets = {a1, a2}
  Blocks <- WithEmpty
  NoBlock = NoBlock
  MaxSlot = 2
SPECIFICATION FairSpec
PROPERTY SavedEveryMinute
CONSTRAINT UntilLapse
