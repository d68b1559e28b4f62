\* Blocks of three mints: the offset of one row is not enough.
CONSTANTS
  a1 = a1
  a2 = a2
  a3 = a3
  Assets = {a1, a2, a3}
  Blocks <- Three
  NoBlock = NoBlock
  MaxSlot = 2
SPECIFICATION Spec
INVARIANT PartialBlockNotSkipped
CONSTRAINT UntilLapse
