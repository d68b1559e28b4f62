\* Rows of an abandoned fork: the query never ends.
CONSTANTS
  a1 = a1
  a2 = a2
  a3 = a3
  Assets = {a1, a2}
  Blocks <- OneOrTwo
  NoBlock = NoBlock
  MaxSlot = 2
SPECIFICATION FairSpec
PROPERTY RaceIsTransient
CONSTRAINT UntilLapse
