\* Two slots, no switch of forks, no failed insert: the index catches up.
CONSTANTS
  a1 = a1
  a2 = a2
  a3 = a3
  Assets = {a1, a2}
  Blocks <- OneOrTwo
  NoBlock = NoBlock
  MaxSlot = 2
SPECIFICATION OneChainSpec
PROPERTY CatchesUp
CONSTRAINT UntilLapse
INVARIANT JobForRow
