\* Three slots, two assets, every fault: the safety of the index.
CONSTANTS
  a1 = a1
  a2 = a2
  a3 = a3
  Assets = {a1, a2}
  Blocks <- OneOrTwo
  NoBlock = NoBlock
  MaxSlot = 3
SPECIFICATION Spec
INVARIANTS TypeOK NothingMissed FirstAppearance ResumeSkipsNothing JobForRow
PROPERTY ImplementsIndex
CONSTRAINTS UntilLapse NoneLost FirstSlotFilled
ACTION_CONSTRAINT NodeWaits
