CONSTANTS
  Width = 7
  Words = 128
  DefaultCapacity = {4}
  DefaultSlotSize = 5
  MinSlotSize = 2
  ControlSize = 4
  Rotation = 3
  CheckpointMagic = {0, 2, 4, 5}
  SlotSizes = {0, 1, 3}
  Second = 20
  Moves = 7
SPECIFICATION WordsSpec
INVARIANTS CapacityRounded SlotsInMapping ChecksumDetects RateAcrossWrap
