SPECIFICATION FairRing
CONSTANTS
  Slots = 2
  SlotUnits = 1
  MaxLen = 3
  Flows = {"credit", "legacy"}
  MaxStarts = 2
  MaxMishaps = 1
INVARIANTS RingTypeOK SlotOwnedOnce NoStrayLines
PROPERTIES ImplementsStream StopReturns TransferEnds
CHECK_DEADLOCK FALSE
