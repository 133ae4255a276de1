SPECIFICATION FairSpec
CONSTANTS
  a1 = a1
  a2 = a2
  Asks = {a1, a2}
  None = none
  MaxFaults = 1
INVARIANT TypeOK SlotWaits RecordIsOpen
PROPERTY SettledOnce AsksReturn
CHECK_DEADLOCK FALSE
