SPECIFICATION FairSpec
CONSTANTS
  i1 = i1
  i2 = i2
  i3 = i3
  i4 = i4
  i5 = i5
  Items <- FiveItems
  Capacity = 3
  NoItem = NoItem
INVARIANTS
  ViewsLate
  SlotsApart
PROPERTIES
  ImplementsFifo
  EveryItemArrives
\* All items are taken at last.
CHECK_DEADLOCK FALSE
