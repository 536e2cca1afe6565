SPECIFICATION Spec
CONSTANTS
  logo = logo
  text = text
  menus = menus
  clock = clock
  none = none
  Order <- TheOrder
  Hosts <- TheHosts
  Interval <- EveryOther
  Lengths <- TheLengths
  Placements <- ThePlacements
  BarW = 14
  NotchW = 2
  PadLeft <- ThePadding
  BgRight <- NoPadding
  BaseH = 2
  CellH = 2
  MaxLeaves = 2
  PopupW = 6
  NoBounds = none
  MaxActs = 3
INVARIANTS WindowOK InOrder HitsShown
PROPERTY EventuallyShown
