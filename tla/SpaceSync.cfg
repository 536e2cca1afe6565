SPECIFICATION FairSpec
CONSTANTS
  d1 = d1
  d2 = d2
  s1 = s1
  s2 = s2
  s3 = s3
  s4 = s4
  own1 = own1
  own2 = own2
  Displays = {d1, d2}
  Items = {own1, own2}
  DrawnOn <- Owned
  Spaces = {s1, s2, s3, s4}
  InitSpaces <- TwoAndOne
  MaxSpaces = 2
  MaxChanges = 3
  NoSpace = NoSpace
CHECK_DEADLOCK FALSE
INVARIANTS TypeOK BarsDistinct
PROPERTIES OneHighlighted Follows ChipsCurrent
