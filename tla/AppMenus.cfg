SPECIFICATION Spec
CONSTANTS
  Apps = {a, b}
  Hosts = {"logo", "row"}
  MenusOf <- LogoAndRow
  Absent <- RowAbsent
  Size = 2
  Changes = {"front", "gone", "grey"}
  MaxChanges = 2
  NoApp = NoApp
  NoMenu = NoMenu
CHECK_DEADLOCK FALSE
INVARIANTS TypeOK OneAppCached PerformsShownSettled
