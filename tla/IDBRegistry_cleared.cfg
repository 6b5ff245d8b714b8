\* Two sessions with one database each, one page.
CONSTANTS
  Scopes = {"s1", "s2"}
  Names = {"n1"}
  Conns = {"c1"}
  MaxBackends = 2
  Data = {"d1"}
  NoData = NoData
  None = None
SPECIFICATION Spec
INVARIANT HandlesPointToBackends
CHECK_DEADLOCK FALSE
