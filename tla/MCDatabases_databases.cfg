\* Store: careful pages, with and without a key generator, and others without one;
\* index 1 is unique.  Registry: sessions are cleared whatever their pages hold.
\* Files: three locks, and two profiles saved and loaded three times.
CONSTANTS
  PKeys = {1, 2}
  IKeys = {e1}
  e1 = e1
  e2 = e2
  MaxIndexes = 2
  UniqueIndexes = {1}
  Vals <- OneKeyVals
  NoVal = NoVal
  NoEntry = NoEntry
  NoKey = NoKey
  NotCaptured = NotCaptured
  Nothing = Nothing
  MaxExact = 8
  Scopes = {"s1", "s2"}
  DBNames = {n1, n2}
  Conns = {"c1"}
  MaxBackends = 2
  Data = {"d1"}
  Doubles = {0, 32768, 32769, 33024}
  Strings <- ShortStrings
  MaxArray = 2
  Owners = {"p1"}
  MaxNodes = 2
  Sessions = {1, 2, 3}
  SavedFiles = {}
  MaxUses = 0
SPECIFICATION SumSpec
INVARIANTS StoreIsSound RegistryIsSound LocksHaveHolders ReadsAreRight
PROPERTIES AbortUndoesEverything GeneratedKeyIsNew ProfilesStayApart
CHECK_DEADLOCK FALSE
