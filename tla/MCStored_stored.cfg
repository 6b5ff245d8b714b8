\* Database: pages that keep overlapping transactions apart, on new and on stored
\* databases.  Profiles: two directories that are copied and renamed, damaged files,
\* failed flushes and crashes; two handles, one view that may outlive either of them.
CONSTANTS
  Conns = {c1, c2}
  TxnIds = {t1, t2}
  MaxStores = 2
  MaxVersion = 2
  Keys = {k1}
  Vals = {v1}
  NoVal = NoVal
  NotCaptured = NotCaptured
  NoTxn = NoTxn
  ProcessWideIds = TRUE
  SerializedTxns = TRUE
  DropsActive = TRUE
  Dirs = {d1, d2}
  Tokens = {p1, p2}
  Handles = {h1, h2}
  Views = {w1}
  Contents = {blank, x}
  Blank = blank
  Legacy = Legacy
  None = None
  Torn = Torn
SPECIFICATION SumSpec
INVARIANTS SnapshotsAreDisjoint TrackedUpgradeIsLive ProfilesAreSafe
PROPERTIES ImplementsAtomicStores AbortedUpgradeRestoresSchema ProfilesKeepTheirOwn
CHECK_DEADLOCK FALSE
SYMMETRY Symmetry
