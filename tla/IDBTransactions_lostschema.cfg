\* Two version upgrades overlap.
CONSTANTS
  Conns = {c1, c2}
  TxnIds = {t1, t2}
  MaxStores = 1
  MaxVersion = 2
  Keys = {k1}
  Vals = {v1}
  NoVal = NoVal
  NotCaptured = NotCaptured
  NoTxn = NoTxn
  ProcessWideIds = TRUE
  SerializedTxns = FALSE
  DropsActive = FALSE
SPECIFICATION Spec
PROPERTIES AbortedUpgradeRestoresSchema
CHECK_DEADLOCK FALSE
