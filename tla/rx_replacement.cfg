SPECIFICATION Spec
CONSTANTS
  Netdevs = {n1, n2}
  Pages = {p1, p2, p3, p4}
  RxQuota = 2
  TxQuota = 1
  NoPage = NoPage
INVARIANT ReplacementFits
CHECK_DEADLOCK FALSE
