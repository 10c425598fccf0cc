SPECIFICATION Spec
CONSTANTS
  Netdevs = {n1, n2}
  Pages = {p1, p2, p3, p4}
  RxQuota = 2
  TxQuota = 1
  NoPage = NoPage
INVARIANTS TypeOK PagesConserved PoolDrains RingStaysFull FrameEndsRight
SYMMETRY MCSymmetry
CHECK_DEADLOCK FALSE
